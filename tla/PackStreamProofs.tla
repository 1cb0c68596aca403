--------------------------- MODULE PackStreamProofs ---------------------------
(* Proofs about PackStream for every set of clients, bound and fault set.    *)
EXTENDS PackStream, TLAPS

-------------------------------------------------------------------------------
(* Types. *)

\* The numbers the constants make available.
LEMMA Bounds ==
  /\ 0 \in Versions /\ Versions \subseteq Nat
  /\ 0 \in 0 .. LadderTop /\ LadderTop \in 0 .. LadderTop
  /\ \A n \in 0 .. LadderTop : n # LadderTop => n + 1 \in 0 .. LadderTop
BY ConstantsAssumption DEF Versions

\* Replacing one reader by a well-typed one keeps the table of readers typed.
LEMMA BecomesTyped ==
  ASSUME rd \in [Clients -> Reader], NEW c \in Clients, NEW r \in Reader,
         Becomes(c, r)
  PROVE  rd' \in [Clients -> Reader]
BY DEF Becomes

\* After Becomes(c, r), r is what is found.
LEMMA NewReader ==
  ASSUME TypeOK, NEW c \in Clients, NEW r, Becomes(c, r)
  PROVE  rd'[c] = r
BY DEF Becomes, TypeOK

\* The frames the service may send are frames.
LEMMA SendableFrames == \A c : Sendable(c) \subseteq Frame
BY DEF Sendable

\* A frame carries a version.
LEMMA FrameVersion == \A f \in Frame : f.version \in Versions /\ f.version \in Nat
BY Bounds DEF Frame

\* A reader step that leaves the process and the service alone.
LEMMA ReaderOnlyTyped ==
  ASSUME TypeOK, NEW c \in Clients, NEW r \in Reader, Becomes(c, r),
         UNCHANGED <<packVars, linkVars, clientVars, truth, feed>>
  PROVE  TypeOK'
BY BecomesTyped DEF TypeOK, packVars, linkVars, clientVars

\* The steps of init() and close() keep every type.
LEMMA InitStepTypeOK ==
  ASSUME TypeOK, NEW c \in Clients, InitStep(c) PROVE TypeOK'
<1> USE DEF TypeOK, packVars, linkVars, clientVars
<1>1. CASE CloseOld(c)
  BY <1>1 DEF CloseOld
<1>2. CASE Install(c)
  BY <1>2 DEF Install
<1>3. CASE ResetPack(c)
  BY <1>3, Bounds DEF ResetPack
<1>4. CASE StartReader(c)
  <2>1. [rd[c] EXCEPT !.pc = "top"] \in Reader
    BY DEF Reader, ReaderPc
  <2>2. rd' \in [Clients -> Reader]
    BY <1>4, <2>1, BecomesTyped DEF StartReader
  <2>3. QED
    BY <1>4, <2>2 DEF StartReader
<1>5. CASE CloseClient(c)
  BY <1>5 DEF CloseClient
<1>6. QED
  BY <1>1, <1>2, <1>3, <1>4, <1>5 DEF InitStep

\* The steps of the connect loop keep every type.
LEMMA LoopTypeOK ==
  ASSUME TypeOK, NEW c \in Clients,
         LoopTop(c) \/ ConnectOk(c) \/ ConnectTerminal(c) \/ ConnectTransient(c)
           \/ Leave(c) \/ Wake(c)
  PROVE  TypeOK'
<1> rd[c] \in Reader
  BY DEF TypeOK
<1>1. CASE LoopTop(c)
  <2>1. [rd[c] EXCEPT !.pc = IF stop[c] THEN "done" ELSE "connecting"] \in Reader
    BY DEF Reader, ReaderPc
  <2>2. QED
    BY <1>1, <2>1, ReaderOnlyTyped DEF LoopTop
<1>2. CASE ConnectOk(c)
  <2>1. [rd[c] EXCEPT !.pc = "pumping", !.traffic = FALSE, !.force = FALSE] \in Reader
    BY DEF Reader, ReaderPc, Pumping
  <2>2. rd' \in [Clients -> Reader]
    BY <1>2, <2>1, BecomesTyped DEF ConnectOk, TypeOK
  <2>3. rd[c].cursor \in Versions \union {None}
    BY DEF Reader
  <2>4. [owed |-> rd[c].cursor # truth[TenantOf[c]],
         sent |-> IF rd[c].cursor = None THEN 0 ELSE rd[c].cursor] \in Feed
    BY <2>3, Bounds DEF Feed
  <2>5. feed' \in [Clients -> Feed]
    BY <1>2, <2>4 DEF ConnectOk, TypeOK
  <2>6. QED
    BY <1>2, <2>2, <2>5 DEF ConnectOk, TypeOK, packVars, clientVars
<1>3. CASE ConnectTerminal(c)
  <2>1. [rd[c] EXCEPT !.pc = "leaving", !.exit = "terminal", !.cursor = None] \in Reader
    BY DEF Reader, ReaderPc, Exit
  <2>2. rd' \in [Clients -> Reader]
    BY <1>3, <2>1, BecomesTyped DEF ConnectTerminal, TypeOK
  <2>3. QED
    BY <1>3, <2>2 DEF ConnectTerminal, TypeOK, linkVars, clientVars
<1>4. CASE ConnectTransient(c)
  <2>1. [rd[c] EXCEPT !.pc = "leaving", !.exit = "raise"] \in Reader
    BY DEF Reader, ReaderPc, Exit
  <2>2. QED
    BY <1>4, <2>1, ReaderOnlyTyped DEF ConnectTransient
<1>5. CASE Leave(c)
  <2> DEFINE rung == AttemptAfter(rd[c])
             nap  == IF stop[c] THEN 0 ELSE rung
             next == IF stop[c] \/ rung = LadderTop THEN rung ELSE rung + 1
             r    == [rd[c] EXCEPT !.pc = IF stop[c] THEN "done" ELSE "backoff",
                                   !.exit = "return", !.nap = nap, !.attempt = next]
  <2>1. rung \in 0 .. LadderTop
    BY Bounds DEF AttemptAfter, Reader
  <2>2. nap \in 0 .. LadderTop /\ next \in 0 .. LadderTop
    BY <2>1, Bounds
  <2>3. r \in Reader
    <3> HIDE DEF rung, nap, next
    <3> QED
      BY <2>2 DEF Reader, ReaderPc, Exit
  <2>4. Becomes(c, r)
    BY <1>5 DEF Leave
  <2>5. rd' \in [Clients -> Reader]
    BY <2>3, <2>4, BecomesTyped DEF TypeOK
  <2>6. link' \in {"never", "up", "grace", "stale"}
    BY <1>5 DEF Leave, LinkAfterRetire, TypeOK
  <2>7. feed' \in [Clients -> Feed]
    BY <1>5, Bounds DEF Leave, NoFeed, Feed, TypeOK
  <2>8. QED
    BY <1>5, <2>5, <2>6, <2>7 DEF Leave, TypeOK, packVars, clientVars
<1>6. CASE Wake(c)
  <2>1. [rd[c] EXCEPT !.pc = "top", !.nap = 0] \in Reader
    BY Bounds DEF Reader, ReaderPc
  <2>2. QED
    BY <1>6, <2>1, ReaderOnlyTyped DEF Wake
<1>7. QED
  BY <1>1, <1>2, <1>3, <1>4, <1>5, <1>6

\* The steps of the line pump keep every type.
LEMMA PumpTypeOK ==
  ASSUME TypeOK, NEW c \in Clients,
         \/ LineStops(c) \/ Watchdog(c) \/ Eof(c) \/ ReadError(c)
         \/ \E banner \in BOOLEAN : Comment(c, banner)
         \/ \E f \in Sendable(c) : FrameLines(c, f)
         \/ FrameEnd(c)
  PROVE  TypeOK'
<1> rd[c] \in Reader
  BY DEF TypeOK
<1> CursorAt(c) \in Versions \union {None} /\ ForcesAt(c) \in BOOLEAN
  BY DEF CursorAt, ForcesAt, Reader, TypeOK
<1> TtlWatchdog => cacheInvalid' \in BOOLEAN
  BY DEF TtlWatchdog, TypeOK
<1>1. ASSUME NEW how \in Exit, Quit(c, how) PROVE TypeOK'
  <2>1. [rd[c] EXCEPT !.pc = "leaving", !.exit = how, !.frame = None] \in Reader
    BY DEF Reader, ReaderPc
  <2>2. QED
    BY <1>1, <2>1, ReaderOnlyTyped DEF Quit
<1>2. ASSUME NEW banner \in BOOLEAN, Comment(c, banner) PROVE TypeOK'
  <2> DEFINE r == [rd[c] EXCEPT !.cursor = CursorAt(c), !.force = ForcesAt(c),
                                !.traffic = @ \/ ~banner]
  <2>1. (rd[c].traffic \/ ~banner) \in BOOLEAN
    OBVIOUS
  <2>2. r \in Reader
    BY DEF Reader
  <2>3. rd' \in [Clients -> Reader]
    BY <1>2, <2>2, BecomesTyped DEF Comment, TypeOK
  <2>4. QED
    BY <1>2, <2>3 DEF Comment, TypeOK, linkVars, clientVars
<1>3. ASSUME NEW f \in Sendable(c), FrameLines(c, f) PROVE TypeOK'
  <2>1. f \in Frame
    BY SendableFrames
  <2>2. [rd[c] EXCEPT !.pc = "frame", !.frame = f, !.cursor = CursorAt(c),
                      !.force = ForcesAt(c)] \in Reader
    BY <2>1 DEF Reader, ReaderPc, Pumping
  <2>3. rd' \in [Clients -> Reader]
    BY <1>3, <2>2, BecomesTyped DEF FrameLines, TypeOK
  <2>4. [owed |-> FALSE, sent |-> f.version] \in Feed
    BY <2>1 DEF Feed, Frame
  <2>5. feed' \in [Clients -> Feed]
    BY <1>3, <2>4 DEF FrameLines, TypeOK
  <2>6. QED
    BY <1>3, <2>3, <2>5 DEF FrameLines, TypeOK, linkVars, clientVars
<1>4. CASE FrameEnd(c)
  <2>1. [rd[c] EXCEPT !.pc = "dispatch", !.traffic = TRUE, !.cursor = CursorAt(c),
                      !.force = ForcesAt(c)] \in Reader
    BY DEF Reader, ReaderPc, Pumping
  <2>2. rd' \in [Clients -> Reader]
    BY <1>4, <2>1, BecomesTyped DEF FrameEnd, TypeOK
  <2>3. QED
    BY <1>4, <2>2 DEF FrameEnd, TypeOK, linkVars, clientVars
<1>5. QED
  BY <1>1, <1>2, <1>3, <1>4 DEF LineStops, Watchdog, Eof, ReadError, Exit

\* A reader at "dispatch" or "apply" holds a frame.
HoldsFrame ==
  \A c \in Clients : rd[c].pc \in {"frame", "dispatch", "apply"} => rd[c].frame # None

\* Returning to the pump with a well-typed cursor keeps the readers typed.
LEMMA DispatchedTyped ==
  ASSUME TypeOK, NEW c \in Clients, NEW cursor \in Versions \union {None},
         Dispatched(c, cursor)
  PROVE  rd' \in [Clients -> Reader]
<1>0. rd[c] \in Reader
  BY DEF TypeOK
<1>1. [rd[c] EXCEPT !.pc = "pumping", !.frame = None, !.cursor = cursor] \in Reader
  BY <1>0 DEF Reader, ReaderPc, Pumping
<1>2. QED
  BY <1>1, BecomesTyped DEF Dispatched, TypeOK

\* Refusing a frame keeps every type the refusal touches.
LEMMA RefuseTyped ==
  ASSUME TypeOK, NEW c \in Clients, Refuse(c)
  PROVE  /\ pack' = pack /\ packVersion' = packVersion
         /\ packTenant' = packTenant /\ packExpired' = packExpired
         /\ cacheInvalid' \in BOOLEAN /\ rd' \in [Clients -> Reader]
BY DispatchedTyped DEF Refuse

\* The steps of _dispatch keep every type.
LEMMA DispatchTypeOK ==
  ASSUME TypeOK, HoldsFrame, NEW c \in Clients,
         DispatchJunk(c) \/ DispatchSnapshot(c) \/ DispatchDelta(c) \/ ApplyDelta(c)
  PROVE  TypeOK'
<1> rd[c] \in Reader
  BY DEF TypeOK
<1> DEFINE f == rd[c].frame
<1>1. rd[c].cursor \in Versions \union {None}
  BY DEF Reader
<1>2. rd[c].pc \in {"dispatch", "apply"} =>
        /\ f \in Frame /\ f.version \in Versions
        /\ CursorFrom(c, f) \in Versions \union {None}
  <2>1. SUFFICES ASSUME rd[c].pc \in {"dispatch", "apply"}
                 PROVE  f \in Frame /\ f.version \in Versions
    BY <1>1 DEF CursorFrom
  <2>2. QED
    BY <2>1 DEF HoldsFrame, Reader, Frame
<1>3. CASE DispatchJunk(c)
  BY <1>1, <1>3, DispatchedTyped DEF DispatchJunk, TypeOK, packVars, linkVars, clientVars
<1>4. CASE DispatchSnapshot(c)
  <2>1. CASE SnapshotFits(c)
    <3>1. f.version \in Versions /\ CursorFrom(c, f) \in Versions \union {None}
      BY <1>2, <1>4 DEF DispatchSnapshot
    <3>2. TenantOf[c] \in Tenants
      BY ConstantsAssumption
    <3>3. 1 .. f.version \subseteq Versions
      BY <3>1, ConstantsAssumption DEF Versions
    <3>4. [tenant |-> TenantOf[c], changes |-> Changes(TenantOf[c], f.version)] \in Pack
      BY <3>2, <3>3 DEF Pack, Changes
    <3>5. /\ pack' = [tenant |-> TenantOf[c], changes |-> Changes(TenantOf[c], f.version)]
          /\ packVersion' = f.version /\ cacheInvalid' = FALSE /\ packExpired' = FALSE
          /\ packTenant' = TenantOf[c] /\ Dispatched(c, CursorFrom(c, f))
          /\ UNCHANGED <<linkVars, clientVars, truth, feed>>
      BY <1>4, <2>1 DEF DispatchSnapshot
    <3>6. rd' \in [Clients -> Reader]
      BY <3>1, <3>5, DispatchedTyped
    <3>7. QED
      BY <3>1, <3>2, <3>4, <3>5, <3>6 DEF TypeOK, linkVars, clientVars
  <2>2. CASE ~SnapshotFits(c)
    BY <1>4, <2>2, RefuseTyped DEF DispatchSnapshot, TypeOK, linkVars, clientVars
  <2>3. QED
    BY <2>1, <2>2
<1>5. CASE DispatchDelta(c)
  <2>1. [rd[c] EXCEPT !.pc = "apply"] \in Reader
    BY DEF Reader, ReaderPc, Pumping
  <2>2. [rd[c] EXCEPT !.pc = "pumping", !.frame = None, !.cursor = None,
                      !.force = TRUE] \in Reader
    BY DEF Reader, ReaderPc, Pumping
  <2>3. QED
    BY <1>5, <2>1, <2>2, ReaderOnlyTyped DEF DispatchDelta
<1>6. CASE ApplyDelta(c)
  <2>1. f.version \in Versions /\ CursorFrom(c, f) \in Versions \union {None}
    BY <1>2, <1>6 DEF ApplyDelta
  <2>2. CASE Verdict(f) = "discard" /\ Dispatched(c, CursorFrom(c, f)) /\ UNCHANGED packVars
    BY <1>6, <2>1, <2>2, DispatchedTyped DEF ApplyDelta, TypeOK, packVars, linkVars, clientVars
  <2>3. CASE /\ Verdict(f) = "apply" /\ Dispatched(c, CursorFrom(c, f))
             /\ pack' = [pack EXCEPT !.changes = @ \union {<<TenantOf[c], f.version>>}]
             /\ packVersion' = f.version /\ packExpired' = FALSE
             /\ UNCHANGED <<cacheInvalid, packTenant>>
    <3>1. pack \in Pack
      BY <2>3 DEF Verdict, TypeOK
    <3>2. TenantOf[c] \in Tenants
      BY ConstantsAssumption
    <3>3. pack' \in Pack
      BY <2>1, <2>3, <3>1, <3>2 DEF Pack
    <3>4. rd' \in [Clients -> Reader]
      BY <2>1, <2>3, DispatchedTyped
    <3>5. QED
      BY <1>6, <2>1, <2>3, <3>3, <3>4 DEF ApplyDelta, TypeOK, linkVars, clientVars
  <2>4. CASE Verdict(f) = "refuse" /\ Refuse(c)
    BY <1>6, <2>4, RefuseTyped DEF ApplyDelta, TypeOK, linkVars, clientVars
  <2>5. QED
    BY <1>6, <2>2, <2>3, <2>4 DEF ApplyDelta
<1>7. QED
  BY <1>3, <1>4, <1>5, <1>6

\* The environment's steps keep every type.
LEMMA EnvironmentTypeOK ==
  ASSUME TypeOK, (\E t \in Tenants : Publish(t)) \/ TtlExpires \/ GraceEnds
  PROVE  TypeOK'
<1> USE DEF TypeOK, packVars, linkVars, clientVars
<1>1. ASSUME NEW t \in Tenants, Publish(t) PROVE TypeOK'
  <2>1. truth[t] + 1 \in Versions
    BY <1>1, ConstantsAssumption DEF Publish, Versions
  <2>2. QED
    BY <1>1, <2>1 DEF Publish
<1>2. CASE TtlExpires
  BY <1>2 DEF TtlExpires
<1>3. CASE GraceEnds
  BY <1>3 DEF GraceEnds
<1>4. QED
  BY <1>1, <1>2, <1>3

\* What a reader's step does to its own record and to everyone else's.
LEMMA OneReader ==
  ASSUME TypeOK, NEW c \in Clients, NEW d \in Clients, d # c, ReaderStep(c)
  PROVE  rd'[d] = rd[d]
BY DEF TypeOK, ReaderStep, LoopTop, ConnectOk, ConnectTerminal, ConnectTransient,
   Leave, Wake, LineStops, Watchdog, Eof, ReadError, Quit, Comment, FrameLines,
   FrameEnd, DispatchJunk, DispatchSnapshot, DispatchDelta, ApplyDelta, Dispatched,
   Refuse, Becomes

\* A reader past the first line of a frame keeps hold of it until it is applied.
LEMMA StepHoldsFrame == TypeOK /\ HoldsFrame /\ [Next]_vars => HoldsFrame'
<1> SUFFICES ASSUME TypeOK, HoldsFrame, [Next]_vars,
                    NEW d \in Clients, rd'[d].pc \in {"frame", "dispatch", "apply"}
             PROVE  rd'[d].frame # None
  BY DEF HoldsFrame
<1> rd[d] \in Reader
  BY DEF TypeOK
<1>0. rd'[d] = rd[d] => rd'[d].frame # None
  BY DEF HoldsFrame
<1>1. ASSUME NEW c \in Clients, InitStep(c) PROVE rd'[d].frame # None
  <2>1. rd' = rd \/ Becomes(c, [rd[c] EXCEPT !.pc = "top"])
    BY <1>1 DEF InitStep, CloseOld, Install, ResetPack, StartReader, CloseClient
  <2>2. QED
    BY <1>0, <2>1 DEF Becomes, TypeOK, Reader
<1>2. ASSUME NEW c \in Clients, ReaderStep(c) PROVE rd'[d].frame # None
  <2>1. CASE c # d
    BY <1>0, <1>2, <2>1, OneReader
  <2>2. CASE c = d
    <3>1. CASE LoopTop(c) \/ ConnectOk(c) \/ ConnectTerminal(c) \/ ConnectTransient(c)
                 \/ Leave(c) \/ Wake(c)
      <4>1. CASE LoopTop(c)
        <5> DEFINE r == [rd[d] EXCEPT !.pc = IF stop[d] THEN "done" ELSE "connecting"]
        <5>1. Becomes(d, r)
          BY <2>2, <4>1 DEF LoopTop
        <5>2. rd'[d] = r
          BY <5>1, NewReader
        <5>3. r.pc \in {"done", "connecting"}
          BY DEF Reader
        <5>4. QED
          BY <5>2, <5>3
      <4>2. CASE ConnectOk(c)
        <5> DEFINE r == [rd[d] EXCEPT !.pc = "pumping", !.traffic = FALSE,
                                      !.force = FALSE]
        <5>1. Becomes(d, r)
          BY <2>2, <4>2 DEF ConnectOk
        <5>2. rd'[d] = r
          BY <5>1, NewReader
        <5>3. r.pc = "pumping"
          BY DEF Reader
        <5>4. QED
          BY <5>2, <5>3
      <4>3. CASE ConnectTerminal(c)
        <5> DEFINE r == [rd[d] EXCEPT !.pc = "leaving", !.exit = "terminal",
                                      !.cursor = None]
        <5>1. Becomes(d, r)
          BY <2>2, <4>3 DEF ConnectTerminal
        <5>2. rd'[d] = r
          BY <5>1, NewReader
        <5>3. r.pc = "leaving"
          BY DEF Reader
        <5>4. QED
          BY <5>2, <5>3
      <4>4. CASE ConnectTransient(c)
        <5> DEFINE r == [rd[d] EXCEPT !.pc = "leaving", !.exit = "raise"]
        <5>1. Becomes(d, r)
          BY <2>2, <4>4 DEF ConnectTransient
        <5>2. rd'[d] = r
          BY <5>1, NewReader
        <5>3. r.pc = "leaving"
          BY DEF Reader
        <5>4. QED
          BY <5>2, <5>3
      <4>5. CASE Leave(c)
        <5>1. PICK nap, next : Becomes(c, [rd[c] EXCEPT
                !.pc = IF stop[c] THEN "done" ELSE "backoff", !.exit = "return",
                !.nap = nap, !.attempt = next])
          BY <4>5 DEF Leave
        <5> DEFINE r == [rd[c] EXCEPT
                           !.pc = IF stop[c] THEN "done" ELSE "backoff",
                           !.exit = "return", !.nap = nap, !.attempt = next]
        <5>4. rd'[c] = r
          BY <5>1, NewReader
        <5>5. r.pc \in {"done", "backoff"}
          BY <2>2 DEF Reader
        <5>2. rd'[c].pc \in {"done", "backoff"}
          BY <5>4, <5>5
        <5>3. QED
          BY <2>2, <5>2
      <4>6. CASE Wake(c)
        <5> DEFINE r == [rd[d] EXCEPT !.pc = "top", !.nap = 0]
        <5>1. Becomes(d, r)
          BY <2>2, <4>6 DEF Wake
        <5>2. rd'[d] = r
          BY <5>1, NewReader
        <5>3. r.pc = "top"
          BY DEF Reader
        <5>4. QED
          BY <5>2, <5>3
      <4>7. QED
        BY <3>1, <4>1, <4>2, <4>3, <4>4, <4>5, <4>6
    <3>2. CASE LineStops(c) \/ Watchdog(c) \/ Eof(c) \/ ReadError(c)
      <4>1. PICK how \in Exit : Quit(c, how)
        BY <3>2 DEF LineStops, Watchdog, Eof, ReadError, Exit
      <4> DEFINE r == [rd[c] EXCEPT !.pc = "leaving", !.exit = how, !.frame = None]
      <4>4. rd'[c] = r
        BY <4>1, NewReader DEF Quit
      <4>5. r.pc = "leaving"
        BY <2>2 DEF Reader
      <4>2. rd'[c].pc = "leaving"
        BY <4>4, <4>5
      <4>3. QED
        BY <2>2, <4>2
    <3>3. CASE \E banner \in BOOLEAN : Comment(c, banner)
      <4>1. PICK banner \in BOOLEAN : Comment(c, banner)
        BY <3>3
      <4> DEFINE r == [rd[c] EXCEPT !.cursor = CursorAt(c), !.force = ForcesAt(c),
                                    !.traffic = @ \/ ~banner]
      <4>2. rd'[c] = r
        BY <4>1, NewReader DEF Comment
      <4>3. r.pc = "pumping"
        BY <2>2, <4>1 DEF Comment, Reader
      <4>4. QED
        BY <2>2, <4>2, <4>3
    <3>4. CASE \E f \in Sendable(c) : FrameLines(c, f)
      <4>1. PICK f \in Sendable(c) : FrameLines(c, f)
        BY <3>4
      <4>2. f # None
        BY SendableFrames, NoneIsNoData
      <4> DEFINE r == [rd[c] EXCEPT !.pc = "frame", !.frame = f,
                                    !.cursor = CursorAt(c), !.force = ForcesAt(c)]
      <4>3. rd'[c] = r
        BY <4>1, NewReader DEF FrameLines
      <4>5. r.frame = f
        BY <2>2 DEF Reader
      <4>4. QED
        BY <2>2, <4>2, <4>3, <4>5
    <3>5. CASE FrameEnd(c)
      <4> DEFINE r == [rd[c] EXCEPT !.pc = "dispatch", !.traffic = TRUE,
                                    !.cursor = CursorAt(c), !.force = ForcesAt(c)]
      <4>1. rd'[c] = r
        BY <3>5, NewReader DEF FrameEnd
      <4>2. r.frame = rd[c].frame
        BY <2>2 DEF Reader
      <4>3. rd[c].frame # None
        BY <3>5 DEF FrameEnd, HoldsFrame
      <4>4. QED
        BY <2>2, <4>1, <4>2, <4>3
    <3>6. CASE DispatchJunk(c) \/ DispatchSnapshot(c) \/ ApplyDelta(c)
      <4>1. \/ Dispatched(c, rd[c].cursor) \/ Dispatched(c, None)
            \/ Dispatched(c, CursorFrom(c, rd[c].frame))
        <5>1. CASE DispatchJunk(c)
          BY <5>1 DEF DispatchJunk
        <5>2. CASE DispatchSnapshot(c)
          BY <5>2 DEF DispatchSnapshot, Refuse
        <5>3. CASE ApplyDelta(c)
          BY <5>3 DEF ApplyDelta, Refuse
        <5>4. QED
          BY <3>6, <5>1, <5>2, <5>3
      <4>4. ASSUME NEW cursor, Dispatched(c, cursor) PROVE rd'[c].pc = "pumping"
        <5> DEFINE r == [rd[c] EXCEPT !.pc = "pumping", !.frame = None,
                                      !.cursor = cursor]
        <5>1. rd'[c] = r
          BY <4>4, NewReader DEF Dispatched
        <5>2. r.pc = "pumping"
          BY <2>2 DEF Reader
        <5>3. QED
          BY <5>1, <5>2
      <4>2. rd'[c].pc = "pumping"
        BY <4>1, <4>4
      <4>3. QED
        BY <2>2, <4>2
    <3>7. CASE DispatchDelta(c)
      BY <2>2, <3>7 DEF DispatchDelta, Becomes, TypeOK, Reader, HoldsFrame
    <3>8. QED
      BY <1>2, <3>1, <3>2, <3>3, <3>4, <3>5, <3>6, <3>7 DEF ReaderStep
  <2>3. QED
    BY <2>1, <2>2
<1>3. CASE (\E t \in Tenants : Publish(t)) \/ TtlExpires \/ GraceEnds
  BY <1>0, <1>3 DEF Publish, TtlExpires, GraceEnds
<1>4. CASE UNCHANGED vars
  BY <1>0, <1>4 DEF vars
<1>5. QED
  BY <1>1, <1>2, <1>3, <1>4 DEF Next

\* Types and held frames together are inductive.
LEMMA StepTypeOK == TypeOK /\ HoldsFrame /\ [Next]_vars => TypeOK'
<1> SUFFICES ASSUME TypeOK, HoldsFrame, [Next]_vars PROVE TypeOK'
  OBVIOUS
<1>1. ASSUME NEW c \in Clients, ReaderStep(c) PROVE TypeOK'
  BY <1>1, LoopTypeOK, PumpTypeOK, DispatchTypeOK DEF ReaderStep
<1>2. CASE UNCHANGED vars
  BY <1>2 DEF vars, TypeOK, packVars, linkVars, clientVars
<1>3. QED
  BY <1>1, <1>2, InitStepTypeOK, EnvironmentTypeOK DEF Next

\* The process starts well-typed, with no frame in hand.
LEMMA InitTypeOK == Init => TypeOK /\ HoldsFrame
<1> SUFFICES ASSUME Init PROVE TypeOK /\ HoldsFrame
  OBVIOUS
<1>1. FreshReader \in Reader
  BY Bounds DEF FreshReader, Reader, ReaderPc, Exit
<1>2. NoFeed \in Feed
  BY Bounds DEF NoFeed, Feed
<1>3. HoldsFrame
  BY DEF Init, HoldsFrame, FreshReader
<1>4. QED
  BY <1>1, <1>2, <1>3, Bounds DEF Init, TypeOK

\* Every variable of every thread keeps its type, for every number of clients,
\* tenants, versions and kinds of bad frame.
THEOREM TypeCorrect == Spec => [](TypeOK /\ HoldsFrame)
<1>1. TypeOK /\ HoldsFrame /\ [Next]_vars => (TypeOK /\ HoldsFrame)'
  BY StepTypeOK, StepHoldsFrame
<1>2. QED
  BY InitTypeOK, <1>1, PTL DEF Spec

-------------------------------------------------------------------------------
(* The pack is always a version its tenant published, however many readers    *)
(* of that tenant overlap.                                                    *)

OneTenantOnly == \A c, d \in Clients : TenantOf[c] = TenantOf[d]

\* A frame carries nothing its tenant has not published.
FramePublished ==
  \A c \in Clients : rd[c].frame # None => rd[c].frame.version <= truth[TenantOf[c]]

\* The pack belongs to the tenant every client has.
PackOfTenant == pack # None => \A c \in Clients : pack.tenant = TenantOf[c]

PublishedInv == TypeOK /\ HoldsFrame /\ FramePublished /\ PackOfTenant /\ PackIsPublished

\* Published versions only grow.
LEMMA TruthGrows ==
  ASSUME TypeOK, [Next]_vars, NEW t \in Tenants
  PROVE  truth[t] \in Nat /\ truth'[t] \in Nat /\ truth[t] <= truth'[t]
<1>1. truth[t] \in Nat
  BY Bounds DEF TypeOK
<1>2. ASSUME NEW u \in Tenants, Publish(u) PROVE truth'[t] \in Nat /\ truth[t] <= truth'[t]
  BY <1>1, <1>2 DEF Publish, TypeOK
<1>3. ASSUME NEW c \in Clients, InitStep(c) PROVE truth' = truth
  BY <1>3 DEF InitStep, CloseOld, Install, ResetPack, StartReader, CloseClient
<1>4. ASSUME NEW c \in Clients, ReaderStep(c) PROVE truth' = truth
  BY <1>4 DEF ReaderStep, LoopTop, ConnectOk, ConnectTerminal, ConnectTransient,
     Leave, Wake, LineStops, Watchdog, Eof, ReadError, Quit, Comment, FrameLines,
     FrameEnd, DispatchJunk, DispatchSnapshot, DispatchDelta, ApplyDelta
<1>5. CASE TtlExpires \/ GraceEnds \/ UNCHANGED vars
  BY <1>1, <1>5 DEF TtlExpires, GraceEnds, vars
<1>6. QED
  BY <1>1, <1>2, <1>3, <1>4, <1>5 DEF Next

\* A reader's frame stays, is dropped, or is what the service may send now.
LEMMA FrameStep ==
  ASSUME TypeOK, [Next]_vars, NEW d \in Clients
  PROVE  \/ rd'[d].frame \in {rd[d].frame, None}
         \/ rd'[d].frame \in Sendable(d)
<1> rd[d] \in Reader
  BY DEF TypeOK
<1>1. ASSUME NEW c \in Clients, InitStep(c) PROVE rd'[d].frame = rd[d].frame
  <2>1. rd' = rd \/ Becomes(c, [rd[c] EXCEPT !.pc = "top"])
    BY <1>1 DEF InitStep, CloseOld, Install, ResetPack, StartReader, CloseClient
  <2>2. QED
    BY <2>1 DEF Becomes, TypeOK, Reader
<1>2. ASSUME NEW c \in Clients, c # d, ReaderStep(c) PROVE rd'[d].frame = rd[d].frame
  BY <1>2, OneReader
<1>3. ASSUME ReaderStep(d)
      PROVE  rd'[d].frame \in {rd[d].frame, None} \/ rd'[d].frame \in Sendable(d)
  <2>1. CASE LoopTop(d)
    <3> DEFINE r == [rd[d] EXCEPT !.pc = IF stop[d] THEN "done" ELSE "connecting"]
    <3>1. Becomes(d, r)
      BY <2>1 DEF LoopTop
    <3>2. rd'[d] = r
      BY <3>1, NewReader
    <3>3. r.frame = rd[d].frame
      BY DEF Reader
    <3>4. QED
      BY <3>2, <3>3
  <2>2. CASE ConnectOk(d)
    <3> DEFINE r == [rd[d] EXCEPT !.pc = "pumping", !.traffic = FALSE,
                                  !.force = FALSE]
    <3>1. Becomes(d, r)
      BY <2>2 DEF ConnectOk
    <3>2. rd'[d] = r
      BY <3>1, NewReader
    <3>3. r.frame = rd[d].frame
      BY DEF Reader
    <3>4. QED
      BY <3>2, <3>3
  <2>3. CASE ConnectTerminal(d)
    <3> DEFINE r == [rd[d] EXCEPT !.pc = "leaving", !.exit = "terminal",
                                  !.cursor = None]
    <3>1. Becomes(d, r)
      BY <2>3 DEF ConnectTerminal
    <3>2. rd'[d] = r
      BY <3>1, NewReader
    <3>3. r.frame = rd[d].frame
      BY DEF Reader
    <3>4. QED
      BY <3>2, <3>3
  <2>4. CASE ConnectTransient(d)
    <3> DEFINE r == [rd[d] EXCEPT !.pc = "leaving", !.exit = "raise"]
    <3>1. Becomes(d, r)
      BY <2>4 DEF ConnectTransient
    <3>2. rd'[d] = r
      BY <3>1, NewReader
    <3>3. r.frame = rd[d].frame
      BY DEF Reader
    <3>4. QED
      BY <3>2, <3>3
  <2>5. CASE Leave(d)
    <3>1. PICK nap, next : Becomes(d, [rd[d] EXCEPT
            !.pc = IF stop[d] THEN "done" ELSE "backoff", !.exit = "return",
            !.nap = nap, !.attempt = next])
      BY <2>5 DEF Leave
    <3> DEFINE r == [rd[d] EXCEPT !.pc = IF stop[d] THEN "done" ELSE "backoff",
                       !.exit = "return", !.nap = nap, !.attempt = next]
    <3>2. rd'[d] = r
      BY <3>1, NewReader
    <3>3. r.frame = rd[d].frame
      BY DEF Reader
    <3>4. QED
      BY <3>2, <3>3
  <2>6. CASE Wake(d)
    <3> DEFINE r == [rd[d] EXCEPT !.pc = "top", !.nap = 0]
    <3>1. Becomes(d, r)
      BY <2>6 DEF Wake
    <3>2. rd'[d] = r
      BY <3>1, NewReader
    <3>3. r.frame = rd[d].frame
      BY DEF Reader
    <3>4. QED
      BY <3>2, <3>3
  <2>7. CASE LineStops(d) \/ Watchdog(d) \/ Eof(d) \/ ReadError(d)
    <3>1. PICK how \in Exit : Quit(d, how)
      BY <2>7 DEF LineStops, Watchdog, Eof, ReadError, Exit
    <3>2. QED
      BY <3>1, NewReader DEF Quit, Reader
  <2>8. CASE \E banner \in BOOLEAN : Comment(d, banner)
    <3>1. PICK banner \in BOOLEAN : Comment(d, banner)
      BY <2>8
    <3> DEFINE r == [rd[d] EXCEPT !.cursor = CursorAt(d), !.force = ForcesAt(d),
                                  !.traffic = @ \/ ~banner]
    <3>2. rd'[d] = r
      BY <3>1, NewReader DEF Comment
    <3>3. r.frame = rd[d].frame
      BY DEF Reader
    <3>4. QED
      BY <3>2, <3>3
  <2>9. CASE \E f \in Sendable(d) : FrameLines(d, f)
    <3>1. PICK f \in Sendable(d) : FrameLines(d, f)
      BY <2>9
    <3> DEFINE r == [rd[d] EXCEPT !.pc = "frame", !.frame = f,
                                  !.cursor = CursorAt(d), !.force = ForcesAt(d)]
    <3>2. rd'[d] = r
      BY <3>1, NewReader DEF FrameLines
    <3>3. r.frame = f
      BY DEF Reader
    <3>4. QED
      BY <3>1, <3>2, <3>3
  <2>10. CASE FrameEnd(d)
    <3> DEFINE r == [rd[d] EXCEPT !.pc = "dispatch", !.traffic = TRUE,
                                  !.cursor = CursorAt(d), !.force = ForcesAt(d)]
    <3>1. rd'[d] = r
      BY <2>10, NewReader DEF FrameEnd
    <3>2. r.frame = rd[d].frame
      BY DEF Reader
    <3>3. QED
      BY <3>1, <3>2
  <2>11. CASE DispatchDelta(d)
    <3>1. \/ rd'[d] = [rd[d] EXCEPT !.pc = "apply"]
          \/ rd'[d] = [rd[d] EXCEPT !.pc = "pumping", !.frame = None,
                                    !.cursor = None, !.force = TRUE]
      BY <2>11, NewReader DEF DispatchDelta
    <3>2. QED
      BY <3>1 DEF Reader
  <2>12. ASSUME NEW cursor, Dispatched(d, cursor) PROVE rd'[d].frame = None
    BY <2>12, NewReader DEF Dispatched, Reader
  <2>13. CASE DispatchJunk(d)
    BY <2>12, <2>13 DEF DispatchJunk
  <2>14. CASE DispatchSnapshot(d)
    BY <2>12, <2>14 DEF DispatchSnapshot, Refuse
  <2>15. CASE ApplyDelta(d)
    BY <2>12, <2>15 DEF ApplyDelta, Refuse
  <2>16. QED
    BY <1>3, <2>1, <2>2, <2>3, <2>4, <2>5, <2>6, <2>7, <2>8, <2>9, <2>10, <2>11,
       <2>13, <2>14, <2>15 DEF ReaderStep
<1>4. CASE (\E t \in Tenants : Publish(t)) \/ TtlExpires \/ GraceEnds \/ UNCHANGED vars
  BY <1>4 DEF Publish, TtlExpires, GraceEnds, vars
<1>5. QED
  BY <1>1, <1>2, <1>3, <1>4 DEF Next

\* No frame in a reader's hands is ahead of what was published.
LEMMA StepFramePublished == TypeOK /\ FramePublished /\ [Next]_vars => FramePublished'
<1> SUFFICES ASSUME TypeOK, FramePublished, [Next]_vars, NEW d \in Clients,
                    rd'[d].frame # None
             PROVE  rd'[d].frame.version <= truth'[TenantOf[d]]
  BY DEF FramePublished
<1> DEFINE t == TenantOf[d]
<1>1. t \in Tenants
  BY ConstantsAssumption
<1>2. truth[t] \in Nat /\ truth'[t] \in Nat /\ truth[t] <= truth'[t]
  BY <1>1, TruthGrows
<1>3. CASE rd'[d].frame = rd[d].frame
  <2>1. rd[d].frame.version \in Nat
    BY <1>3, Bounds DEF TypeOK, Reader, Frame
  <2>2. QED
    BY <1>2, <1>3, <2>1 DEF FramePublished
<1>4. CASE rd'[d].frame \in Sendable(d)
  <2>1. rd'[d].frame.version \in Nat
    BY <1>4, SendableFrames, FrameVersion
  <2>2. rd'[d].frame.version <= truth[t]
    BY <1>2, <1>4 DEF Sendable
  <2>3. QED
    BY <1>2, <2>1, <2>2
<1>5. QED
  BY <1>3, <1>4, FrameStep

\* How a step may change the pack: not at all, away, to a snapshot in a reader's
\* hands, or by the one delta that follows its version.
PackStep ==
  \/ pack' = pack /\ packVersion' = packVersion
  \/ pack' = None
  \/ \E c \in Clients :
       LET f == rd[c].frame
       IN  /\ f \in Frame
           /\ \/ /\ pack' = [tenant |-> TenantOf[c],
                             changes |-> Changes(TenantOf[c], f.version)]
                 /\ packVersion' = f.version
              \/ /\ pack # None
                 /\ f.version = packVersion + 1
                 /\ pack' = [pack EXCEPT !.changes = @ \union {<<TenantOf[c], f.version>>}]
                 /\ packVersion' = f.version

LEMMA StepPack == TypeOK /\ HoldsFrame /\ [Next]_vars => PackStep
<1> SUFFICES ASSUME TypeOK, HoldsFrame, [Next]_vars PROVE PackStep
  OBVIOUS
<1>1. ASSUME NEW c \in Clients, InitStep(c) PROVE PackStep
  <2>1. pack' = None \/ (pack' = pack /\ packVersion' = packVersion)
    BY <1>1 DEF InitStep, CloseOld, Install, ResetPack, StartReader, CloseClient, packVars
  <2>2. QED
    BY <2>1 DEF PackStep
<1>2. ASSUME NEW c \in Clients, ReaderStep(c) PROVE PackStep
  <2> DEFINE f == rd[c].frame
  <2>1. rd[c].pc \in {"dispatch", "apply"} => f \in Frame
    BY DEF HoldsFrame, TypeOK, Reader
  <2>2. CASE DispatchSnapshot(c)
    <3>1. f \in Frame
      BY <2>1, <2>2 DEF DispatchSnapshot
    <3>2. QED
      BY <2>2, <3>1 DEF DispatchSnapshot, Refuse, PackStep
  <2>3. CASE ApplyDelta(c)
    <3>1. f \in Frame
      BY <2>1, <2>3 DEF ApplyDelta
    <3>2. CASE Verdict(f) = "apply"
      <4>1. pack # None /\ f.version = packVersion + 1
        BY <3>2 DEF Verdict
      <4>2. /\ pack' = [pack EXCEPT !.changes = @ \union {<<TenantOf[c], f.version>>}]
            /\ packVersion' = f.version
        BY <2>3, <3>2 DEF ApplyDelta
      <4>3. QED
        BY <3>1, <4>1, <4>2 DEF PackStep
    <3>3. CASE Verdict(f) # "apply"
      BY <2>3, <3>3 DEF ApplyDelta, Refuse, PackStep, packVars
    <3>4. QED
      BY <3>2, <3>3
  <2>4. CASE ~DispatchSnapshot(c) /\ ~ApplyDelta(c)
    <3>1. pack' = pack /\ packVersion' = packVersion
      BY <1>2, <2>4 DEF ReaderStep, LoopTop, ConnectOk, ConnectTerminal,
         ConnectTransient, Leave, Wake, LineStops, Watchdog, Eof, ReadError, Quit,
         Comment, FrameLines, FrameEnd, DispatchJunk, DispatchDelta, packVars
    <3>2. QED
      BY <3>1 DEF PackStep
  <2>5. QED
    BY <2>2, <2>3, <2>4
<1>3. CASE (\E t \in Tenants : Publish(t)) \/ TtlExpires \/ GraceEnds \/ UNCHANGED vars
  BY <1>3 DEF Publish, TtlExpires, GraceEnds, vars, packVars, PackStep
<1>4. QED
  BY <1>1, <1>2, <1>3 DEF Next

\* The next change completes the changes up to the next version.
LEMMA ChangesGrow ==
  ASSUME NEW t, NEW v \in Nat
  PROVE  Changes(t, v) \union {<<t, v + 1>>} = Changes(t, v + 1)
BY DEF Changes

LEMMA StepPublished ==
  OneTenantOnly /\ PublishedInv /\ [Next]_vars => PackOfTenant' /\ PackIsPublished'
<1> SUFFICES ASSUME OneTenantOnly, PublishedInv, [Next]_vars, pack' # None
             PROVE  /\ \A c \in Clients : pack'.tenant = TenantOf[c]
                    /\ pack'.changes = Changes(pack'.tenant, packVersion')
                    /\ packVersion' <= truth'[pack'.tenant]
  BY DEF PackOfTenant, PackIsPublished
<1> USE DEF PublishedInv
<1>1. CASE pack' = pack /\ packVersion' = packVersion
  <2>1. pack \in Pack /\ packVersion \in Nat /\ pack.tenant \in Tenants
    BY <1>1, Bounds DEF TypeOK, Pack
  <2>2. truth[pack.tenant] \in Nat /\ truth'[pack.tenant] \in Nat
        /\ truth[pack.tenant] <= truth'[pack.tenant]
    BY <2>1, TruthGrows
  <2>3. packVersion <= truth'[pack.tenant]
    BY <1>1, <2>1, <2>2 DEF PackIsPublished
  <2>4. QED
    BY <1>1, <2>3 DEF PackOfTenant, PackIsPublished
<1>2. ASSUME NEW c \in Clients, rd[c].frame \in Frame,
             pack' = [tenant |-> TenantOf[c],
                      changes |-> Changes(TenantOf[c], rd[c].frame.version)],
             packVersion' = rd[c].frame.version
      PROVE  /\ \A d \in Clients : pack'.tenant = TenantOf[d]
             /\ pack'.changes = Changes(pack'.tenant, packVersion')
             /\ packVersion' <= truth'[pack'.tenant]
  <2>1. rd[c].frame.version <= truth'[TenantOf[c]]
    <3>1. rd[c].frame # None
      BY <1>2, NoneIsNoData
    <3>2. rd[c].frame.version <= truth[TenantOf[c]]
      BY <3>1 DEF FramePublished
    <3>3. TenantOf[c] \in Tenants
      BY ConstantsAssumption
    <3>4. QED
      BY <1>2, <3>2, <3>3, TruthGrows, FrameVersion
  <2>2. pack'.tenant = TenantOf[c]
    BY <1>2
  <2>3. pack'.changes = Changes(TenantOf[c], rd[c].frame.version)
    BY <1>2
  <2>4. QED
    BY <1>2, <2>1, <2>2, <2>3 DEF OneTenantOnly
<1>3. ASSUME NEW c \in Clients, rd[c].frame \in Frame, pack # None,
             rd[c].frame.version = packVersion + 1,
             pack' = [pack EXCEPT !.changes = @ \union {<<TenantOf[c], rd[c].frame.version>>}],
             packVersion' = rd[c].frame.version
      PROVE  /\ \A d \in Clients : pack'.tenant = TenantOf[d]
             /\ pack'.changes = Changes(pack'.tenant, packVersion')
             /\ packVersion' <= truth'[pack'.tenant]
  <2>1. pack \in Pack /\ packVersion \in Nat /\ pack.tenant = TenantOf[c]
    BY <1>3, Bounds DEF TypeOK, PackOfTenant
  <2>2. pack'.tenant = TenantOf[c]
    BY <1>3, <2>1 DEF Pack
  <2>3. pack'.changes = pack.changes \union {<<TenantOf[c], packVersion + 1>>}
    BY <1>3, <2>1 DEF Pack
  <2>4. pack.changes = Changes(TenantOf[c], packVersion)
    BY <1>3, <2>1 DEF PackIsPublished
  <2>5. pack'.changes = Changes(TenantOf[c], packVersion + 1)
    BY <2>1, <2>3, <2>4, ChangesGrow
  <2>6. rd[c].frame.version <= truth'[TenantOf[c]]
    <3>1. rd[c].frame # None
      BY <1>3, NoneIsNoData
    <3>2. rd[c].frame.version <= truth[TenantOf[c]]
      BY <3>1 DEF FramePublished
    <3>3. TenantOf[c] \in Tenants
      BY ConstantsAssumption
    <3>4. QED
      BY <1>3, <3>2, <3>3, TruthGrows, FrameVersion
  <2>7. QED
    BY <1>3, <2>2, <2>5, <2>6 DEF OneTenantOnly
<1>4. QED
  BY <1>1, <1>2, <1>3, StepPack DEF PackStep

\* However many readers of one tenant overlap, whatever is lost, repeated,
\* refused or delayed, and whenever init() resets the pack, the pack in place is
\* exactly one published version of the rules.
THEOREM PackAlwaysPublished == OneTenantOnly /\ Spec => []PackIsPublished
<1>1. Init => FramePublished /\ PackOfTenant /\ PackIsPublished
  BY DEF Init, FreshReader, FramePublished, PackOfTenant, PackIsPublished
<1>2. OneTenantOnly /\ PublishedInv /\ [Next]_vars => PublishedInv'
  BY StepTypeOK, StepHoldsFrame, StepFramePublished, StepPublished DEF PublishedInv
<1>3. OneTenantOnly /\ Init /\ TypeOK /\ HoldsFrame => PublishedInv
  BY <1>1 DEF PublishedInv
<1>4. PublishedInv => PackIsPublished
  BY DEF PublishedInv
<1>5. OneTenantOnly => OneTenantOnly'
  BY DEF OneTenantOnly
<1>6. QED
  BY <1>2, <1>3, <1>4, <1>5, TypeCorrect, PTL DEF Spec

-------------------------------------------------------------------------------
(* The stale clock.                                                           *)

\* Once a lost stream has outlived its grace window, only a new connection makes
\* it fresh again, with any number of readers failing and retiring meanwhile.
THEOREM StaleClock == Spec => StaleClockNotRefreshed
<1>1. ASSUME TypeOK, [Next]_vars, link = "stale" PROVE link' \in {"stale", "up"}
  <2>1. ASSUME NEW c \in Clients, InitStep(c) PROVE link' = link
    BY <2>1 DEF InitStep, CloseOld, Install, ResetPack, StartReader, CloseClient, linkVars
  <2>2. ASSUME NEW c \in Clients, ReaderStep(c) PROVE link' \in {"stale", "up"}
    <3>1. CASE ConnectOk(c)
      BY <3>1 DEF ConnectOk
    <3>2. CASE Leave(c)
      BY <1>1, <3>2 DEF Leave, LinkAfterRetire
    <3>3. CASE ~ConnectOk(c) /\ ~Leave(c)
      BY <1>1, <2>2, <3>3 DEF ReaderStep, LoopTop, ConnectTerminal, ConnectTransient, Wake,
         LineStops, Watchdog, Eof, ReadError, Quit, Comment, FrameLines, FrameEnd,
         DispatchJunk, DispatchSnapshot, DispatchDelta, ApplyDelta, linkVars
    <3>4. QED
      BY <3>1, <3>2, <3>3
  <2>3. CASE (\E t \in Tenants : Publish(t)) \/ TtlExpires \/ GraceEnds \/ UNCHANGED vars
    BY <1>1, <2>3 DEF Publish, TtlExpires, GraceEnds, vars, linkVars
  <2>4. QED
    BY <1>1, <2>1, <2>2, <2>3 DEF Next
<1>2. TypeOK /\ [Next]_vars => [link = "stale" => link' \in {"stale", "up"}]_vars
  BY <1>1
<1>3. QED
  BY <1>2, TypeCorrect, PTL DEF Spec, StaleClockNotRefreshed

-------------------------------------------------------------------------------
(* A single client: its reader's cursor, the liveness record, and the promise *)
(* to the evaluator.                                                          *)

Alone == \E c : Clients = {c}

\* What a step makes of a reader.
Moves(c, pc, cursor, frame) ==
  rd'[c].pc = pc /\ rd'[c].cursor = cursor /\ rd'[c].frame = frame

\* Outside _dispatch, a reader's step moves it as follows.
LEMMA PumpMoves ==
  ASSUME TypeOK, NEW c \in Clients
  PROVE  LET cursor == rd[c].cursor
             frame  == rd[c].frame
         IN  /\ LoopTop(c) => Moves(c, IF stop[c] THEN "done" ELSE "connecting", cursor, frame)
             /\ ConnectOk(c) => Moves(c, "pumping", cursor, frame)
             /\ ConnectTerminal(c) => Moves(c, "leaving", None, frame)
             /\ ConnectTransient(c) => Moves(c, "leaving", cursor, frame)
             /\ Leave(c) => Moves(c, IF stop[c] THEN "done" ELSE "backoff", cursor, frame)
             /\ Wake(c) => Moves(c, "top", cursor, frame)
             /\ \A how : Quit(c, how) => Moves(c, "leaving", cursor, None)
             /\ \A banner : Comment(c, banner) => Moves(c, "pumping", CursorAt(c), frame)
             /\ \A f : FrameLines(c, f) => Moves(c, "frame", CursorAt(c), f)
             /\ FrameEnd(c) => Moves(c, "dispatch", CursorAt(c), frame)
<1> DEFINE cursor == rd[c].cursor
           frame  == rd[c].frame
<1>1. rd[c] \in Reader
  BY DEF TypeOK
<1>2. LoopTop(c) => Moves(c, IF stop[c] THEN "done" ELSE "connecting", cursor, frame)
  <2> DEFINE r == [rd[c] EXCEPT !.pc = IF stop[c] THEN "done" ELSE "connecting"]
  <2>1. LoopTop(c) => rd'[c] = r
    BY NewReader DEF LoopTop
  <2>2. /\ r.pc = (IF stop[c] THEN "done" ELSE "connecting")
        /\ r.cursor = cursor /\ r.frame = frame
    BY <1>1 DEF Reader
  <2>3. QED
    BY <2>1, <2>2 DEF Moves
<1>3. ConnectOk(c) => Moves(c, "pumping", cursor, frame)
  <2> DEFINE r == [rd[c] EXCEPT !.pc = "pumping", !.traffic = FALSE, !.force = FALSE]
  <2>1. ConnectOk(c) => rd'[c] = r
    BY NewReader DEF ConnectOk
  <2>2. r.pc = "pumping" /\ r.cursor = cursor /\ r.frame = frame
    BY <1>1 DEF Reader
  <2>3. QED
    BY <2>1, <2>2 DEF Moves
<1>4. ConnectTerminal(c) => Moves(c, "leaving", None, frame)
  <2> DEFINE r == [rd[c] EXCEPT !.pc = "leaving", !.exit = "terminal", !.cursor = None]
  <2>1. ConnectTerminal(c) => rd'[c] = r
    BY NewReader DEF ConnectTerminal
  <2>2. r.pc = "leaving" /\ r.cursor = None /\ r.frame = frame
    BY <1>1 DEF Reader
  <2>3. QED
    BY <2>1, <2>2 DEF Moves
<1>5. ConnectTransient(c) => Moves(c, "leaving", cursor, frame)
  <2> DEFINE r == [rd[c] EXCEPT !.pc = "leaving", !.exit = "raise"]
  <2>1. ConnectTransient(c) => rd'[c] = r
    BY NewReader DEF ConnectTransient
  <2>2. r.pc = "leaving" /\ r.cursor = cursor /\ r.frame = frame
    BY <1>1 DEF Reader
  <2>3. QED
    BY <2>1, <2>2 DEF Moves
<1>6. Leave(c) => Moves(c, IF stop[c] THEN "done" ELSE "backoff", cursor, frame)
  <2> SUFFICES ASSUME Leave(c)
               PROVE  Moves(c, IF stop[c] THEN "done" ELSE "backoff", cursor, frame)
    OBVIOUS
  <2>1. PICK nap, next : Becomes(c, [rd[c] EXCEPT
          !.pc = IF stop[c] THEN "done" ELSE "backoff", !.exit = "return",
          !.nap = nap, !.attempt = next])
    BY DEF Leave
  <2> DEFINE r == [rd[c] EXCEPT !.pc = IF stop[c] THEN "done" ELSE "backoff",
                     !.exit = "return", !.nap = nap, !.attempt = next]
  <2>2. rd'[c] = r
    BY <2>1, NewReader
  <2>3. /\ r.pc = (IF stop[c] THEN "done" ELSE "backoff")
        /\ r.cursor = cursor /\ r.frame = frame
    BY <1>1 DEF Reader
  <2>4. QED
    BY <2>2, <2>3 DEF Moves
<1>7. Wake(c) => Moves(c, "top", cursor, frame)
  <2> DEFINE r == [rd[c] EXCEPT !.pc = "top", !.nap = 0]
  <2>1. Wake(c) => rd'[c] = r
    BY NewReader DEF Wake
  <2>2. r.pc = "top" /\ r.cursor = cursor /\ r.frame = frame
    BY <1>1 DEF Reader
  <2>3. QED
    BY <2>1, <2>2 DEF Moves
<1>8. ASSUME NEW how, Quit(c, how) PROVE Moves(c, "leaving", cursor, None)
  <2> DEFINE r == [rd[c] EXCEPT !.pc = "leaving", !.exit = how, !.frame = None]
  <2>1. rd'[c] = r
    BY <1>8, NewReader DEF Quit
  <2>2. r.pc = "leaving" /\ r.cursor = cursor /\ r.frame = None
    BY <1>1 DEF Reader
  <2>3. QED
    BY <2>1, <2>2 DEF Moves
<1>9. ASSUME NEW banner, Comment(c, banner) PROVE Moves(c, "pumping", CursorAt(c), frame)
  <2> DEFINE r == [rd[c] EXCEPT !.cursor = CursorAt(c), !.force = ForcesAt(c),
                                !.traffic = @ \/ ~banner]
  <2>1. rd'[c] = r /\ rd[c].pc = "pumping"
    BY <1>9, NewReader DEF Comment
  <2>2. r.pc = rd[c].pc /\ r.cursor = CursorAt(c) /\ r.frame = frame
    BY <1>1 DEF Reader
  <2>3. QED
    BY <2>1, <2>2 DEF Moves
<1>10. ASSUME NEW f, FrameLines(c, f) PROVE Moves(c, "frame", CursorAt(c), f)
  <2> DEFINE r == [rd[c] EXCEPT !.pc = "frame", !.frame = f,
                                !.cursor = CursorAt(c), !.force = ForcesAt(c)]
  <2>1. rd'[c] = r
    BY <1>10, NewReader DEF FrameLines
  <2>2. r.pc = "frame" /\ r.cursor = CursorAt(c) /\ r.frame = f
    BY <1>1 DEF Reader
  <2>3. QED
    BY <2>1, <2>2 DEF Moves
<1>11. FrameEnd(c) => Moves(c, "dispatch", CursorAt(c), frame)
  <2> DEFINE r == [rd[c] EXCEPT !.pc = "dispatch", !.traffic = TRUE,
                                !.cursor = CursorAt(c), !.force = ForcesAt(c)]
  <2>1. FrameEnd(c) => rd'[c] = r
    BY NewReader DEF FrameEnd
  <2>2. r.pc = "dispatch" /\ r.cursor = CursorAt(c) /\ r.frame = frame
    BY <1>1 DEF Reader
  <2>3. QED
    BY <2>1, <2>2 DEF Moves
<1>12. QED
  BY <1>2, <1>3, <1>4, <1>5, <1>6, <1>7, <1>8, <1>9, <1>10, <1>11

\* The steps of _dispatch move a reader as follows.
LEMMA DispatchMoves ==
  ASSUME TypeOK, NEW c \in Clients
  PROVE  /\ \A cursor : Dispatched(c, cursor) => Moves(c, "pumping", cursor, None)
         /\ DispatchDelta(c) => \/ Moves(c, "apply", rd[c].cursor, rd[c].frame)
                                \/ Moves(c, "pumping", None, None)
<1>1. rd[c] \in Reader
  BY DEF TypeOK
<1>2. ASSUME NEW cursor, Dispatched(c, cursor) PROVE Moves(c, "pumping", cursor, None)
  <2> DEFINE r == [rd[c] EXCEPT !.pc = "pumping", !.frame = None, !.cursor = cursor]
  <2>1. rd'[c] = r
    BY <1>2, NewReader DEF Dispatched
  <2>2. r.pc = "pumping" /\ r.cursor = cursor /\ r.frame = None
    BY <1>1 DEF Reader
  <2>3. QED
    BY <2>1, <2>2 DEF Moves
<1>3. ASSUME DispatchDelta(c)
      PROVE  \/ Moves(c, "apply", rd[c].cursor, rd[c].frame)
             \/ Moves(c, "pumping", None, None)
  <2> DEFINE r == [rd[c] EXCEPT !.pc = "apply"]
             q == [rd[c] EXCEPT !.pc = "pumping", !.frame = None,
                                !.cursor = None, !.force = TRUE]
  <2>1. rd'[c] \in {r, q}
    BY <1>3, NewReader DEF DispatchDelta
  <2>2. /\ r.pc = "apply" /\ r.cursor = rd[c].cursor /\ r.frame = rd[c].frame
        /\ q.pc = "pumping" /\ q.cursor = None /\ q.frame = None
    BY <1>1 DEF Reader
  <2> HIDE DEF r, q
  <2>3. QED
    BY <2>1, <2>2 DEF Moves
<1>4. QED
  BY <1>2, <1>3

\* A lone client's reader: it is not born before its pack was reset; a cursor
\* stands for a pack that is there, and a snapshot in hand for nothing older.
Backed(c) ==
  /\ pack = None => packVersion = 0
  /\ ipc[c] # "up" => pack = None /\ rd[c].cursor = None /\ rd[c].pc = "unborn"
  /\ rd[c].cursor # None => pack # None /\ ~cacheInvalid /\ rd[c].cursor <= packVersion
  /\ rd[c].frame # None /\ rd[c].frame.kind = "snapshot"
       => packVersion <= rd[c].frame.version

\* Its connection is the one the liveness record speaks of.
Linked(c) ==
  /\ rd[c].pc \in Pumping => link = "up"
  /\ rd[c].pc \notin Pumping \union {"leaving"} => link # "up"
  /\ link = "up" => owner = c

\* The steps of init() and close() of a lone client.
LEMMA InitStepBacks ==
  ASSUME PublishedInv, NEW c, Clients = {c}, Backed(c), Linked(c), InitStep(c)
  PROVE  Backed(c)' /\ Linked(c)'
<1>0. TypeOK /\ c \in Clients /\ rd[c] \in Reader /\ ipc \in [Clients -> {"new", "closing", "reset", "installed", "up"}]
  BY DEF PublishedInv, TypeOK
<1>1. CASE CloseOld(c)
  BY <1>0, <1>1 DEF CloseOld, Backed, Linked, packVars, linkVars
<1>2. CASE Install(c)
  BY <1>0, <1>2 DEF Install, Backed, Linked, packVars, linkVars
<1>3. CASE ResetPack(c)
  <2>1. /\ pack' = None /\ packVersion' = 0 /\ UNCHANGED <<rd, link, owner>>
        /\ ipc[c] # "up"
    BY <1>3 DEF ResetPack, linkVars
  <2>2. rd[c].frame # None => rd[c].frame.version \in Nat
    BY <1>0, Bounds DEF Reader, Frame
  <2>3. 0 <= packVersion
    BY <1>0, Bounds DEF TypeOK
  <2>4. QED
    BY <2>1, <2>2, <2>3 DEF Backed, Linked
<1>4. CASE StartReader(c)
  <2> DEFINE r == [rd[c] EXCEPT !.pc = "top"]
  <2>1. /\ rd'[c] = r /\ UNCHANGED <<pack, packVersion, cacheInvalid, link, owner>>
        /\ ipc[c] # "up" /\ ipc'[c] = "up"
    BY <1>0, <1>4, NewReader DEF StartReader, packVars, linkVars
  <2>2. r.pc = "top" /\ r.cursor = rd[c].cursor /\ r.frame = rd[c].frame
    BY <1>0 DEF Reader
  <2> HIDE DEF r
  <2>3. rd[c].pc = "unborn" /\ pack = None /\ rd[c].cursor = None
    BY <2>1 DEF Backed
  <2>4. link # "up"
    BY <2>3 DEF Linked, Pumping
  <2>5. Backed(c)'
    BY <2>1, <2>2, <2>3 DEF Backed
  <2>6. Linked(c)'
    BY <2>1, <2>2, <2>4 DEF Linked, Pumping
  <2>7. QED
    BY <2>5, <2>6
<1>5. CASE CloseClient(c)
  BY <1>5 DEF CloseClient, Backed, Linked, packVars, linkVars
<1>6. QED
  BY <1>1, <1>2, <1>3, <1>4, <1>5 DEF InitStep

\* A step that at most drops the cursor, the frame or both keeps them backed.
LEMMA StillBacked ==
  ASSUME NEW c, Backed(c), NEW pc, NEW cursor, NEW frame, Moves(c, pc, cursor, frame),
         cursor = rd[c].cursor \/ cursor = None, frame = rd[c].frame \/ frame = None,
         rd[c].pc # "unborn", UNCHANGED <<pack, packVersion, ipc>>,
         cacheInvalid' = cacheInvalid \/ cursor = None
  PROVE  Backed(c)'
BY DEF Moves, Backed

\* The steps of a lone client's reader outside _dispatch.
LEMMA PumpBacks ==
  ASSUME PublishedInv, NEW c, Clients = {c}, Backed(c), Linked(c),
         \/ LoopTop(c) \/ ConnectOk(c) \/ ConnectTerminal(c) \/ ConnectTransient(c)
         \/ Leave(c) \/ Wake(c)
         \/ LineStops(c) \/ Watchdog(c) \/ Eof(c) \/ ReadError(c)
         \/ (\E banner \in BOOLEAN : Comment(c, banner))
         \/ (\E f \in Sendable(c) : FrameLines(c, f))
         \/ FrameEnd(c)
  PROVE  Backed(c)' /\ Linked(c)'
<1> DEFINE cursor == rd[c].cursor
           frame  == rd[c].frame
<1>0. TypeOK /\ c \in Clients /\ rd[c] \in Reader
  BY DEF PublishedInv, TypeOK
<1>1. CASE LoopTop(c)
  <2>1. Moves(c, IF stop[c] THEN "done" ELSE "connecting", cursor, frame)
    BY <1>0, <1>1, PumpMoves
  <2>2. rd[c].pc = "top" /\ UNCHANGED <<pack, packVersion, cacheInvalid, ipc, link, owner>>
    BY <1>1 DEF LoopTop, packVars, linkVars, clientVars
  <2>3. Linked(c)'
    BY <2>1, <2>2 DEF Moves, Linked, Pumping
  <2>4. QED
    BY <2>1, <2>2, <2>3, StillBacked
<1>2. CASE ConnectOk(c)
  <2>1. Moves(c, "pumping", cursor, frame)
    BY <1>0, <1>2, PumpMoves
  <2>2. /\ rd[c].pc = "connecting" /\ UNCHANGED <<pack, packVersion, cacheInvalid, ipc>>
        /\ link' = "up" /\ owner' = c
    BY <1>2 DEF ConnectOk, packVars, clientVars
  <2>3. Linked(c)'
    BY <2>1, <2>2 DEF Moves, Linked, Pumping
  <2>4. QED
    BY <2>1, <2>2, <2>3, StillBacked
<1>3. CASE ConnectTerminal(c)
  <2>1. Moves(c, "leaving", None, frame)
    BY <1>0, <1>3, PumpMoves
  <2>2. rd[c].pc = "connecting" /\ UNCHANGED <<pack, packVersion, ipc, link, owner>>
    BY <1>3 DEF ConnectTerminal, linkVars, clientVars
  <2>3. Linked(c)'
    BY <2>1, <2>2 DEF Moves, Linked, Pumping
  <2>4. QED
    BY <2>1, <2>2, <2>3, StillBacked
<1>4. CASE ConnectTransient(c)
  <2>1. Moves(c, "leaving", cursor, frame)
    BY <1>0, <1>4, PumpMoves
  <2>2. /\ rd[c].pc = "connecting"
        /\ UNCHANGED <<pack, packVersion, cacheInvalid, ipc, link, owner>>
    BY <1>4 DEF ConnectTransient, packVars, linkVars, clientVars
  <2>3. Linked(c)'
    BY <2>1, <2>2 DEF Moves, Linked, Pumping
  <2>4. QED
    BY <2>1, <2>2, <2>3, StillBacked
<1>5. CASE Leave(c)
  <2>1. Moves(c, IF stop[c] THEN "done" ELSE "backoff", cursor, frame)
    BY <1>0, <1>5, PumpMoves
  <2>2. /\ rd[c].pc = "leaving" /\ UNCHANGED <<pack, packVersion, cacheInvalid, ipc, owner>>
        /\ link' = IF owner = c /\ link = "up" THEN "grace" ELSE link
    BY <1>5 DEF Leave, LinkAfterRetire, packVars, clientVars
  <2>3. link' # "up"
    BY <2>2 DEF Linked
  <2>4. Linked(c)'
    BY <2>1, <2>3 DEF Moves, Linked, Pumping
  <2>5. QED
    BY <2>1, <2>2, <2>4, StillBacked
<1>6. CASE Wake(c)
  <2>1. Moves(c, "top", cursor, frame)
    BY <1>0, <1>6, PumpMoves
  <2>2. /\ rd[c].pc = "backoff"
        /\ UNCHANGED <<pack, packVersion, cacheInvalid, ipc, link, owner>>
    BY <1>6 DEF Wake, packVars, linkVars, clientVars
  <2>3. Linked(c)'
    BY <2>1, <2>2 DEF Moves, Linked, Pumping
  <2>4. QED
    BY <2>1, <2>2, <2>3, StillBacked
<1>7. CASE LineStops(c) \/ Watchdog(c) \/ Eof(c) \/ ReadError(c)
  <2>1. PICK how : Quit(c, how) /\ rd[c].pc \in {"pumping", "frame"}
    BY <1>7 DEF LineStops, Watchdog, Eof, ReadError, BetweenLines
  <2>2. Moves(c, "leaving", cursor, None)
    BY <1>0, <2>1, PumpMoves
  <2>3. UNCHANGED <<pack, packVersion, cacheInvalid, ipc, link, owner>>
    BY <2>1 DEF Quit, packVars, linkVars, clientVars
  <2>4. Linked(c)'
    BY <2>1, <2>2, <2>3 DEF Moves, Linked, Pumping
  <2>5. QED
    BY <2>1, <2>2, <2>3, <2>4, StillBacked
<1>8. /\ CursorAt(c) = cursor \/ CursorAt(c) = None
      /\ TtlWatchdog => cacheInvalid' = cacheInvalid \/ CursorAt(c) = None
  BY <1>0 DEF CursorAt, TtlWatchdog, TypeOK
<1>9. ASSUME NEW banner \in BOOLEAN, Comment(c, banner) PROVE Backed(c)' /\ Linked(c)'
  <2>1. Moves(c, "pumping", CursorAt(c), frame)
    BY <1>0, <1>9, PumpMoves
  <2>2. /\ rd[c].pc = "pumping" /\ TtlWatchdog
        /\ UNCHANGED <<pack, packVersion, ipc, link, owner>>
    BY <1>9 DEF Comment, linkVars, clientVars
  <2>3. Linked(c)'
    BY <2>1, <2>2 DEF Moves, Linked, Pumping
  <2>4. QED
    BY <1>8, <2>1, <2>2, <2>3, StillBacked
<1>10. ASSUME NEW f \in Sendable(c), FrameLines(c, f) PROVE Backed(c)' /\ Linked(c)'
  <2>1. Moves(c, "frame", CursorAt(c), f)
    BY <1>0, <1>10, PumpMoves
  <2>2. /\ rd[c].pc = "pumping" /\ TtlWatchdog
        /\ UNCHANGED <<pack, packVersion, ipc, link, owner>>
    BY <1>10 DEF FrameLines, linkVars, clientVars
  <2>3. Linked(c)'
    BY <2>1, <2>2 DEF Moves, Linked, Pumping
  <2>4. f.kind = "snapshot" => packVersion <= f.version
    <3>1. f.kind = "snapshot" => f.version = truth[TenantOf[c]]
      BY DEF Sendable
    <3>2. TenantOf[c] \in Tenants /\ truth[TenantOf[c]] \in Nat
      BY <1>0, Bounds, ConstantsAssumption DEF TypeOK
    <3>3. pack # None => packVersion <= truth[TenantOf[c]]
      BY <1>0 DEF PublishedInv, PackOfTenant, PackIsPublished
    <3>4. QED
      BY <3>1, <3>2, <3>3 DEF Backed
  <2>5. Backed(c)'
    BY <1>8, <2>1, <2>2, <2>4 DEF Moves, Backed
  <2>6. QED
    BY <2>3, <2>5
<1>11. CASE FrameEnd(c)
  <2>1. Moves(c, "dispatch", CursorAt(c), frame)
    BY <1>0, <1>11, PumpMoves
  <2>2. /\ rd[c].pc = "frame" /\ TtlWatchdog
        /\ UNCHANGED <<pack, packVersion, ipc, link, owner>>
    BY <1>11 DEF FrameEnd, linkVars, clientVars
  <2>3. Linked(c)'
    BY <2>1, <2>2 DEF Moves, Linked, Pumping
  <2>4. QED
    BY <1>8, <2>1, <2>2, <2>3, StillBacked
<1>12. QED
  BY <1>1, <1>2, <1>3, <1>4, <1>5, <1>6, <1>7, <1>9, <1>10, <1>11

\* A snapshot makes a pack.
LEMMA SnapshotIsPack ==
  ASSUME NEW c \in Clients, NEW f \in Frame
  PROVE  [tenant |-> TenantOf[c], changes |-> Changes(TenantOf[c], f.version)] # None
<1>1. 1 .. f.version \subseteq Versions
  BY FrameVersion, ConstantsAssumption DEF Versions
<1>2. Changes(TenantOf[c], f.version) \in SUBSET (Tenants \X Versions)
  BY <1>1, ConstantsAssumption DEF Changes
<1>3. [tenant |-> TenantOf[c], changes |-> Changes(TenantOf[c], f.version)] \in Pack
  BY <1>2, ConstantsAssumption DEF Pack
<1>4. QED
  BY <1>3, NoneIsNoData

\* A pack that one more change was applied to is one as well.
LEMMA GrownIsPack ==
  ASSUME NEW c \in Clients, NEW f \in Frame, NEW p \in Pack
  PROVE  [p EXCEPT !.changes = @ \union {<<TenantOf[c], f.version>>}] # None
<1>1. f.version \in Versions
  BY FrameVersion
<1>2. [p EXCEPT !.changes = @ \union {<<TenantOf[c], f.version>>}] \in Pack
  BY <1>1, ConstantsAssumption DEF Pack
<1>3. QED
  BY <1>2, NoneIsNoData

\* The steps of _dispatch of a lone client's reader.
LEMMA DispatchBacks ==
  ASSUME PublishedInv, NEW c, Clients = {c}, Backed(c), Linked(c),
         DispatchJunk(c) \/ DispatchSnapshot(c) \/ DispatchDelta(c) \/ ApplyDelta(c)
  PROVE  Backed(c)' /\ Linked(c)'
<1> DEFINE f == rd[c].frame
<1>0. /\ TypeOK /\ c \in Clients /\ rd[c] \in Reader /\ HoldsFrame
      /\ rd[c].pc \in {"dispatch", "apply"} /\ UNCHANGED <<ipc, link, owner>>
  BY DEF PublishedInv, TypeOK, DispatchJunk, DispatchSnapshot, DispatchDelta, ApplyDelta,
     linkVars, clientVars
<1>1. f \in Frame /\ f # None /\ f.version \in Nat /\ packVersion \in Nat
  BY <1>0, FrameVersion, Bounds DEF HoldsFrame, TypeOK, Reader
<1>2. ASSUME NEW pc \in Pumping, NEW cursor, NEW frame, Moves(c, pc, cursor, frame)
      PROVE  Linked(c)'
  BY <1>0, <1>2 DEF Moves, Linked, Pumping
<1>3. ASSUME Refuse(c) PROVE Backed(c)' /\ Linked(c)'
  <2>1. Moves(c, "pumping", None, None) /\ UNCHANGED <<pack, packVersion>>
    BY <1>0, <1>3, DispatchMoves DEF Refuse
  <2>2. QED
    BY <1>0, <1>2, <2>1, StillBacked DEF Pumping
<1>4. CASE DispatchJunk(c)
  <2>1. /\ Moves(c, "pumping", rd[c].cursor, None)
        /\ UNCHANGED <<pack, packVersion, cacheInvalid>>
    BY <1>0, <1>4, DispatchMoves DEF DispatchJunk, packVars
  <2>2. QED
    BY <1>0, <1>2, <2>1, StillBacked DEF Pumping
<1>5. CASE DispatchDelta(c)
  <2>1. /\ \/ Moves(c, "apply", rd[c].cursor, rd[c].frame)
           \/ Moves(c, "pumping", None, None)
        /\ UNCHANGED <<pack, packVersion, cacheInvalid>>
    BY <1>0, <1>5, DispatchMoves DEF DispatchDelta, packVars
  <2>2. QED
    BY <1>0, <1>2, <2>1, StillBacked DEF Pumping
<1>6. CASE DispatchSnapshot(c)
  <2>1. CASE ~SnapshotFits(c)
    BY <1>3, <1>6, <2>1 DEF DispatchSnapshot
  <2>2. CASE SnapshotFits(c)
    <3>1. /\ Dispatched(c, CursorFrom(c, f)) /\ packVersion' = f.version
          /\ pack' = [tenant |-> TenantOf[c], changes |-> Changes(TenantOf[c], f.version)]
          /\ cacheInvalid' = FALSE /\ f.kind = "snapshot"
      BY <1>6, <2>2 DEF DispatchSnapshot
    <3>2. Moves(c, "pumping", CursorFrom(c, f), None)
      BY <1>0, <3>1, DispatchMoves
    <3>3. pack' # None
      BY <1>0, <1>1, <3>1, SnapshotIsPack
    <3>4. packVersion <= f.version
      BY <1>1, <3>1 DEF Backed
    <3>5. CursorFrom(c, f) # None => CursorFrom(c, f) <= f.version
      <4>1. CASE f.id
        BY <1>1, <4>1 DEF CursorFrom
      <4>2. CASE ~f.id
        <5>1. CursorFrom(c, f) = rd[c].cursor
          BY <4>2 DEF CursorFrom
        <5>2. rd[c].cursor # None => rd[c].cursor \in Nat /\ rd[c].cursor <= packVersion
          BY <1>0, Bounds DEF Reader, Backed
        <5>3. QED
          BY <1>1, <3>4, <5>1, <5>2
      <4>3. QED
        BY <4>1, <4>2
    <3>6. ipc[c] = "up"
      BY <1>0 DEF Backed
    <3>7. Backed(c)'
      BY <1>0, <3>1, <3>2, <3>3, <3>5, <3>6 DEF Moves, Backed
    <3>8. QED
      BY <1>2, <3>2, <3>7 DEF Pumping
  <2>3. QED
    BY <2>1, <2>2
<1>7. CASE ApplyDelta(c)
  <2>1. CASE Verdict(f) = "refuse"
    BY <1>3, <1>7, <2>1 DEF ApplyDelta
  <2>2. CASE Verdict(f) \in {"discard", "apply"}
    <3>1. Dispatched(c, CursorFrom(c, f)) /\ UNCHANGED cacheInvalid
      BY <1>7, <2>2 DEF ApplyDelta, packVars
    <3>2. Moves(c, "pumping", CursorFrom(c, f), None)
      BY <1>0, <3>1, DispatchMoves
    <3>3. pack # None /\ ~cacheInvalid
      BY <2>2 DEF Verdict
    <3>4. pack' # None /\ packVersion' \in Nat /\ packVersion <= packVersion'
          /\ f.version <= packVersion'
      <4>1. CASE Verdict(f) = "discard"
        <5>1. UNCHANGED <<pack, packVersion>> /\ f.version <= packVersion
          BY <1>7, <3>3, <4>1 DEF ApplyDelta, packVars, Verdict
        <5>2. QED
          BY <1>1, <3>3, <5>1
      <4>2. CASE Verdict(f) = "apply"
        <5>1. /\ pack' = [pack EXCEPT !.changes = @ \union {<<TenantOf[c], f.version>>}]
              /\ packVersion' = f.version /\ f.version = packVersion + 1
          BY <1>7, <3>3, <4>2 DEF ApplyDelta, Verdict
        <5>2. pack \in Pack
          BY <1>0, <3>3 DEF TypeOK
        <5>3. pack' # None
          BY <1>0, <1>1, <5>1, <5>2, GrownIsPack
        <5>4. packVersion' = f.version /\ f.version = packVersion + 1
          BY <5>1
        <5> QED
          BY <1>1, <5>3, <5>4
      <4>3. QED
        BY <2>2, <4>1, <4>2
    <3>5. CursorFrom(c, f) # None => CursorFrom(c, f) <= packVersion'
      <4>1. CASE f.id
        BY <3>4, <4>1 DEF CursorFrom
      <4>2. CASE ~f.id
        <5>1. CursorFrom(c, f) = rd[c].cursor
          BY <4>2 DEF CursorFrom
        <5>2. rd[c].cursor # None => rd[c].cursor \in Nat /\ rd[c].cursor <= packVersion
          BY <1>0, Bounds DEF Reader, Backed
        <5>3. \A n \in Nat : n <= packVersion => n <= packVersion'
          <6>1. packVersion \in Nat /\ packVersion' \in Nat /\ packVersion <= packVersion'
            BY <1>1, <3>4
          <6>2. QED
            BY <6>1
        <5>4. QED
          BY <5>1, <5>2, <5>3
      <4>3. QED
        BY <4>1, <4>2
    <3>6. ipc[c] = "up"
      BY <1>0 DEF Backed
    <3>7. Backed(c)'
      BY <1>0, <3>1, <3>2, <3>3, <3>4, <3>5, <3>6 DEF Moves, Backed
    <3>8. QED
      BY <1>2, <3>2, <3>7 DEF Pumping
  <2>3. QED
    BY <2>1, <2>2 DEF Verdict
<1>8. QED
  BY <1>4, <1>5, <1>6, <1>7

\* What the timers and the service do.
LEMMA EnvironmentBacks ==
  ASSUME NEW c, Backed(c), Linked(c),
         (\E t \in Tenants : Publish(t)) \/ TtlExpires \/ GraceEnds \/ UNCHANGED vars
  PROVE  Backed(c)' /\ Linked(c)'
<1>1. UNCHANGED <<pack, packVersion, cacheInvalid, ipc, rd, owner>>
  BY DEF Publish, TtlExpires, GraceEnds, vars, packVars, linkVars, clientVars
<1>2. link' = link \/ (link = "grace" /\ link' = "stale")
  BY DEF Publish, TtlExpires, GraceEnds, vars, linkVars
<1>3. Backed(c)'
  BY <1>1 DEF Backed
<1>4. Linked(c)'
  BY <1>1, <1>2 DEF Linked
<1>5. QED
  BY <1>3, <1>4

\* The invariant of a process with one client.
AloneInv ==
  /\ PublishedInv
  /\ \A c \in Clients : Backed(c) /\ Linked(c)

\* A lone client has one tenant.
LEMMA AloneOneTenant == Alone => OneTenantOnly
BY DEF Alone, OneTenantOnly

\* It holds when the process starts.
LEMMA InitAlone == Init => AloneInv
<1> SUFFICES ASSUME Init PROVE AloneInv
  OBVIOUS
<1>1. TypeOK /\ HoldsFrame
  BY InitTypeOK
<1>2. FramePublished /\ PackOfTenant /\ PackIsPublished
  BY DEF Init, FreshReader, FramePublished, PackOfTenant, PackIsPublished
<1>3. ASSUME NEW c \in Clients PROVE Backed(c) /\ Linked(c)
  BY <1>3 DEF Init, FreshReader, Backed, Linked, Pumping
<1>4. QED
  BY <1>1, <1>2, <1>3 DEF AloneInv, PublishedInv

\* Every step keeps it.
LEMMA StepAlone == Alone /\ AloneInv /\ [Next]_vars => AloneInv'
<1> SUFFICES ASSUME Alone, AloneInv, [Next]_vars PROVE AloneInv'
  OBVIOUS
<1>1. PublishedInv'
  BY AloneOneTenant, StepTypeOK, StepHoldsFrame, StepFramePublished, StepPublished
     DEF AloneInv, PublishedInv
<1>2. PICK c : Clients = {c}
  BY DEF Alone
<1>3. c \in Clients /\ PublishedInv /\ Backed(c) /\ Linked(c)
  BY <1>2 DEF AloneInv
<1>4. Backed(c)' /\ Linked(c)'
  <2>1. CASE InitStep(c)
    BY <1>2, <1>3, <2>1, InitStepBacks
  <2>2. CASE ReaderStep(c)
    <3>1. CASE DispatchJunk(c) \/ DispatchSnapshot(c) \/ DispatchDelta(c) \/ ApplyDelta(c)
      BY <1>2, <1>3, <3>1, DispatchBacks
    <3>2. CASE ~(DispatchJunk(c) \/ DispatchSnapshot(c) \/ DispatchDelta(c) \/ ApplyDelta(c))
      BY <1>2, <1>3, <2>2, <3>2, PumpBacks DEF ReaderStep
    <3>3. QED
      BY <3>1, <3>2
  <2>3. CASE (\E t \in Tenants : Publish(t)) \/ TtlExpires \/ GraceEnds \/ UNCHANGED vars
    BY <1>3, <2>3, EnvironmentBacks
  <2>4. QED
    BY <1>2, <2>1, <2>2, <2>3 DEF Next
<1>5. QED
  BY <1>1, <1>2, <1>4 DEF AloneInv

\* So it always holds.
LEMMA AlwaysAlone == Alone /\ Spec => []AloneInv
<1>1. Alone => Alone'
  BY DEF Alone
<1>2. QED
  BY <1>1, InitAlone, StepAlone, PTL DEF Spec

\* With one client, a reconnect cursor never outlives the rules it stands for,
\* whatever poisons the pack, expires it or ends the connection.
THEOREM CursorAlwaysBacked == Alone /\ Spec => []CursorBacked
<1>1. AloneInv => CursorBacked
  BY DEF AloneInv, Backed, CursorBacked
<1>2. QED
  BY <1>1, AlwaysAlone, PTL

\* With one client, the liveness record says "connected" while its reader is on
\* a stream and never while it is off it.
THEOREM LinkAlwaysTells == Alone /\ Spec => []LinkTellsStream
<1>1. AloneInv => LinkTellsStream
  BY DEF AloneInv, Linked, LinkTellsStream, Pumping
<1>2. QED
  BY <1>1, AlwaysAlone, PTL

\* What an evaluator is given, and the version its tenant has published.
Given == IF Healthy THEN {change[2] : change \in pack.changes} ELSE None

\* What a step means to the evaluator of a lone client: nothing, new rules in
\* force, the rules gone for a while, or a version published.
CacheStep(t) ==
  \/ UNCHANGED <<Given, packVersion>> /\ truth'[t] = truth[t]
  \/ Healthy' /\ packVersion <= packVersion' /\ truth'[t] = truth[t]
  \/ ~Healthy' /\ packVersion' = packVersion /\ truth'[t] = truth[t]
  \/ UNCHANGED <<Given, packVersion>> /\ truth'[t] = truth[t] + 1

\* The pack, its version and its health decide what is given.
LEMMA SameGiven == ASSUME UNCHANGED <<pack, cacheInvalid, packExpired>> PROVE Given' = Given
BY DEF Given, Healthy

\* The TTL watchdog poisons only what had expired already.
LEMMA WatchdogGives ==
  ASSUME TtlWatchdog, UNCHANGED <<pack, packExpired>> PROVE Given' = Given
<1>1. Healthy' = Healthy
  BY DEF TtlWatchdog, Healthy
<1>2. QED
  BY <1>1 DEF Given

\* The second components of pairs with one first component.
LEMMA Seconds == ASSUME NEW t, NEW S PROVE {change[2] : change \in {t} \X S} = S
<1>1. ASSUME NEW s \in S PROVE s \in {change[2] : change \in {t} \X S}
  <2>1. <<t, s>> \in {t} \X S /\ <<t, s>>[2] = s
    OBVIOUS
  <2>2. QED
    BY <2>1
<1>2. \A p \in {t} \X S : p[2] \in S
  OBVIOUS
<1>3. QED
  BY <1>1, <1>2

\* A healthy cache gives exactly the versions up to the one it is at.
GivesPrefix == Healthy => Given = 1 .. packVersion

LEMMA AlonePrefix == AloneInv => GivesPrefix
<1> SUFFICES ASSUME AloneInv, Healthy PROVE Given = 1 .. packVersion
  BY DEF GivesPrefix
<1>1. pack.changes = {pack.tenant} \X (1 .. packVersion)
  BY DEF AloneInv, PublishedInv, PackIsPublished, Healthy, Changes
<1>2. QED
  BY <1>1, Seconds DEF Given

\* What _dispatch of a lone client's reader means to the evaluator.
LEMMA DispatchGives ==
  ASSUME AloneInv, NEW c, Clients = {c},
         DispatchJunk(c) \/ DispatchSnapshot(c) \/ DispatchDelta(c) \/ ApplyDelta(c)
  PROVE  CacheStep(TenantOf[c])
<1> DEFINE f == rd[c].frame
           t == TenantOf[c]
<1>0. /\ TypeOK /\ c \in Clients /\ rd[c] \in Reader /\ HoldsFrame /\ Backed(c)
      /\ rd[c].pc \in {"dispatch", "apply"} /\ truth' = truth
  BY DEF AloneInv, PublishedInv, TypeOK, DispatchJunk, DispatchSnapshot, DispatchDelta, ApplyDelta
<1>1. f \in Frame /\ f # None /\ f.version \in Nat /\ packVersion \in Nat
  BY <1>0, FrameVersion, Bounds DEF HoldsFrame, TypeOK, Reader
<1>2. rd[c].pc # "unborn" /\ ipc[c] = "up"
  BY <1>0 DEF Backed
<1>3. ASSUME Refuse(c) PROVE CacheStep(t)
  BY <1>0, <1>3 DEF Refuse, CacheStep, Healthy
<1>4. CASE DispatchJunk(c) \/ DispatchDelta(c)
  <2>1. UNCHANGED <<pack, packVersion, cacheInvalid, packExpired>>
    BY <1>4 DEF DispatchJunk, DispatchDelta, packVars
  <2>2. QED
    BY <1>0, <2>1, SameGiven DEF CacheStep
<1>5. CASE DispatchSnapshot(c)
  <2>1. CASE ~SnapshotFits(c)
    BY <1>3, <1>5, <2>1 DEF DispatchSnapshot
  <2>2. CASE SnapshotFits(c)
    <3>1. /\ packVersion' = f.version /\ ~cacheInvalid' /\ ~packExpired'
          /\ pack' = [tenant |-> TenantOf[c], changes |-> Changes(TenantOf[c], f.version)]
          /\ f.kind = "snapshot"
      BY <1>5, <2>2 DEF DispatchSnapshot
    <3>2. pack' # None
      BY <1>0, <1>1, <3>1, SnapshotIsPack
    <3>3. packVersion <= packVersion'
      BY <1>0, <1>1, <3>1 DEF Backed
    <3>4. Healthy'
      BY <3>1, <3>2 DEF Healthy
    <3>5. QED
      BY <1>0, <3>3, <3>4 DEF CacheStep
  <2>3. QED
    BY <2>1, <2>2
<1>6. CASE ApplyDelta(c)
  <2>1. CASE Verdict(f) = "refuse"
    BY <1>3, <1>6, <2>1 DEF ApplyDelta
  <2>2. CASE Verdict(f) = "discard"
    <3>1. UNCHANGED <<pack, packVersion, cacheInvalid, packExpired>>
      BY <1>6, <2>2 DEF ApplyDelta, packVars
    <3>2. QED
      BY <1>0, <3>1, SameGiven DEF CacheStep
  <2>3. CASE Verdict(f) = "apply"
    <3>1. /\ pack # None /\ ~cacheInvalid /\ f.version = packVersion + 1
          /\ pack' = [pack EXCEPT !.changes = @ \union {<<TenantOf[c], f.version>>}]
          /\ packVersion' = f.version /\ ~packExpired' /\ UNCHANGED cacheInvalid
      BY <1>6, <2>3 DEF ApplyDelta, Verdict
    <3>2. pack \in Pack
      BY <1>0, <3>1 DEF TypeOK
    <3>3. pack' # None
      BY <1>0, <1>1, <3>1, <3>2, GrownIsPack
    <3>4. f.version = packVersion + 1 /\ packVersion' = f.version
      BY <3>1
    <3>5. packVersion <= packVersion'
      BY <1>1, <3>4
    <3>6. ~cacheInvalid /\ ~packExpired' /\ UNCHANGED cacheInvalid
      BY <3>1
    <3>7. Healthy'
      BY <3>3, <3>6 DEF Healthy
    <3>8. QED
      BY <1>0, <3>5, <3>7 DEF CacheStep
  <2>4. QED
    BY <2>1, <2>2, <2>3 DEF Verdict
<1>7. QED
  BY <1>4, <1>5, <1>6

\* Every step of a process with one client means something to its evaluator.
LEMMA StepGives ==
  ASSUME AloneInv, [Next]_vars, NEW c, Clients = {c}
  PROVE  CacheStep(TenantOf[c])
<1> DEFINE t == TenantOf[c]
<1>0. /\ TypeOK /\ c \in Clients /\ t \in Tenants /\ Backed(c)
      /\ packVersion \in Nat /\ truth[t] \in Nat
  BY ConstantsAssumption, Bounds DEF AloneInv, PublishedInv, TypeOK
<1>1. ASSUME UNCHANGED <<pack, packVersion, cacheInvalid, packExpired, truth>>
      PROVE  CacheStep(t)
  BY <1>1, SameGiven DEF CacheStep
<1>2. ASSUME TtlWatchdog, UNCHANGED <<pack, packVersion, packExpired, truth>>
      PROVE  CacheStep(t)
  BY <1>2, WatchdogGives DEF CacheStep
<1>3. CASE InitStep(c)
  <2>1. CASE ResetPack(c)
    <3>1. pack' = None /\ packVersion' = 0 /\ truth' = truth /\ ipc[c] # "up"
      BY <2>1 DEF ResetPack
    <3>2. packVersion = 0 /\ ~Healthy'
      BY <1>0, <3>1 DEF Backed, Healthy
    <3>3. QED
      BY <3>1, <3>2 DEF CacheStep
  <2>2. CASE ~ResetPack(c)
    BY <1>1, <1>3, <2>2 DEF InitStep, CloseOld, Install, StartReader, CloseClient, packVars
  <2>3. QED
    BY <2>1, <2>2
<1>4. CASE ReaderStep(c)
  <2>1. CASE DispatchJunk(c) \/ DispatchSnapshot(c) \/ DispatchDelta(c) \/ ApplyDelta(c)
    BY <2>1, DispatchGives
  <2>2. CASE ConnectTerminal(c)
    BY <2>2 DEF ConnectTerminal, CacheStep, Healthy
  <2>3. CASE \/ LoopTop(c) \/ ConnectOk(c) \/ ConnectTransient(c) \/ Leave(c) \/ Wake(c)
             \/ LineStops(c) \/ Watchdog(c) \/ Eof(c) \/ ReadError(c)
    BY <1>1, <2>3 DEF LoopTop, ConnectOk, ConnectTransient, Leave, Wake, LineStops,
       Watchdog, Eof, ReadError, Quit, packVars
  <2>4. CASE \/ \E banner \in BOOLEAN : Comment(c, banner)
             \/ \E f \in Sendable(c) : FrameLines(c, f)
             \/ FrameEnd(c)
    BY <1>2, <2>4 DEF Comment, FrameLines, FrameEnd
  <2>5. QED
    BY <1>4, <2>1, <2>2, <2>3, <2>4 DEF ReaderStep
<1>5. CASE \E u \in Tenants : Publish(u)
  <2>1. PICK u \in Tenants : Publish(u)
    BY <1>5
  <2>2. Given' = Given /\ packVersion' = packVersion
    BY <2>1, SameGiven DEF Publish, packVars
  <2>3. truth'[t] = truth[t] \/ truth'[t] = truth[t] + 1
    BY <1>0, <2>1 DEF Publish, TypeOK
  <2>4. QED
    BY <2>2, <2>3 DEF CacheStep
<1>6. CASE TtlExpires
  BY <1>6 DEF TtlExpires, CacheStep, Healthy
<1>7. CASE GraceEnds \/ UNCHANGED vars
  BY <1>1, <1>7 DEF GraceEnds, vars, packVars
<1>8. QED
  BY <1>3, <1>4, <1>5, <1>6, <1>7 DEF Next

\* The one tenant a lone client has.
LEMMA TheClient == ASSUME NEW c, Clients = {c} PROVE (CHOOSE d \in Clients : TRUE) = c
OBVIOUS

\* A process without a pack starts the promise.
LEMMA InitPromised == Alone /\ Init => Promise!Init
<1> SUFFICES ASSUME Alone, Init PROVE Promise!Init
  OBVIOUS
<1>1. PICK c : Clients = {c}
  BY DEF Alone
<1>2. TenantOf[CHOOSE d \in Clients : TRUE] \in Tenants
  BY <1>1, TheClient, ConstantsAssumption
<1>3. ~Healthy
  BY DEF Init, Healthy
<1>4. QED
  BY <1>2, <1>3 DEF Promise!Init, Init

\* What a step means to the evaluator is a step the promise allows.
LEMMA StepPromised ==
  Alone /\ AloneInv /\ AloneInv' /\ GivesPrefix' /\ [Next]_vars
    => [Promise!Next]_(Promise!vars)
<1> SUFFICES ASSUME Alone, AloneInv, AloneInv', GivesPrefix', [Next]_vars
             PROVE  [Promise!Next]_(Promise!vars)
  OBVIOUS
<1>1. PICK c : Clients = {c}
  BY DEF Alone
<1> DEFINE me == CHOOSE d \in Clients : TRUE
           t  == TenantOf[me]
<1>2. me = c /\ t \in Tenants /\ c \in Clients
  BY <1>1, TheClient, ConstantsAssumption
<1>3. CacheStep(t)
  BY <1>1, <1>2, StepGives
<1>4. Promise!vars = <<truth[t], Given, packVersion>>
  BY DEF Promise!vars, Given
<1>5. CASE UNCHANGED <<Given, packVersion>> /\ truth'[t] = truth[t]
  BY <1>5 DEF Promise!vars, Given
<1>6. CASE Healthy' /\ packVersion <= packVersion' /\ truth'[t] = truth[t]
  <2>1. Given' = 1 .. packVersion'
    BY <1>6 DEF GivesPrefix
  <2>2. packVersion' \in packVersion .. truth[t]
    <3>1. packVersion \in Nat /\ packVersion' \in Nat /\ truth'[t] \in Nat
      BY <1>2, Bounds DEF AloneInv, PublishedInv, TypeOK
    <3>2. pack'.tenant = t
      BY <1>2, <1>6 DEF AloneInv, PublishedInv, PackOfTenant, Healthy
    <3>3. packVersion' <= truth'[t]
      BY <1>6, <3>2 DEF AloneInv, PublishedInv, PackIsPublished, Healthy
    <3>4. QED
      BY <1>6, <3>1, <3>3
  <2>3. PICK v : v = packVersion'
    OBVIOUS
  <2>4. Promise!Adopt(v)
    BY <1>6, <2>1, <2>3 DEF Promise!Adopt, Given
  <2>5. v \in packVersion .. truth[t]
    BY <2>2, <2>3
  <2>6. QED
    BY <2>4, <2>5 DEF Promise!Next
<1>7. CASE ~Healthy' /\ packVersion' = packVersion /\ truth'[t] = truth[t]
  <2>1. Promise!Withdraw
    BY <1>7 DEF Promise!Withdraw
  <2>2. QED
    BY <2>1 DEF Promise!Next
<1>8. CASE UNCHANGED <<Given, packVersion>> /\ truth'[t] = truth[t] + 1
  <2>1. Promise!Publish
    BY <1>8 DEF Promise!Publish, Given
  <2>2. QED
    BY <2>1 DEF Promise!Next
<1>9. QED
  BY <1>3, <1>5, <1>6, <1>7, <1>8 DEF CacheStep

\* With one client, the cache implements RuleCache: an evaluator is given nothing
\* or every change up to a published version, and never an older one than before.
THEOREM ImplementsCache == Alone /\ Spec => ImplementsRuleCache
<1>1. Alone => Alone'
  BY DEF Alone
<1>2. QED
  BY <1>1, InitPromised, StepPromised, AlonePrefix, AlwaysAlone, PTL
     DEF Spec, ImplementsRuleCache, Promise!Spec
===============================================================================
