---------------------------- MODULE PreflightProofs ----------------------------
(* Proofs about Preflight: blocks stand through outages and are never made up, *)
(* and skipping the service on a stale stream hides no arming; then, from the  *)
(* second invariant (EInv), types, what rows say of their calls, evidence that *)
(* is shipped once, and previews that miss nothing.                            *)
EXTENDS Preflight, FiniteSetTheorems, WellFoundedInduction, TLAPS

\* What the proofs need of the types.
Typed ==
  /\ rules \in RuleSets /\ pack \in RuleSets \union {None}
  /\ call \in [Calls -> Call]

IInv == Typed /\ BlockStands

\* The action of UnverifiedAllowIsTrue.
UnverifiedAllow ==
  \A c \in Calls :
    /\ call[c].pc = "idle" /\ call'[c].pc = "running"
    /\ stream = "stale" /\ rules.known = pack.known /\ rules.to = pack.to
    => Status(rules, c, call'[c].shape) = "allowed"

-------------------------------------------------------------------------------
(* Values. *)

\* Every answer the service may give is a Reply.
LEMMA RepliesTyped ==
  ASSUME rules \in RuleSets
  PROVE  Replies \subseteq Reply
<1>1. rules.to \in Models
  BY DEF RuleSets
<1>2. NoAnswer \in Reply /\ Garbled \in Reply /\ Blocked \in Reply
  BY DEF Reply, NoAnswer, Garbled, Blocked
<1>3. Allowed(None) \in Reply /\ Allowed(rules.to) \in Reply
  BY <1>1 DEF Reply, Allowed
<1>. QED
  BY <1>2, <1>3 DEF Replies

\* The local verdict is a status.
LEMMA StatusTyped ==
  ASSUME NEW r \in RuleSets, NEW c \in Calls, NEW shape
  PROVE  Status(r, c, shape) \in Statuses
BY DEF Status, Statuses

\* A pack whose allow has no armable miss still allows under any rules that
\* differ from it only in what is armed.
LEMMA NoMissNoHarm ==
  ASSUME NEW p \in RuleSets, NEW r \in RuleSets, NEW c \in Calls, NEW shape,
         Status(p, c, shape) = "allowed", ~Miss(p), r.known = p.known, r.to = p.to
  PROVE  Status(r, c, shape) = "allowed"
<1>1. r.armed \subseteq p.armed
  BY DEF Miss, RuleSets
<1>2. "block" \notin p.armed
  BY DEF Status
<1>3. ~("reroute" \in p.armed /\ shape # "unverified" /\ p.to # Asked[c])
  BY <1>2 DEF Status
<1>. QED
  BY <1>1, <1>2, <1>3 DEF Status

-------------------------------------------------------------------------------
(* Steps of the wrapper. *)

\* The entry of a check: typed, other calls alone, and a call that runs at once
\* was allowed by a pack without a miss that a stale stream could hide.
LEMMA BeginStep ==
  ASSUME Typed, NEW c \in Calls, NEW shape \in Shapes, Begin(c, shape)
  PROVE  /\ Typed' /\ firewall' = firewall
         /\ \A d \in Calls : d # c => call'[d] = call[d]
         /\ call'[c].pc \in {"asking", "running"}
         /\ call'[c].pc = "running" =>
              /\ pack # None /\ Status(pack, c, shape) = "allowed"
              /\ ~(Miss(pack) /\ stream = "stale")
              /\ call'[c].local = "allowed"
         /\ call'[c].shape = shape
<1>. DEFINE local == IF pack = None THEN None ELSE Status(pack, c, shape)
            asks  == local # "allowed" \/ (Miss(pack) /\ stream = "stale")
            pc    == IF asks THEN "asking" ELSE "running"
            to    == IF local = "rerouted" THEN pack.to ELSE None
            me    == [call[c] EXCEPT !.pc = pc, !.shape = shape, !.local = local, !.to = to]
<1>1. call' = [call EXCEPT ![c] = me]
  BY DEF Begin, Typed
<1>2. local \in Statuses \union {None}
  BY StatusTyped DEF Typed
<1>3. to \in Models \union {None}
  <2>1. CASE pack = None
    BY <2>1, CallsAssumption DEF Statuses
  <2>2. CASE pack # None
    BY <2>2 DEF Typed, RuleSets
  <2>. QED
    BY <2>1, <2>2
<1>4. pc \in {"asking", "running"}
  OBVIOUS
<1>5. pc = "running" => ~asks
  OBVIOUS
<1>6. ~asks => /\ pack # None /\ Status(pack, c, shape) = "allowed"
               /\ ~(Miss(pack) /\ stream = "stale") /\ local = "allowed"
  BY CallsAssumption DEF Statuses
<1>. HIDE DEF pc, asks, local, to
<1>7. call[c] \in Call
  BY DEF Typed
<1>8. /\ me \in Call
      /\ me.pc = pc /\ me.shape = shape /\ me.local = local
  BY <1>2, <1>3, <1>4, <1>7 DEF Call
<1>. HIDE DEF me
<1>9. call' \in [Calls -> Call] /\ call'[c] = me
      /\ \A d \in Calls : d # c => call'[d] = call[d]
  BY <1>1, <1>8 DEF Typed
<1>10. UNCHANGED <<rules, pack, firewall>>
  BY DEF Begin, service
<1>. QED
  BY <1>4, <1>5, <1>6, <1>8, <1>9, <1>10 DEF Typed

\* The end of a check touches its own call only.
LEMMA SettleStep ==
  ASSUME Typed, NEW c \in Calls, NEW pc \in {"running", "blocked"}, NEW reply \in Replies,
         NEW wire \in Models, Settle(c, pc, reply, wire)
  PROVE  /\ Typed' /\ firewall' = firewall
         /\ \A d \in Calls : d # c => call'[d] = call[d]
         /\ call'[c].pc = pc /\ call'[c].reply = reply /\ call'[c].local = call[c].local
<1>. DEFINE rows == IF pc = "blocked" THEN 1 ELSE 0
            me   == [call[c] EXCEPT !.pc = pc, !.reply = reply, !.wire = wire, !.rows = rows]
<1>1. call' = [call EXCEPT ![c] = me]
  BY DEF Settle, Typed
<1>2. rows \in 0 .. MaxRows
  BY CallsAssumption
<1>3. reply \in Reply
  BY RepliesTyped DEF Typed
<1>4. call[c] \in Call
  BY DEF Typed
<1>. HIDE DEF rows
<1>5. me \in Call /\ me.pc = pc /\ me.reply = reply /\ me.local = call[c].local
  BY <1>2, <1>3, <1>4 DEF Call
<1>. HIDE DEF me
<1>6. call' \in [Calls -> Call] /\ call'[c] = me
      /\ \A d \in Calls : d # c => call'[d] = call[d]
  BY <1>1, <1>5 DEF Typed
<1>7. UNCHANGED <<rules, pack, firewall>>
  BY DEF Settle, service
<1>. QED
  BY <1>5, <1>6, <1>7 DEF Typed

\* How every answer ends: the call runs or is blocked as Stops says.
LEMMA AnswerStep ==
  ASSUME Typed, NEW c \in Calls, NEW reply \in Replies,
         \/ AnswerDry(c, reply) \/ AnswerBlocks(c, reply) \/ AnswerReroutes(c, reply)
         \/ AnswerRefused(c, reply) \/ AnswerPasses(c, reply)
  PROVE  /\ Typed' /\ firewall' = firewall
         /\ call[c].pc = "asking"
         /\ \A d \in Calls : d # c => call'[d] = call[d]
         /\ call'[c].reply = reply /\ call'[c].local = call[c].local
         /\ \/ call'[c].pc = "running" /\ (firewall # "enforce" \/ ~Stops(call[c], reply))
            \/ call'[c].pc = "blocked" /\ firewall = "enforce" /\ Stops(call[c], reply)
<1>1. Asked[c] \in Models
  BY CallsAssumption
<1>2. CASE AnswerDry(c, reply)
  <2>1. Settle(c, "running", reply, Asked[c]) /\ firewall # "enforce" /\ call[c].pc = "asking"
    BY <1>2 DEF AnswerDry, Answered
  <2>. QED
    BY <2>1, <1>1, SettleStep
<1>3. CASE AnswerBlocks(c, reply)
  <2>1. /\ Settle(c, "blocked", reply, Asked[c]) /\ call[c].pc = "asking"
        /\ firewall = "enforce" /\ Stops(call[c], reply)
    BY <1>3 DEF AnswerBlocks, Enforced, Answered
  <2>. QED
    BY <2>1, <1>1, SettleStep
<1>4. CASE AnswerReroutes(c, reply)
  <2>. DEFINE to == Reroute(call[c], reply)
  <2>1. /\ Settle(c, "running", reply, to) \/ Settle(c, "running", reply, Asked[c])
        /\ ~Stops(call[c], reply) /\ call[c].pc = "asking" /\ to # None
    BY <1>4 DEF AnswerReroutes, Enforced, Answered
  <2>2. to \in Models
    <3>1. call[c].to \in Models \union {None}
      BY DEF Typed, Call
    <3>2. reply.to \in Models \union {None}
      BY RepliesTyped DEF Typed, Reply
    <3>. QED
      BY <2>1, <3>1, <3>2 DEF Reroute
  <2>. QED
    BY <2>1, <2>2, <1>1, SettleStep
<1>5. CASE AnswerRefused(c, reply)
  <2>1. /\ Settle(c, "running", reply, Asked[c])
        /\ ~Stops(call[c], reply) /\ call[c].pc = "asking"
    BY <1>5 DEF AnswerRefused, Enforced, Answered
  <2>. QED
    BY <2>1, <1>1, SettleStep
<1>6. CASE AnswerPasses(c, reply)
  <2>1. /\ Settle(c, "running", reply, Asked[c])
        /\ ~Stops(call[c], reply) /\ call[c].pc = "asking"
    BY <1>6 DEF AnswerPasses, Enforced, Answered
  <2>. QED
    BY <2>1, <1>1, SettleStep
<1>. QED
  BY <1>2, <1>3, <1>4, <1>5, <1>6

\* A row of a running call counts and changes nothing else of a call.
LEMMA LogRowStep ==
  ASSUME Typed, NEW c \in Calls, LogRow(c)
  PROVE  /\ Typed' /\ firewall' = firewall
         /\ \A d \in Calls : /\ call'[d].pc = call[d].pc /\ call'[d].local = call[d].local
                             /\ call'[d].reply = call[d].reply
<1>. DEFINE rows == call[c].rows + 1
            me   == [call[c] EXCEPT !.rows = rows]
<1>1. call' = [call EXCEPT ![c] = me]
  BY DEF LogRow, Typed
<1>2. call[c] \in Call
  BY DEF Typed
<1>3. rows \in 0 .. MaxRows
  <2>1. call[c].rows \in 0 .. MaxRows /\ call[c].rows < MaxRows
    BY <1>2 DEF LogRow, Call
  <2>. QED
    BY <2>1, CallsAssumption
<1>. HIDE DEF rows
<1>4. me \in Call /\ me.pc = call[c].pc /\ me.local = call[c].local
      /\ me.reply = call[c].reply
  BY <1>2, <1>3 DEF Call
<1>. HIDE DEF me
<1>5. call' \in [Calls -> Call] /\ call'[c] = me
      /\ \A d \in Calls : d # c => call'[d] = call[d]
  BY <1>1, <1>4 DEF Typed
<1>6. UNCHANGED <<rules, pack, firewall>>
  BY DEF LogRow, service
<1>. QED
  BY <1>4, <1>5, <1>6 DEF Typed

\* Everything else leaves the calls alone.
LEMMA OtherStep ==
  ASSUME Typed,
         \/ Edit \/ Deliver \/ StreamChange \/ TimePasses
         \/ \E t \in Tasks : LogBatch(t)
  PROVE  Typed' /\ UNCHANGED <<firewall, call>>
<1>1. CASE Edit
  <2>1. rules' \in Policies /\ UNCHANGED <<pack, firewall, call>>
    BY <1>1 DEF Edit, ServiceStep
  <2>. QED
    BY <2>1, CallsAssumption DEF Typed
<1>2. CASE Deliver
  BY <1>2 DEF Deliver, ServiceStep, Typed
<1>3. CASE StreamChange
  BY <1>3 DEF StreamChange, ServiceStep, Typed
<1>4. CASE TimePasses
  BY <1>4 DEF TimePasses, service, Typed
<1>5. CASE \E t \in Tasks : LogBatch(t)
  BY <1>5 DEF LogBatch, service, Typed
<1>. QED
  BY <1>1, <1>2, <1>3, <1>4, <1>5

-------------------------------------------------------------------------------
(* The theorems. *)

\* No call has begun.
LEMMA InitOK == Init => IInv
<1>. SUFFICES ASSUME Init PROVE IInv
  OBVIOUS
<1>1. rules \in RuleSets /\ pack \in RuleSets \union {None}
  BY CallsAssumption DEF Init
<1>. DEFINE me(c) == [pc |-> "idle", shape |-> "plain", local |-> None, to |-> None,
                      reply |-> None, wire |-> Asked[c], rows |-> 0]
<1>2. \A c \in Calls : me(c) \in Call
  BY CallsAssumption DEF Call, Shapes
<1>3. call = [c \in Calls |-> me(c)]
  BY DEF Init
<1>4. \A c \in Calls : call[c].pc = "idle"
  BY <1>3
<1>. HIDE DEF me
<1>. QED
  BY <1>1, <1>2, <1>3, <1>4 DEF IInv, Typed, BlockStands

\* Every step keeps the invariant.
LEMMA StepOK == IInv /\ [Next]_vars => IInv'
<1>. SUFFICES ASSUME IInv, [Next]_vars PROVE IInv'
  OBVIOUS
<1>. USE DEF IInv
<1>1. ASSUME NEW c \in Calls, NEW shape \in ShapesOf[c], Begin(c, shape)
      PROVE  IInv'
  <2>1. shape \in Shapes
    BY CallsAssumption
  <2>2. /\ Typed' /\ firewall' = firewall
        /\ \A d \in Calls : d # c => call'[d] = call[d]
        /\ call'[c].pc \in {"asking", "running"}
        /\ call'[c].pc = "running" => call'[c].local = "allowed"
    BY <1>1, <2>1, BeginStep
  <2>. QED
    BY <2>2 DEF BlockStands
<1>2. ASSUME NEW c \in Calls, NEW reply \in Replies,
             \/ AnswerDry(c, reply) \/ AnswerBlocks(c, reply) \/ AnswerReroutes(c, reply)
             \/ AnswerRefused(c, reply) \/ AnswerPasses(c, reply)
      PROVE  IInv'
  <2>1. /\ Typed' /\ firewall' = firewall
        /\ \A d \in Calls : d # c => call'[d] = call[d]
        /\ call'[c].reply = reply /\ call'[c].local = call[c].local
        /\ \/ call'[c].pc = "running" /\ (firewall # "enforce" \/ ~Stops(call[c], reply))
           \/ call'[c].pc = "blocked" /\ firewall = "enforce" /\ Stops(call[c], reply)
    BY <1>2, AnswerStep
  <2>. QED
    BY <2>1 DEF BlockStands, Stops
<1>3. ASSUME NEW c \in Calls, LogRow(c)
      PROVE  IInv'
  BY <1>3, LogRowStep DEF BlockStands
<1>4. CASE \/ Edit \/ Deliver \/ StreamChange \/ TimePasses
           \/ \E t \in Tasks : LogBatch(t)
  BY <1>4, OtherStep DEF BlockStands
<1>5. CASE UNCHANGED vars
  BY <1>5 DEF vars, service, Typed, BlockStands
<1>. QED
  BY <1>1, <1>2, <1>3, <1>4, <1>5 DEF Next

\* A local block survives every outage and stale stream, and is overruled only by
\* an answer of the service; and no call is blocked without one of the two.
THEOREM BlockAlwaysStands == Spec => []BlockStands
<1>. QED
  BY InitOK, StepOK, PTL DEF Spec, IInv

\* What runs without asking is what the service would allow.
LEMMA UnverifiedStep == IInv /\ [Next]_vars => UnverifiedAllow
<1>. SUFFICES ASSUME IInv, [Next]_vars, NEW c \in Calls,
                     call[c].pc = "idle", call'[c].pc = "running", stream = "stale",
                     rules.known = pack.known, rules.to = pack.to
     PROVE  Status(rules, c, call'[c].shape) = "allowed"
  BY DEF UnverifiedAllow
<1>. USE DEF IInv
<1>1. PICK shape \in ShapesOf[c] : Begin(c, shape)
  <2>1. ASSUME NEW d \in Calls, NEW shape \in ShapesOf[d], Begin(d, shape)
        PROVE  d = c
    <3>1. shape \in Shapes
      BY CallsAssumption
    <3>. QED
      BY <2>1, <3>1, BeginStep
  <2>2. ASSUME NEW d \in Calls, NEW reply \in Replies,
               \/ AnswerDry(d, reply) \/ AnswerBlocks(d, reply) \/ AnswerReroutes(d, reply)
               \/ AnswerRefused(d, reply) \/ AnswerPasses(d, reply)
        PROVE  FALSE
    BY <2>2, AnswerStep
  <2>3. ASSUME NEW d \in Calls, LogRow(d)
        PROVE  FALSE
    BY <2>3, LogRowStep
  <2>4. ~(\/ Edit \/ Deliver \/ StreamChange \/ TimePasses
          \/ \E t \in Tasks : LogBatch(t))
    BY OtherStep
  <2>5. ~UNCHANGED vars
    BY DEF vars
  <2>. QED
    BY <2>1, <2>2, <2>3, <2>4, <2>5 DEF Next
<1>2. shape \in Shapes
  BY CallsAssumption
<1>3. /\ pack # None /\ Status(pack, c, shape) = "allowed"
      /\ ~Miss(pack) /\ call'[c].shape = shape
  BY <1>1, <1>2, BeginStep
<1>4. pack \in RuleSets /\ rules \in RuleSets
  BY <1>3 DEF Typed
<1>. QED
  BY <1>3, <1>4, NoMissNoHarm

\* Skipping the check on a stale stream never lets a call run that the service's
\* rules, armed differently from the pack's, would stop or reroute.
THEOREM UnverifiedAllowAlwaysTrue == Spec => UnverifiedAllowIsTrue
<1>1. IInv /\ [Next]_vars => [UnverifiedAllow]_vars
  BY UnverifiedStep
<1>. QED
  BY InitOK, StepOK, <1>1, PTL DEF Spec, UnverifiedAllowIsTrue, UnverifiedAllow
-------------------------------------------------------------------------------
(* What holds of calls, stores and rows between steps. *)

Ended == {"running", "blocked"}

\* A call's locals, by where its wrapper is.
Locals ==
  \A c \in Calls :
    /\ call[c].pc \in {"idle", "asking"} =>
         call[c].rows = 0 /\ call[c].reply = None /\ call[c].wire = Asked[c]
    /\ call[c].pc = "idle" => call[c].shape = "plain"
    /\ call[c].pc # "idle" => \E i \in 1 .. Len(checked) : checked[i] = c
    /\ call[c].local = "rerouted" => call[c].to # None

\* The stores hold reroutes that are on the wire, one entry of a kind a call;
\* a decision is there for the call's first row.
StoresTell ==
  /\ \A d \in ses.decisions :
       /\ d.outcome = "rerouted" /\ call[d.of].pc = "running" /\ call[d.of].rows = 0
       /\ call[d.of].wire = d.to /\ d.to # Asked[d.of]
  /\ \A m \in ses.markers :
       call[m.of].pc = "running" /\ call[m.of].wire = m.to /\ m.to # Asked[m.of]
  /\ \A d, e \in ses.decisions : d.of = e.of => d = e
  /\ \A m, n \in ses.markers : m.of = n.of => m = n

\* Rows are told apart by call and number; the first one took the decision.
RowsTell ==
  /\ \A row \in ses.rows :
       /\ row.call # None => call[row.call].pc \in Ended /\ row.nr < call[row.call].rows
       /\ row.decision # None =>
            /\ row.call # None /\ row.decision.of = row.call /\ row.nr = 0
            /\ IF row.decision.outcome = "blocked" THEN call[row.call].pc = "blocked"
               ELSE call[row.call].pc = "running" /\ call[row.call].wire = row.decision.to
       /\ row.marker # None => /\ call[row.marker.of].pc = "running"
                               /\ call[row.marker.of].wire = row.marker.to
  /\ \A r1, r2 \in ses.rows : r1.call = r2.call /\ r1.nr = r2.nr => r1 = r2

\* A reroute waits in both stores for its call's first row, and is on it then.
Reported ==
  \A c \in Calls :
    call[c].wire # Asked[c] /\ ~IsLate(c) /\ Cardinality(Deciders) <= Cap =>
      IF call[c].rows = 0
      THEN (\E d \in ses.decisions : d.of = c) /\ (\E m \in ses.markers : m.of = c)
      ELSE \E row \in ses.rows : /\ row.call = c /\ row.nr = 0
                                 /\ row.decision # None /\ row.marker # None

\* Observations are of calls that have been made, the check's of ended checks.
Fresh(o) == /\ call[o.of].pc # "idle"
            /\ o.by = "check" => call[o.of].pc \in Ended
ObservationsTell ==
  /\ \A o \in ses.queue : Fresh(o)
  /\ \A row \in ses.rows :
       /\ \A o \in row.observations : /\ Fresh(o) /\ o \notin ses.queue
                                      /\ o.of = row.call \/ IsLate(o.of)
  /\ \A r1, r2 \in ses.rows : r1 # r2 => r1.observations \intersect r2.observations = {}

Session == [decisions : SUBSET Decision, markers : SUBSET Marker,
            queue : SUBSET Observation, rows : SUBSET Row]

Stores == /\ ses \in Session
          /\ IsFiniteSet(ses.decisions) /\ IsFiniteSet(ses.markers)
Base == TypeOK /\ Stores
EInv == Base /\ Locals /\ StoresTell /\ RowsTell /\ Reported /\ ObservationsTell
        /\ PreviewMissesNothing

-------------------------------------------------------------------------------
(* The stores. *)

\* The entry that is dropped at the cap is one of the store's.
LEMMA OldestIsOne ==
  ASSUME NEW S, S # {}, \A e \in S : e.ts \in Nat
  PROVE  Oldest(S) \in S
<1>. DEFINE T == {e.ts : e \in S}
<1>1. T \subseteq Nat /\ T # {}
  OBVIOUS
<1>2. PICK t \in T : \A u \in T : ~(<<u, t>> \in OpToRel(<, Nat))
  BY <1>1, NatLessThanWellFounded, WFMin, Zenon
<1>3. \A u \in T : t <= u
  <2>1. ASSUME NEW u \in T, u < t
        PROVE  <<u, t>> \in OpToRel(<, Nat)
    <3>. DEFINE p == <<u, t>>
    <3>1. p \in Nat \X Nat /\ p[1] < p[2]
      BY <1>1, <2>1
    <3>. HIDE DEF p
    <3>2. p \in OpToRel(<, Nat)
      BY <3>1 DEF OpToRel
    <3>. QED
      BY <3>2 DEF p
  <2>2. \A u \in T : ~(u < t)
    BY <1>2, <2>1
  <2>3. t \in Nat /\ \A u \in T : u \in Nat
    BY <1>1
  <2>. HIDE DEF T
  <2>. QED
    BY <2>2, <2>3
<1>4. PICK e \in S : e.ts = t
  OBVIOUS
<1>5. \A d \in S : e.ts <= d.ts
  BY <1>3, <1>4
<1>. QED
  BY <1>5 DEF Oldest

\* A stash keeps the store finite and within its cap, loses live entries only
\* when the cap is exceeded, and adds nothing but the new entry.
LEMMA KeptFacts ==
  ASSUME NEW S, IsFiniteSet(S), Cardinality(S) <= Cap, NEW e,
         \A d \in S \union {e} : d.ts \in Nat
  PROVE  /\ IsFiniteSet(Kept(S, e)) /\ Cardinality(Kept(S, e)) <= Cap
         /\ Kept(S, e) \subseteq Live(S) \union {e}
         /\ Cardinality(Live(S) \union {e}) <= Cap => Kept(S, e) = Live(S) \union {e}
<1>. DEFINE L == Live(S)
            all == L \union {e}
<1>1. L \in SUBSET S
  BY DEF Live
<1>2. IsFiniteSet(L) /\ Cardinality(L) <= Cardinality(S)
  BY <1>1, FS_Subset, Zenon
<1>3. Cardinality(L) \in Nat /\ Cardinality(S) \in Nat /\ Cap \in Nat
  BY <1>2, FS_CardinalityType, CallsAssumption
<1>4. IsFiniteSet(all)
      /\ Cardinality(all) = IF e \in L THEN Cardinality(L) ELSE Cardinality(L) + 1
  BY <1>2, FS_AddElement
<1>5. Kept(S, e) = IF Cardinality(all) > Cap THEN all \ {Oldest(all)} ELSE all
  BY DEF Kept
<1>6. Oldest(all) \in all
  BY <1>1, OldestIsOne
<1>7. /\ IsFiniteSet(all \ {Oldest(all)})
      /\ Cardinality(all \ {Oldest(all)}) = Cardinality(all) - 1
  BY <1>4, <1>6, FS_RemoveElement
<1>. HIDE DEF all, L
<1>8. CASE Cardinality(all) > Cap
  BY <1>2, <1>3, <1>4, <1>5, <1>7, <1>8 DEF all, L
<1>9. CASE ~(Cardinality(all) > Cap)
  BY <1>3, <1>4, <1>5, <1>9 DEF all, L
<1>. QED
  BY <1>8, <1>9

\* A session's stores are typed, finite and within their caps.
Kind(s) == /\ s \in Session
           /\ IsFiniteSet(s.decisions) /\ Cardinality(s.decisions) <= Cap
           /\ IsFiniteSet(s.markers) /\ Cardinality(s.markers) <= Cap

\* Stashing a decision touches the decisions only.
LEMMA StashFacts ==
  ASSUME NEW s, Kind(s), NEW d \in Decision
  PROVE  /\ Kind(Stash(s, d))
         /\ Stash(s, d).decisions = Kept(s.decisions, d)
         /\ Stash(s, d).markers = s.markers /\ Stash(s, d).queue = s.queue
         /\ Stash(s, d).rows = s.rows
         /\ Kept(s.decisions, d) \subseteq Live(s.decisions) \union {d}
         /\ Cardinality(Live(s.decisions) \union {d}) <= Cap
              => Kept(s.decisions, d) = Live(s.decisions) \union {d}
<1>1. s.decisions \subseteq Decision
  BY DEF Kind, Session
<1>2. \A e \in s.decisions \union {d} : e.ts \in Nat
  BY <1>1 DEF Decision
<1>. DEFINE k == Kept(s.decisions, d)
<1>3. /\ IsFiniteSet(k) /\ Cardinality(k) <= Cap /\ k \subseteq Live(s.decisions) \union {d}
      /\ Cardinality(Live(s.decisions) \union {d}) <= Cap => k = Live(s.decisions) \union {d}
  BY <1>2, KeptFacts DEF Kind
<1>4. k \subseteq Decision
  BY <1>1, <1>3 DEF Live
<1>5. Stash(s, d) = [s EXCEPT !.decisions = k]
  BY DEF Stash, Kind, Session
<1>. HIDE DEF k
<1>6. /\ Stash(s, d) \in Session /\ Stash(s, d).decisions = k
      /\ Stash(s, d).markers = s.markers /\ Stash(s, d).queue = s.queue
      /\ Stash(s, d).rows = s.rows
  BY <1>4, <1>5 DEF Kind, Session
<1>. QED
  BY <1>3, <1>6 DEF Kind, k

\* Stashing a marker touches the markers only.
LEMMA MarkFacts ==
  ASSUME NEW s, Kind(s), NEW m \in Marker
  PROVE  /\ Kind(Mark(s, m))
         /\ Mark(s, m).markers = Kept(s.markers, m)
         /\ Mark(s, m).decisions = s.decisions /\ Mark(s, m).queue = s.queue
         /\ Mark(s, m).rows = s.rows
         /\ Kept(s.markers, m) \subseteq Live(s.markers) \union {m}
         /\ Cardinality(Live(s.markers) \union {m}) <= Cap
              => Kept(s.markers, m) = Live(s.markers) \union {m}
<1>1. s.markers \subseteq Marker
  BY DEF Kind, Session
<1>2. \A e \in s.markers \union {m} : e.ts \in Nat
  BY <1>1 DEF Marker
<1>. DEFINE k == Kept(s.markers, m)
<1>3. /\ IsFiniteSet(k) /\ Cardinality(k) <= Cap /\ k \subseteq Live(s.markers) \union {m}
      /\ Cardinality(Live(s.markers) \union {m}) <= Cap => k = Live(s.markers) \union {m}
  BY <1>2, KeptFacts DEF Kind
<1>4. k \subseteq Marker
  BY <1>1, <1>3 DEF Live
<1>5. Mark(s, m) = [s EXCEPT !.markers = k]
  BY DEF Mark, Kind, Session
<1>. HIDE DEF k
<1>6. /\ Mark(s, m) \in Session /\ Mark(s, m).markers = k
      /\ Mark(s, m).decisions = s.decisions /\ Mark(s, m).queue = s.queue
      /\ Mark(s, m).rows = s.rows
  BY <1>4, <1>5 DEF Kind, Session
<1>. QED
  BY <1>3, <1>6 DEF Kind, k

\* Observations go to the queue only.
LEMMA PushFacts ==
  ASSUME NEW s, Kind(s), NEW obs \in SUBSET Observation
  PROVE  /\ Kind(Push(s, obs))
         /\ Push(s, obs).queue = s.queue \union obs
         /\ Push(s, obs).decisions = s.decisions /\ Push(s, obs).markers = s.markers
         /\ Push(s, obs).rows = s.rows
<1>. DEFINE q == s.queue \union obs
<1>1. q \subseteq Observation
  BY DEF Kind, Session
<1>2. Push(s, obs) = [s EXCEPT !.queue = q]
  BY DEF Push, Kind, Session
<1>. HIDE DEF q
<1>3. /\ Push(s, obs) \in Session /\ Push(s, obs).queue = q
      /\ Push(s, obs).decisions = s.decisions /\ Push(s, obs).markers = s.markers
      /\ Push(s, obs).rows = s.rows
  BY <1>1, <1>2 DEF Kind, Session
<1>. QED
  BY <1>3 DEF Kind, q

\* A part of a store is finite and within the cap.
LEMMA PartFacts ==
  ASSUME NEW S, IsFiniteSet(S), Cardinality(S) <= Cap, NEW T \in SUBSET S
  PROVE  IsFiniteSet(T) /\ Cardinality(T) <= Cap
<1>1. IsFiniteSet(T) /\ Cardinality(T) <= Cardinality(S)
  BY FS_Subset, Zenon
<1>2. Cardinality(T) \in Nat /\ Cardinality(S) \in Nat /\ Cap \in Nat
  BY <1>1, FS_CardinalityType, CallsAssumption
<1>. QED
  BY <1>1, <1>2

\* A withdrawal removes the call's own entries from both stores.
LEMMA DropFacts ==
  ASSUME NEW s, Kind(s), NEW c
  PROVE  /\ Kind(Drop(s, c))
         /\ Drop(s, c).decisions = Others(s.decisions, c)
         /\ Drop(s, c).markers = Others(s.markers, c)
         /\ Drop(s, c).queue = s.queue /\ Drop(s, c).rows = s.rows
<1>. DEFINE ds == Others(s.decisions, c)
            ms == Others(s.markers, c)
<1>1. ds \in SUBSET s.decisions /\ ms \in SUBSET s.markers
  BY DEF Others
<1>2. Drop(s, c) = [s EXCEPT !.decisions = ds, !.markers = ms]
  BY DEF Drop, Kind, Session
<1>3. /\ IsFiniteSet(ds) /\ Cardinality(ds) <= Cap
      /\ IsFiniteSet(ms) /\ Cardinality(ms) <= Cap
  BY <1>1, PartFacts DEF Kind
<1>. HIDE DEF ds, ms
<1>4. /\ Drop(s, c) \in Session /\ Drop(s, c).decisions = ds /\ Drop(s, c).markers = ms
      /\ Drop(s, c).queue = s.queue /\ Drop(s, c).rows = s.rows
  BY <1>1, <1>2 DEF Kind, Session
<1>. QED
  BY <1>3, <1>4 DEF Kind, ds, ms

\* The row that a call logs, with what it takes from the stores.
RowOf(s, c) ==
  [call |-> c, nr |-> call[c].rows, decision |-> TheOne(Of(Live(s.decisions), c)),
   marker |-> TheOne(Of(Live(s.markers), c)), observations |-> Drained(s, c)]

\* TheOne takes a member where there is one.
LEMMA TheOneFacts ==
  ASSUME NEW S
  PROVE  IF S = {} THEN TheOne(S) = None ELSE TheOne(S) \in S
BY DEF TheOne

\* Logging a row: what the stores keep, and what the row says.
LEMMA LogFacts ==
  ASSUME NEW s, Kind(s), NEW c \in Calls, call[c].rows \in 0 .. MaxRows
  PROVE  /\ Kind(Log(s, c)) /\ RowOf(s, c) \in Row
         /\ Log(s, c).decisions = Others(Live(s.decisions), c)
         /\ Log(s, c).markers = Live(s.markers)
         /\ Log(s, c).queue = s.queue \ Drained(s, c)
         /\ Log(s, c).rows = s.rows \union {RowOf(s, c)}
<1>. DEFINE ds == Others(Live(s.decisions), c)
            ms == Live(s.markers)
            q  == s.queue \ Drained(s, c)
            rs == s.rows \union {RowOf(s, c)}
<1>1. ds \in SUBSET s.decisions /\ ms \in SUBSET s.markers
  BY DEF Others, Live
<1>2. /\ IsFiniteSet(ds) /\ Cardinality(ds) <= Cap
      /\ IsFiniteSet(ms) /\ Cardinality(ms) <= Cap
  BY <1>1, PartFacts DEF Kind
<1>3. RowOf(s, c) \in Row
  <2>1. TheOne(Of(Live(s.decisions), c)) \in Decision \union {None}
    BY TheOneFacts DEF Of, Live, Kind, Session
  <2>2. TheOne(Of(Live(s.markers), c)) \in Marker \union {None}
    BY TheOneFacts DEF Of, Live, Kind, Session
  <2>3. Drained(s, c) \subseteq Observation
    BY DEF Drained, Kind, Session
  <2>. QED
    BY <2>1, <2>2, <2>3 DEF RowOf, Row
<1>4. Log(s, c) = [s EXCEPT !.decisions = ds, !.markers = ms, !.queue = q, !.rows = rs]
  BY DEF Log, RowOf, Undrained, Kind, Session
<1>5. q \subseteq Observation /\ rs \subseteq Row
  BY <1>3 DEF Kind, Session
<1>. HIDE DEF ds, ms, q, rs
<1>6. /\ Log(s, c) \in Session /\ Log(s, c).decisions = ds /\ Log(s, c).markers = ms
      /\ Log(s, c).queue = q /\ Log(s, c).rows = rs
  BY <1>1, <1>4, <1>5 DEF Kind, Session
<1>. QED
  BY <1>2, <1>3, <1>6 DEF Kind, ds, ms, q, rs

\* What the row says, field by field.
LEMMA RowFacts ==
  ASSUME NEW s, NEW c
  PROVE  LET row == RowOf(s, c)
         IN  /\ row.call = c /\ row.nr = call[c].rows /\ row.observations = Drained(s, c)
             /\ row.decision # None =>
                  row.decision \in s.decisions /\ row.decision.of = c
             /\ row.marker # None => row.marker \in s.markers /\ row.marker.of = c
BY TheOneFacts DEF RowOf, Of, Live

\* A live entry of the call is found.
LEMMA RowFinds ==
  ASSUME NEW s, Kind(s), NEW c, ~IsLate(c)
  PROVE  /\ (\E d \in s.decisions : d.of = c) => RowOf(s, c).decision # None
         /\ (\E m \in s.markers : m.of = c) => RowOf(s, c).marker # None
<1>1. None \notin s.decisions /\ None \notin s.markers
  BY NoneAssumption DEF Kind, Session
<1>2. ASSUME NEW d \in s.decisions, d.of = c
      PROVE  RowOf(s, c).decision # None
  <2>1. d \in Of(Live(s.decisions), c)
    BY <1>2 DEF Of, Live
  <2>2. TheOne(Of(Live(s.decisions), c)) \in s.decisions
    BY <2>1, TheOneFacts DEF Of, Live
  <2>. QED
    BY <2>2, <1>1 DEF RowOf
<1>3. ASSUME NEW m \in s.markers, m.of = c
      PROVE  RowOf(s, c).marker # None
  <2>1. m \in Of(Live(s.markers), c)
    BY <1>3 DEF Of, Live
  <2>2. TheOne(Of(Live(s.markers), c)) \in s.markers
    BY <2>1, TheOneFacts DEF Of, Live
  <2>. QED
    BY <2>2, <1>1 DEF RowOf
<1>. QED
  BY <1>2, <1>3
-------------------------------------------------------------------------------
(* The invariant. *)

\* A set of calls that have been checked is finite.
LEMMA CheckedFinite ==
  ASSUME NEW s \in Seq(Calls), NEW D, \A c \in D : \E i \in 1 .. Len(s) : s[i] = c
  PROVE  IsFiniteSet(D)
<1>. DEFINE n == Len(s)
            R == {s[i] : i \in 1 .. n}
            f == [i \in 1 .. n |-> s[i]]
<1>1. n \in Nat
  OBVIOUS
<1>2. IsFiniteSet(1 .. n)
  BY <1>1, FS_Interval
<1>3. f \in Surjection(1 .. n, R)
  BY DEF Surjection
<1>4. IsFiniteSet(R)
  BY <1>2, <1>3, FS_Surjection
<1>5. D \in SUBSET R
  OBVIOUS
<1>. QED
  BY <1>4, <1>5, FS_Subset

\* A call that has not been checked decides nothing.
LEMMA DecidersChecked ==
  ASSUME Locals, NEW c \in Deciders
  PROVE  c \in Calls /\ call[c].pc # "idle" /\ \E i \in 1 .. Len(checked) : checked[i] = c
BY DEF Locals, Deciders

\* Deciders only grow in number, so a bound on them held before.
LEMMA FewDeciders ==
  ASSUME checked' \in Seq(Calls), Locals', Deciders \subseteq Deciders',
         Cardinality(Deciders') <= Cap
  PROVE  IsFiniteSet(Deciders') /\ Cardinality(Deciders) <= Cap
<1>1. \A c \in Deciders' : \E i \in 1 .. Len(checked') : checked'[i] = c
  BY DEF Locals, Deciders
<1>2. IsFiniteSet(Deciders')
  BY <1>1, CheckedFinite
<1>3. IsFiniteSet(Deciders) /\ Cardinality(Deciders) <= Cardinality(Deciders')
  BY <1>2, FS_Subset, Zenon
<1>4. Cardinality(Deciders) \in Nat /\ Cardinality(Deciders') \in Nat /\ Cap \in Nat
  BY <1>2, <1>3, FS_CardinalityType, CallsAssumption
<1>. QED
  BY <1>2, <1>3, <1>4

\* A store with one entry a call, all of deciders, is no larger than these.
LEMMA OneEach ==
  ASSUME NEW S, NEW D, IsFiniteSet(D), Cardinality(D) <= Cap, \A e \in S : e.of \in D,
         \A d, e \in S : d.of = e.of => d = e
  PROVE  Cardinality(S) <= Cap
<1>. DEFINE f == [e \in S |-> e.of]
<1>1. f \in Injection(S, D)
  BY DEF Injection, IsInjective
<1>2. IsFiniteSet(S) /\ Cardinality(S) <= Cardinality(D)
  BY <1>1, FS_Injection
<1>3. Cardinality(S) \in Nat /\ Cardinality(D) \in Nat /\ Cap \in Nat
  BY <1>2, FS_CardinalityType, CallsAssumption
<1>. QED
  BY <1>2, <1>3

\* Neither a new check nor anything but time makes a call late.
LEMMA LateSteady ==
  ASSUME checked \in Seq(Calls), late \in 0 .. Len(checked), late' = late, NEW c,
         \/ checked' = checked
         \/ \E d \in Calls : checked' = Append(checked, d)
  PROVE  IsLate(c)' <=> IsLate(c)
<1>1. \A i \in 1 .. late : checked'[i] = checked[i]
  OBVIOUS
<1>. QED
  BY <1>1 DEF IsLate

\* The entry into a check, and an answer that leaves the model alone: all that is
\* stored is observations of the call itself, of a sort it did not have.
LEMMA PushKeeps ==
  ASSUME EInv, NEW c \in Calls, NEW obs \in SUBSET Observation,
         call[c].pc \in {"idle", "asking"}, call'[c].pc \in {"asking", "running"},
         call[c].pc = "asking" => call'[c].pc = "running" /\ call'[c].shape = call[c].shape,
         \A d \in Calls : d # c => call'[d] = call[d],
         call'[c].rows = 0, call'[c].wire = Asked[c],
         call'[c].pc = "asking" => call'[c].reply = None,
         call'[c].local = "rerouted" => call'[c].to # None,
         \A d \in Calls :
           (\E i \in 1 .. Len(checked) : checked[i] = d)
             => \E i \in 1 .. Len(checked') : checked'[i] = d,
         \E i \in 1 .. Len(checked') : checked'[i] = c,
         \A o \in obs : o.of = c /\ (o.by = "check" => call[c].pc = "asking")
                                 /\ (o.by = "evaluator" => call[c].pc = "idle"),
         ses'.decisions = ses.decisions, ses'.markers = ses.markers,
         ses'.rows = ses.rows, ses'.queue = ses.queue \union obs,
         \A d \in Calls : IsLate(d)' <=> IsLate(d), checked' \in Seq(Calls)
  PROVE  Locals' /\ StoresTell' /\ RowsTell' /\ Reported' /\ ObservationsTell'
<1>. USE DEF EInv, Ended
<1>. ses.decisions \subseteq Decision /\ ses.markers \subseteq Marker
     /\ ses.queue \subseteq Observation /\ ses.rows \subseteq Row
  BY DEF Base, Stores, Session
<1>1. Locals'
  BY DEF Locals
<1>2. StoresTell'
  <2>1. \A d \in ses.decisions : d.of \in Calls /\ d.of # c
    BY DEF StoresTell, Decision
  <2>2. \A d \in ses.markers : d.of \in Calls /\ d.of # c
    BY DEF StoresTell, Marker
  <2>. QED
    BY <2>1, <2>2 DEF StoresTell
<1>3. \A row \in ses.rows :
        /\ row.call # None => row.call \in Calls /\ row.call # c
        /\ row.marker # None => row.marker.of \in Calls /\ row.marker.of # c
        /\ row.observations \subseteq Observation
  BY DEF RowsTell, Row, Marker
<1>4. RowsTell'
  BY <1>3 DEF RowsTell
<1>5. Deciders \subseteq Deciders'
  BY DEF Deciders, Locals
<1>6. Reported'
  <2>. SUFFICES ASSUME NEW d \in Calls, call'[d].wire # Asked[d], ~IsLate(d)',
                       Cardinality(Deciders') <= Cap
       PROVE  (IF call[d].rows = 0
               THEN (\E e \in ses.decisions : e.of = d) /\ (\E m \in ses.markers : m.of = d)
               ELSE \E row \in ses.rows : /\ row.call = d /\ row.nr = 0
                                          /\ row.decision # None /\ row.marker # None)
              /\ call'[d].rows = call[d].rows
    BY DEF Reported
  <2>1. d # c /\ call'[d] = call[d] /\ ~IsLate(d)
    OBVIOUS
  <2>2. Cardinality(Deciders) <= Cap
    BY <1>1, <1>5, FewDeciders
  <2>. QED
    BY <2>1, <2>2 DEF Reported
<1>7. \A o \in Observation : Fresh(o) => Fresh(o)' /\ o \notin obs
  BY DEF Fresh, Observation
<1>8. \A o \in obs : Fresh(o)'
  BY DEF Fresh, Observation
<1>9. ObservationsTell'
  <2>1. \A o \in Observation : IsLate(o.of) => IsLate(o.of)'
    BY DEF Observation
  <2>. QED
    BY <1>3, <1>7, <1>8, <2>1 DEF ObservationsTell
<1>. QED
  BY <1>1, <1>2, <1>4, <1>6, <1>9
\* A logged row keeps all that is told: it takes the call's decision and the
\* observations it is owed, and reads the call's marker.
LEMMA RowKeeps ==
  ASSUME EInv, NEW c \in Calls, NEW row,
         call[c].pc \in {"asking", "running"}, call'[c].pc \in Ended,
         call[c].pc = "running" => call'[c].pc = "running",
         call'[c].wire = call[c].wire, call'[c].shape = call[c].shape,
         call'[c].local = call[c].local, call'[c].to = call[c].to,
         call[c].rows \in Nat, call'[c].rows = call[c].rows + 1,
         \A d \in Calls : d # c => call'[d] = call[d],
         checked' = checked, late' = late,
         ses'.decisions \subseteq ses.decisions, \A d \in ses'.decisions : d.of # c,
         Cardinality(Deciders') <= Cap =>
           \A d \in ses.decisions : d.of # c /\ ~IsLate(d.of) => d \in ses'.decisions,
         ses'.markers = Live(ses.markers), ses'.queue = ses.queue \ Drained(ses, c),
         ses'.rows = ses.rows \union {row},
         row.call = c, row.nr = call[c].rows, row.observations = Drained(ses, c),
         row.decision # None =>
           /\ row.decision.of = c /\ call[c].rows = 0
           /\ IF row.decision.outcome = "blocked" THEN call'[c].pc = "blocked"
              ELSE call'[c].pc = "running" /\ call'[c].wire = row.decision.to,
         row.marker # None =>
           row.marker.of = c /\ call'[c].pc = "running" /\ call[c].wire = row.marker.to,
         call[c].wire # Asked[c] /\ ~IsLate(c) /\ Cardinality(Deciders) <= Cap
           /\ call[c].rows = 0
           => row.decision # None /\ row.marker # None
  PROVE  Locals' /\ StoresTell' /\ RowsTell' /\ Reported' /\ ObservationsTell'
<1>. USE DEF EInv, Ended
<1>0. /\ ses.decisions \subseteq Decision /\ ses.markers \subseteq Marker
      /\ ses.queue \subseteq Observation /\ ses.rows \subseteq Row
      /\ checked \in Seq(Calls) /\ \A d \in Calls : call[d].rows \in Nat
  BY DEF Base, Stores, Session, TypeOK, Call
<1>1. Locals'
  BY DEF Locals
<1>2. StoresTell'
  <2>1. \A d \in ses.decisions : d.of \in Calls
    BY <1>0 DEF Decision
  <2>2. \A m \in ses.markers : m.of \in Calls
    BY <1>0 DEF Marker
  <2>3. \A d \in Calls : call[d].pc = "running" =>
          call'[d].pc = "running" /\ call'[d].wire = call[d].wire
    OBVIOUS
  <2>4. \A d \in ses'.decisions : call'[d.of].rows = call[d.of].rows
    BY <2>1
  <2>5. ses'.markers \subseteq ses.markers
    BY DEF Live
  <2>. QED
    BY <2>1, <2>2, <2>3, <2>4, <2>5 DEF StoresTell
<1>3. \A r \in ses.rows :
        /\ r.call # None => r.call \in Calls
        /\ r.marker # None => r.marker.of \in Calls
        /\ r.observations \subseteq Observation /\ r.nr \in Nat
  BY <1>0 DEF Row, Marker
<1>4. RowsTell'
  <2>. DEFINE Fine(r) ==
         /\ r.call # None => call'[r.call].pc \in Ended /\ r.nr < call'[r.call].rows
         /\ r.decision # None =>
              /\ r.call # None /\ r.decision.of = r.call /\ r.nr = 0
              /\ IF r.decision.outcome = "blocked" THEN call'[r.call].pc = "blocked"
                 ELSE call'[r.call].pc = "running" /\ call'[r.call].wire = r.decision.to
         /\ r.marker # None => /\ call'[r.marker.of].pc = "running"
                               /\ call'[r.marker.of].wire = r.marker.to
  <2>1. ASSUME NEW r \in ses.rows
        PROVE  Fine(r)
    <3>1. r.call = c => call[c].pc = "running" /\ r.nr < call[c].rows
      BY CallsAssumption DEF RowsTell, Locals
    <3>2. r.call # None => call'[r.call].pc \in Ended /\ r.nr < call'[r.call].rows
      BY <3>1, <1>0, <1>3 DEF RowsTell
    <3>3. r.marker # None => /\ call'[r.marker.of].pc = "running"
                             /\ call'[r.marker.of].wire = r.marker.to
      BY <1>3 DEF RowsTell
    <3>4. r.decision # None =>
              /\ r.call # None /\ r.decision.of = r.call /\ r.nr = 0
              /\ IF r.decision.outcome = "blocked" THEN call'[r.call].pc = "blocked"
                 ELSE call'[r.call].pc = "running" /\ call'[r.call].wire = r.decision.to
      BY <3>1, <1>3 DEF RowsTell
    <3>. QED
      BY <3>2, <3>3, <3>4
  <2>2. Fine(row)
    BY CallsAssumption
  <2>3. \A r \in ses.rows : ~(r.call = row.call /\ r.nr = row.nr)
    BY CallsAssumption, <1>3 DEF RowsTell
  <2>4. \A r1, r2 \in ses'.rows : r1.call = r2.call /\ r1.nr = r2.nr => r1 = r2
    BY <2>3 DEF RowsTell
  <2>. HIDE DEF Fine
  <2>5. \A r \in ses'.rows : Fine(r)
    BY <2>1, <2>2
  <2>. QED
    BY <2>4, <2>5 DEF RowsTell, Fine
<1>5. Deciders \subseteq Deciders'
  BY DEF Deciders, Locals
<1>6. \A d : IsLate(d)' <=> IsLate(d)
  BY DEF IsLate
<1>7. Reported'
  <2>. SUFFICES ASSUME NEW d \in Calls, call'[d].wire # Asked[d], ~IsLate(d),
                       Cardinality(Deciders') <= Cap
       PROVE  IF call'[d].rows = 0
              THEN (\E e \in ses'.decisions : e.of = d) /\ (\E m \in ses'.markers : m.of = d)
              ELSE \E r \in ses'.rows : /\ r.call = d /\ r.nr = 0
                                        /\ r.decision # None /\ r.marker # None
    BY <1>6 DEF Reported
  <2>1. Cardinality(Deciders) <= Cap
    BY <1>0, <1>1, <1>5, FewDeciders
  <2>2. call[d].wire # Asked[d]
    OBVIOUS
  <2>3. CASE d = c
    <3>1. call'[c].rows # 0
      OBVIOUS
    <3>2. CASE call[c].rows = 0
      BY <3>1, <3>2, <2>1, <2>2, <2>3
    <3>3. CASE call[c].rows # 0
      BY <3>1, <3>3, <2>1, <2>2, <2>3 DEF Reported
    <3>. QED
      BY <3>2, <3>3
  <2>4. CASE d # c
    <3>1. \A m \in ses.markers : m.of = d => m \in ses'.markers
      BY DEF Live
    <3>. QED
      BY <2>1, <2>2, <2>4, <3>1 DEF Reported
  <2>. QED
    BY <2>3, <2>4
<1>8. \A o \in Observation : Fresh(o) => Fresh(o)'
  BY DEF Fresh, Observation
<1>9. ObservationsTell'
  <2>1. \A o \in Drained(ses, c) : o \in ses.queue /\ (o.of = c \/ IsLate(o.of))
    BY DEF Drained
  <2>2. \A o \in ses'.queue : Fresh(o)'
    BY <1>0, <1>8 DEF ObservationsTell
  <2>3. ASSUME NEW r \in ses'.rows, NEW o \in r.observations
        PROVE  Fresh(o)' /\ o \notin ses'.queue /\ (o.of = r.call \/ IsLate(o.of)')
    <3>1. CASE r \in ses.rows
      BY <3>1, <2>3, <1>3, <1>6, <1>8 DEF ObservationsTell
    <3>2. CASE r = row
      BY <3>2, <2>1, <2>3, <1>0, <1>6, <1>8 DEF ObservationsTell
    <3>. QED
      BY <3>1, <3>2
  <2>4. \A r \in ses.rows : r.observations \intersect row.observations = {}
    BY <2>1 DEF ObservationsTell
  <2>5. \A r1, r2 \in ses'.rows : r1 # r2 => r1.observations \intersect r2.observations = {}
    BY <2>4 DEF ObservationsTell
  <2>. QED
    BY <2>2, <2>3, <2>5 DEF ObservationsTell
<1>. QED
  BY <1>1, <1>2, <1>4, <1>7, <1>9

\* A reroute that is applied is in both stores, or in neither when it is
\* withdrawn; nobody else's entry is lost while the stores have room.
LEMMA RerouteKeeps ==
  ASSUME EInv, NEW c \in Calls, NEW to \in Models, to # Asked[c],
         call[c].pc = "asking", call'[c].pc = "running",
         call'[c].wire \in {to, Asked[c]}, call'[c].shape = call[c].shape,
         call'[c].wire = Asked[c] => call[c].shape = "manager",
         call'[c].local = call[c].local, call'[c].to = call[c].to,
         call'[c].rows = 0, \A d \in Calls : d # c => call'[d] = call[d],
         checked' = checked, late' = late,
         NEW new \in Decision, new.of = c, new.to = to, new.outcome = "rerouted",
         NEW mark \in Marker, mark.of = c, mark.to = to,
         ses'.queue = ses.queue, ses'.rows = ses.rows,
         \A d \in ses'.decisions :
           d \in ses.decisions \/ (d = new /\ call'[c].wire = to),
         \A m \in ses'.markers :
           m \in ses.markers \/ (m = mark /\ call'[c].wire = to),
         Cardinality(Live(ses.decisions) \union {new}) <= Cap =>
           /\ \A d \in ses.decisions : d.of # c /\ ~IsLate(d.of) => d \in ses'.decisions
           /\ call'[c].wire = to => new \in ses'.decisions,
         Cardinality(Live(ses.markers) \union {mark}) <= Cap =>
           /\ \A m \in ses.markers : m.of # c /\ ~IsLate(m.of) => m \in ses'.markers
           /\ call'[c].wire = to => mark \in ses'.markers
  PROVE  Locals' /\ StoresTell' /\ RowsTell' /\ Reported' /\ ObservationsTell'
<1>. USE DEF EInv, Ended
<1>0. /\ ses.decisions \subseteq Decision /\ ses.markers \subseteq Marker
      /\ ses.queue \subseteq Observation /\ ses.rows \subseteq Row
      /\ checked \in Seq(Calls) /\ \A d \in Calls : call[d].rows \in Nat
  BY DEF Base, Stores, Session, TypeOK, Call
<1>1. Locals'
  BY DEF Locals
<1>a. /\ \A d \in ses.decisions : d.of \in Calls /\ d.of # c
      /\ \A m \in ses.markers : m.of \in Calls /\ m.of # c
  BY <1>0 DEF StoresTell, Decision, Marker
<1>2. StoresTell'
  <2>1. \A d \in ses'.decisions :
          /\ d.outcome = "rerouted" /\ call'[d.of].pc = "running" /\ call'[d.of].rows = 0
          /\ call'[d.of].wire = d.to /\ d.to # Asked[d.of]
    BY <1>a DEF StoresTell
  <2>2. \A m \in ses'.markers :
          call'[m.of].pc = "running" /\ call'[m.of].wire = m.to /\ m.to # Asked[m.of]
    BY <1>a DEF StoresTell
  <2>3. \A d, e \in ses'.decisions : d.of = e.of => d = e
    BY <1>a DEF StoresTell
  <2>4. \A m, n \in ses'.markers : m.of = n.of => m = n
    BY <1>a DEF StoresTell
  <2>. QED
    BY <2>1, <2>2, <2>3, <2>4 DEF StoresTell
<1>3. \A r \in ses.rows :
        /\ r.call # None => r.call \in Calls /\ r.call # c
        /\ r.marker # None => r.marker.of \in Calls /\ r.marker.of # c
        /\ r.observations \subseteq Observation
  BY <1>0 DEF Row, Marker, RowsTell
<1>4. RowsTell'
  BY <1>3 DEF RowsTell
<1>5. Deciders \subseteq Deciders'
  BY DEF Deciders, Locals
<1>6. \A d : IsLate(d)' <=> IsLate(d)
  BY DEF IsLate
<1>7. Reported'
  <2>. SUFFICES ASSUME NEW d \in Calls, call'[d].wire # Asked[d], ~IsLate(d),
                       Cardinality(Deciders') <= Cap
       PROVE  IF call'[d].rows = 0
              THEN (\E e \in ses'.decisions : e.of = d) /\ (\E m \in ses'.markers : m.of = d)
              ELSE \E r \in ses'.rows : /\ r.call = d /\ r.nr = 0
                                        /\ r.decision # None /\ r.marker # None
    BY <1>6 DEF Reported
  <2>1. IsFiniteSet(Deciders') /\ Cardinality(Deciders) <= Cap
    BY <1>0, <1>1, <1>5, FewDeciders
  <2>2. c \in Deciders'
    BY DEF Deciders
  <2>3. Cardinality(Live(ses.decisions) \union {new}) <= Cap
    <3>. DEFINE S == Live(ses.decisions) \union {new}
    <3>1. \A e \in S : e.of \in Deciders'
      BY <1>a, <1>5, <2>2 DEF Live, StoresTell, Deciders
    <3>2. \A e, f \in S : e.of = f.of => e = f
      BY <1>a DEF Live, StoresTell
    <3>. QED
      BY <2>1, <3>1, <3>2, OneEach
  <2>4. Cardinality(Live(ses.markers) \union {mark}) <= Cap
    <3>. DEFINE S == Live(ses.markers) \union {mark}
    <3>1. \A e \in S : e.of \in Deciders'
      BY <1>a, <1>5, <2>2 DEF Live, StoresTell, Deciders
    <3>2. \A e, f \in S : e.of = f.of => e = f
      BY <1>a DEF Live, StoresTell
    <3>. QED
      BY <2>1, <3>1, <3>2, OneEach
  <2>5. CASE d = c
    BY <2>3, <2>4, <2>5
  <2>6. CASE d # c
    <3>1. call'[d] = call[d] /\ call[d].wire # Asked[d]
      BY <2>6
    <3>2. CASE call[d].rows = 0
      BY <2>1, <2>3, <2>4, <2>6, <3>1, <3>2 DEF Reported
    <3>3. CASE call[d].rows # 0
      BY <2>1, <3>1, <3>3 DEF Reported
    <3>. QED
      BY <3>1, <3>2, <3>3
  <2>. QED
    BY <2>5, <2>6
<1>8. \A o \in Observation : Fresh(o) => Fresh(o)'
  BY DEF Fresh, Observation
<1>9. ObservationsTell'
  BY <1>0, <1>3, <1>6, <1>8 DEF ObservationsTell
<1>. QED
  BY <1>1, <1>2, <1>4, <1>7, <1>9
\* The 300 s after a check: more is late, nothing is forgotten.
LEMMA TimeKeeps ==
  ASSUME EInv, checked' = checked, late' = late + 1, UNCHANGED <<call, ses>>
  PROVE  Locals' /\ StoresTell' /\ RowsTell' /\ Reported' /\ ObservationsTell'
<1>. USE DEF EInv, Ended
<1>1. late \in Nat
  BY DEF Base, TypeOK
<1>2. \A d : IsLate(d) => IsLate(d)'
  BY <1>1 DEF IsLate
<1>3. Locals' /\ StoresTell' /\ RowsTell'
  BY DEF Locals, StoresTell, RowsTell
<1>4. Deciders' = Deciders
  BY DEF Deciders
<1>5. Reported'
  BY <1>2, <1>4 DEF Reported
<1>6. \A o : Fresh(o)' <=> Fresh(o)
  BY DEF Fresh
<1>7. ObservationsTell'
  BY <1>2, <1>6 DEF ObservationsTell
<1>. QED
  BY <1>3, <1>5, <1>7

\* A batch result's row takes nothing and reads a marker.
LEMMA BatchKeeps ==
  ASSUME EInv, NEW t \in Tasks, LogBatch(t)
  PROVE  Locals' /\ StoresTell' /\ RowsTell' /\ Reported' /\ ObservationsTell'
<1>. USE DEF EInv, Ended
<1>. DEFINE ms  == Live(ses.markers)
            row == [call |-> None, nr |-> 0, decision |-> None,
                    marker |-> TheOne(Of(ms, key[t])), observations |-> {}]
            rs  == ses.rows \union {row}
<1>1. ses' = [ses EXCEPT !.markers = ms, !.rows = rs]
  BY DEF LogBatch, Base, Stores, Session
<1>2. /\ \A r \in ses.rows : r.call # None
      /\ UNCHANGED <<call, checked, late>>
  BY DEF LogBatch
<1>3. ms \subseteq ses.markers /\ \A m \in ses.markers : ~IsLate(m.of) => m \in ms
  BY DEF Live
<1>4. /\ row.call = None /\ row.decision = None /\ row.observations = {}
      /\ row.marker # None => row.marker \in ses.markers
  BY <1>3, TheOneFacts DEF Of
<1>. HIDE DEF ms, row
<1>5. /\ ses'.decisions = ses.decisions /\ ses'.markers = ms /\ ses'.queue = ses.queue
      /\ ses'.rows = rs
  BY <1>1 DEF Base, Stores, Session
<1>6. Locals'
  BY <1>2 DEF Locals
<1>7. StoresTell'
  BY <1>2, <1>3, <1>5 DEF StoresTell
<1>8. RowsTell'
  <2>1. \A r \in rs : r \in ses.rows \/ r = row
    OBVIOUS
  <2>2. row.marker # None => /\ call[row.marker.of].pc = "running"
                             /\ call[row.marker.of].wire = row.marker.to
    BY <1>4 DEF StoresTell
  <2>3. \A r1, r2 \in rs : r1.call = r2.call /\ r1.nr = r2.nr => r1 = r2
    BY <1>2, <1>4, <2>1 DEF RowsTell
  <2>4. \A r \in ses'.rows : r \in ses.rows \/ r = row
    BY <1>5, <2>1
  <2>. HIDE DEF rs
  <2>5. \A r \in ses'.rows :
       /\ r.call # None => call'[r.call].pc \in Ended /\ r.nr < call'[r.call].rows
       /\ r.decision # None =>
            /\ r.call # None /\ r.decision.of = r.call /\ r.nr = 0
            /\ IF r.decision.outcome = "blocked" THEN call'[r.call].pc = "blocked"
               ELSE call'[r.call].pc = "running" /\ call'[r.call].wire = r.decision.to
       /\ r.marker # None => /\ call'[r.marker.of].pc = "running"
                             /\ call'[r.marker.of].wire = r.marker.to
    BY <1>2, <1>4, <2>2, <2>4 DEF RowsTell
  <2>. QED
    BY <1>5, <2>3, <2>5 DEF RowsTell
<1>9. Deciders' = Deciders /\ \A d : IsLate(d)' <=> IsLate(d)
  BY <1>2 DEF Deciders, IsLate
<1>10. Reported'
  <2>. SUFFICES ASSUME NEW d \in Calls, call[d].wire # Asked[d], ~IsLate(d),
                       Cardinality(Deciders) <= Cap
       PROVE  IF call[d].rows = 0
              THEN (\E e \in ses'.decisions : e.of = d) /\ (\E m \in ses'.markers : m.of = d)
              ELSE \E r \in ses'.rows : /\ r.call = d /\ r.nr = 0
                                        /\ r.decision # None /\ r.marker # None
    BY <1>2, <1>9 DEF Reported
  <2>1. ses.rows \subseteq ses'.rows
    BY <1>5
  <2>. HIDE DEF rs
  <2>. QED
    BY <1>3, <1>5, <2>1 DEF Reported
<1>11. \A o : Fresh(o)' <=> Fresh(o)
  BY <1>2 DEF Fresh
<1>12. ObservationsTell'
  BY <1>2, <1>4, <1>5, <1>9, <1>11 DEF ObservationsTell
<1>. QED
  BY <1>6, <1>7, <1>8, <1>10, <1>12

\* The service's steps, and doing nothing, leave calls and stores alone.
LEMMA IdleKeeps ==
  ASSUME EInv, UNCHANGED <<firewall, checked, late, call, ses>>
  PROVE  /\ Locals' /\ StoresTell' /\ RowsTell' /\ Reported' /\ ObservationsTell'
         /\ PreviewMissesNothing'
<1>. USE DEF EInv, Ended
<1>1. Locals' /\ StoresTell' /\ RowsTell' /\ ObservationsTell'
  BY DEF Locals, StoresTell, RowsTell, ObservationsTell, Fresh, IsLate
<1>2. Deciders' = Deciders /\ \A d : IsLate(d)' <=> IsLate(d)
  BY DEF Deciders, IsLate
<1>3. Reported'
  BY <1>2 DEF Reported
<1>4. PreviewMissesNothing'
  BY DEF PreviewMissesNothing, Fits
<1>. QED
  BY <1>1, <1>3, <1>4

-------------------------------------------------------------------------------
(* The steps. *)

\* The end of a check, in full.
LEMMA SettleEffect ==
  ASSUME TypeOK, NEW c \in Calls, NEW pc \in Ended, NEW reply \in Replies,
         NEW wire \in Models, Settle(c, pc, reply, wire)
  PROVE  /\ call' \in [Calls -> Call] /\ UNCHANGED <<firewall, service, key, checked, late>>
         /\ \A d \in Calls : d # c => call'[d] = call[d]
         /\ call'[c].pc = pc /\ call'[c].reply = reply /\ call'[c].wire = wire
         /\ call'[c].rows = IF pc = "blocked" THEN 1 ELSE 0
         /\ call'[c].shape = call[c].shape /\ call'[c].local = call[c].local
         /\ call'[c].to = call[c].to
<1>. USE DEF Ended
<1>. DEFINE rows == IF pc = "blocked" THEN 1 ELSE 0
            me   == [call[c] EXCEPT !.pc = pc, !.reply = reply, !.wire = wire, !.rows = rows]
<1>1. call' = [call EXCEPT ![c] = me]
  BY DEF Settle, TypeOK
<1>2. rows \in 0 .. MaxRows
  BY CallsAssumption
<1>3. reply \in Reply
  BY RepliesTyped DEF TypeOK
<1>4. call[c] \in Call
  BY DEF TypeOK
<1>. HIDE DEF rows
<1>5. /\ me \in Call /\ me.pc = pc /\ me.reply = reply /\ me.wire = wire /\ me.rows = rows
      /\ me.shape = call[c].shape /\ me.local = call[c].local /\ me.to = call[c].to
  BY <1>2, <1>3, <1>4 DEF Call
<1>. HIDE DEF me
<1>6. call' \in [Calls -> Call] /\ call'[c] = me
      /\ \A d \in Calls : d # c => call'[d] = call[d]
  BY <1>1, <1>5 DEF TypeOK
<1>7. UNCHANGED <<firewall, service, key, checked, late>>
  BY DEF Settle
<1>. QED
  BY <1>5, <1>6, <1>7 DEF rows

\* The entry of a check, in full.
LEMMA BeginEffect ==
  ASSUME TypeOK, NEW c \in Calls, NEW shape \in Shapes, Begin(c, shape)
  PROVE  /\ call' \in [Calls -> Call] /\ UNCHANGED <<firewall, service, late>>
         /\ key' \in [Tasks -> Calls \union {None}] /\ checked' = Append(checked, c)
         /\ \A d \in Calls : d # c => call'[d] = call[d]
         /\ call[c].pc = "idle" /\ call'[c].pc \in {"asking", "running"}
         /\ call'[c].reply = call[c].reply /\ call'[c].wire = call[c].wire
         /\ call'[c].rows = call[c].rows
         /\ call'[c].local = "rerouted" => call'[c].to # None
<1>. DEFINE local == IF pack = None THEN None ELSE Status(pack, c, shape)
            asks  == local # "allowed" \/ (Miss(pack) /\ stream = "stale")
            pc    == IF asks THEN "asking" ELSE "running"
            to    == IF local = "rerouted" THEN pack.to ELSE None
            me    == [call[c] EXCEPT !.pc = pc, !.shape = shape, !.local = local, !.to = to]
<1>1. call' = [call EXCEPT ![c] = me]
  BY DEF Begin, TypeOK
<1>2. local \in Statuses \union {None}
  BY StatusTyped DEF TypeOK
<1>3. to \in Models \union {None} /\ (local = "rerouted" => to # None)
  <2>1. CASE pack = None
    BY <2>1, CallsAssumption DEF Statuses
  <2>2. CASE pack # None
    <3>1. pack.to \in Models
      BY <2>2 DEF TypeOK, RuleSets
    <3>. QED
      BY <3>1, CallsAssumption
  <2>. QED
    BY <2>1, <2>2
<1>4. pc \in {"asking", "running"}
  OBVIOUS
<1>. HIDE DEF pc, asks, local, to
<1>5. call[c] \in Call
  BY DEF TypeOK
<1>6. /\ me \in Call /\ me.pc = pc /\ me.reply = call[c].reply /\ me.wire = call[c].wire
      /\ me.rows = call[c].rows /\ me.local = local /\ me.to = to
  BY <1>2, <1>3, <1>4, <1>5 DEF Call
<1>. HIDE DEF me
<1>7. call' \in [Calls -> Call] /\ call'[c] = me
      /\ \A d \in Calls : d # c => call'[d] = call[d]
  BY <1>1, <1>6 DEF TypeOK
<1>8. /\ UNCHANGED <<firewall, service, late>> /\ checked' = Append(checked, c)
      /\ call[c].pc = "idle" /\ key' = [key EXCEPT ![Task[c]] = c]
  BY DEF Begin
<1>9. key' \in [Tasks -> Calls \union {None}]
  BY <1>8 DEF TypeOK
<1>. QED
  BY <1>3, <1>4, <1>6, <1>7, <1>8, <1>9

\* A row of a running call, in full.
LEMMA LogRowEffect ==
  ASSUME TypeOK, NEW c \in Calls, LogRow(c)
  PROVE  /\ call' \in [Calls -> Call] /\ UNCHANGED <<firewall, service, key, checked, late>>
         /\ \A d \in Calls : d # c => call'[d] = call[d]
         /\ call[c].pc = "running" /\ call'[c].pc = "running"
         /\ call'[c].reply = call[c].reply /\ call'[c].wire = call[c].wire
         /\ call'[c].shape = call[c].shape /\ call'[c].local = call[c].local
         /\ call'[c].to = call[c].to /\ call'[c].rows = call[c].rows + 1
<1>. DEFINE rows == call[c].rows + 1
            me   == [call[c] EXCEPT !.rows = rows]
<1>1. call' = [call EXCEPT ![c] = me]
  BY DEF LogRow, TypeOK
<1>2. call[c] \in Call
  BY DEF TypeOK
<1>3. rows \in 0 .. MaxRows
  <2>1. call[c].rows \in 0 .. MaxRows /\ call[c].rows < MaxRows
    BY <1>2 DEF LogRow, Call
  <2>. QED
    BY <2>1, CallsAssumption
<1>. HIDE DEF rows
<1>4. /\ me \in Call /\ me.pc = call[c].pc /\ me.reply = call[c].reply
      /\ me.wire = call[c].wire /\ me.rows = rows /\ me.shape = call[c].shape
      /\ me.local = call[c].local /\ me.to = call[c].to
  BY <1>2, <1>3 DEF Call
<1>. HIDE DEF me
<1>5. call' \in [Calls -> Call] /\ call'[c] = me
      /\ \A d \in Calls : d # c => call'[d] = call[d]
  BY <1>1, <1>4 DEF TypeOK
<1>6. UNCHANGED <<firewall, service, key, checked, late>> /\ call[c].pc = "running"
  BY DEF LogRow
<1>. QED
  BY <1>4, <1>5, <1>6 DEF rows

\* A preview once pushed stays, queued or on a row.
LEMMA PreviewKeeps ==
  ASSUME PreviewMissesNothing, firewall' = firewall, NEW c \in Calls,
         \A d \in Calls : d # c => call'[d] = call[d],
         ses.queue \union UNION {row.observations : row \in ses.rows}
           \subseteq ses'.queue \union UNION {row.observations : row \in ses'.rows},
         \/ call'[c].reply = None
         \/ /\ call'[c].reply = call[c].reply /\ call'[c].shape = call[c].shape
            /\ call'[c].local = call[c].local /\ call'[c].to = call[c].to
         \/ \E o \in ses'.queue : o.of = c /\ o.outcome = "would_reroute"
         \/ firewall = "enforce"
         \/ Reroute(call'[c], call'[c].reply) \in {None, Asked[c]}
  PROVE  PreviewMissesNothing'
<1>. SUFFICES ASSUME NEW d \in Calls, firewall = "dry_run", call'[d].reply # None, Fits(d)',
                     ~Stops(call'[d], call'[d].reply),
                     Reroute(call'[d], call'[d].reply) \notin {None, Asked[d]}
     PROVE  \E o \in ses'.queue \union UNION {row.observations : row \in ses'.rows} :
               o.of = d /\ o.outcome = "would_reroute"
  BY DEF PreviewMissesNothing
<1>1. CASE call'[d] = call[d]
  <2>1. Fits(d)
    BY <1>1 DEF Fits
  <2>. QED
    BY <1>1, <2>1 DEF PreviewMissesNothing
<1>2. CASE d = c
  <2>1. CASE \E o \in ses'.queue : o.of = c /\ o.outcome = "would_reroute"
    BY <1>2, <2>1
  <2>2. CASE /\ call'[c].reply = call[c].reply /\ call'[c].shape = call[c].shape
             /\ call'[c].local = call[c].local /\ call'[c].to = call[c].to
    <3>1. Fits(c) /\ ~Stops(call[c], call[c].reply)
      BY <1>2, <2>2 DEF Fits, Stops
    <3>2. Reroute(call[c], call[c].reply) = Reroute(call'[c], call'[c].reply)
      BY <2>2 DEF Reroute, CanReroute
    <3>. QED
      BY <1>2, <2>2, <3>1, <3>2 DEF PreviewMissesNothing
  <2>. QED
    BY <1>2, <2>1, <2>2
<1>. QED
  BY <1>1, <1>2
\* Types, put together from a step's effects.
LEMMA Typing ==
  ASSUME TypeOK, Kind(ses'), call' \in [Calls -> Call],
         UNCHANGED <<firewall, service>>, key' \in [Tasks -> Calls \union {None}],
         checked' \in Seq(Calls), late' \in 0 .. Len(checked')
  PROVE  Base'
<1>1. Stores'
  BY DEF Stores, Kind
<1>2. TypeOK'
  BY DEF TypeOK, Kind, Session, service
<1>. QED
  BY <1>1, <1>2 DEF Base

LEMMA BaseKind ==
  ASSUME Base
  PROVE  Kind(ses)
BY DEF Base, TypeOK, Stores, Kind

\* A check begins.
LEMMA BeginOK ==
  ASSUME EInv, NEW c \in Calls, NEW shape \in Shapes, Begin(c, shape)
  PROVE  EInv'
<1>. USE DEF EInv
<1>1. TypeOK /\ Kind(ses) /\ checked \in Seq(Calls) /\ late \in 0 .. Len(checked)
  BY BaseKind DEF Base, TypeOK
<1>2. /\ call' \in [Calls -> Call] /\ UNCHANGED <<firewall, service, late>>
      /\ key' \in [Tasks -> Calls \union {None}] /\ checked' = Append(checked, c)
      /\ \A d \in Calls : d # c => call'[d] = call[d]
      /\ call[c].pc = "idle" /\ call'[c].pc \in {"asking", "running"}
      /\ call'[c].reply = call[c].reply /\ call'[c].wire = call[c].wire
      /\ call'[c].rows = call[c].rows
      /\ call'[c].local = "rerouted" => call'[c].to # None
  BY <1>1, BeginEffect
<1>. DEFINE obs == IF pack = None THEN {} ELSE Refusals(pack, c, shape)
<1>3. obs \in SUBSET Observation
      /\ \A o \in obs : o.of = c /\ o.by = "evaluator"
  BY DEF Refusals, Observation
<1>4. /\ Kind(ses') /\ ses'.queue = ses.queue \union obs
      /\ ses'.decisions = ses.decisions /\ ses'.markers = ses.markers
      /\ ses'.rows = ses.rows
  <2>1. CASE pack = None
    BY <1>1, <2>1 DEF Begin
  <2>2. CASE pack # None
    <3>1. ses' = Push(ses, obs)
      BY <2>2 DEF Begin
    <3>. HIDE DEF obs
    <3>. QED
      BY <1>1, <1>3, <3>1, PushFacts
  <2>. QED
    BY <2>1, <2>2
<1>. HIDE DEF obs
<1>5. /\ checked' \in Seq(Calls) /\ Len(checked') = Len(checked) + 1
      /\ checked'[Len(checked) + 1] = c
      /\ \A i \in 1 .. Len(checked) : checked'[i] = checked[i]
  BY <1>1, <1>2
<1>6. late' \in 0 .. Len(checked')
  BY <1>1, <1>2, <1>5
<1>7. Base'
  BY <1>1, <1>2, <1>4, <1>5, <1>6, Typing
<1>8. \A d \in Calls : IsLate(d)' <=> IsLate(d)
  BY <1>1, <1>2, LateSteady
<1>9. /\ \E i \in 1 .. Len(checked') : checked'[i] = c
      /\ \A d \in Calls : (\E i \in 1 .. Len(checked) : checked[i] = d)
             => \E i \in 1 .. Len(checked') : checked'[i] = d
  <2>1. /\ Len(checked) \in Nat /\ Len(checked) + 1 \in 1 .. Len(checked')
        /\ 1 .. Len(checked) \subseteq 1 .. Len(checked')
    BY <1>1, <1>5
  <2>. QED
    BY <1>5, <2>1
<1>10. call'[c].rows = 0 /\ call'[c].wire = Asked[c] /\ call'[c].reply = None
  BY <1>2 DEF Locals
<1>11. Locals' /\ StoresTell' /\ RowsTell' /\ Reported' /\ ObservationsTell'
  BY <1>2, <1>3, <1>4, <1>5, <1>8, <1>9, <1>10, PushKeeps
<1>12. PreviewMissesNothing'
  BY <1>2, <1>4, <1>10, PreviewKeeps
<1>. QED
  BY <1>7, <1>11, <1>12

\* A check that leaves the model alone ends: with an observation or without.
LEMMA QuietAnswerOK ==
  ASSUME EInv, NEW c \in Calls, NEW reply \in Replies, call[c].pc = "asking",
         Settle(c, "running", reply, Asked[c]), NEW obs \in SUBSET Observation,
         ses' = Push(ses, obs) \/ (obs = {} /\ ses' = ses),
         \A o \in obs : o.of = c /\ o.by = "check",
         \/ firewall = "enforce"
         \/ \E o \in obs : o.outcome = "would_reroute"
         \/ Preview(call[c], reply) = None
  PROVE  EInv'
<1>. USE DEF EInv
<1>1. TypeOK /\ Kind(ses) /\ checked \in Seq(Calls) /\ late \in 0 .. Len(checked)
      /\ Asked[c] \in Models
  BY BaseKind, CallsAssumption DEF Base, TypeOK
<1>2. /\ call' \in [Calls -> Call] /\ UNCHANGED <<firewall, service, key, checked, late>>
      /\ \A d \in Calls : d # c => call'[d] = call[d]
      /\ call'[c].pc = "running" /\ call'[c].reply = reply /\ call'[c].wire = Asked[c]
      /\ call'[c].rows = 0
      /\ call'[c].shape = call[c].shape /\ call'[c].local = call[c].local
      /\ call'[c].to = call[c].to
  BY <1>1, SettleEffect DEF Ended
<1>4. /\ Kind(ses') /\ ses'.queue = ses.queue \union obs
      /\ ses'.decisions = ses.decisions /\ ses'.markers = ses.markers
      /\ ses'.rows = ses.rows
  <2>1. CASE ses' = Push(ses, obs)
    <3>1. /\ Kind(Push(ses, obs)) /\ Push(ses, obs).queue = ses.queue \union obs
          /\ Push(ses, obs).decisions = ses.decisions
          /\ Push(ses, obs).markers = ses.markers /\ Push(ses, obs).rows = ses.rows
      BY <1>1, PushFacts, Zenon
    <3>. QED
      BY <2>1, <3>1, Zenon
  <2>2. CASE obs = {} /\ ses' = ses
    BY <1>1, <2>2
  <2>. QED
    BY <2>1, <2>2
<1>5. Base'
  BY <1>1, <1>2, <1>4, Typing DEF TypeOK
<1>6. \A d \in Calls : IsLate(d)' <=> IsLate(d)
  BY <1>2 DEF IsLate
<1>7. \A d \in Calls : (\E i \in 1 .. Len(checked) : checked[i] = d)
                       => \E i \in 1 .. Len(checked') : checked'[i] = d
  BY <1>2
<1>8. \E i \in 1 .. Len(checked') : checked'[i] = c
  BY <1>2 DEF Locals
<1>9. call'[c].local = "rerouted" => call'[c].to # None
  <2>1. call[c].local = "rerouted" => call[c].to # None
    BY DEF Locals
  <2>. QED
    BY <1>2, <2>1
<1>10. Locals' /\ StoresTell' /\ RowsTell' /\ Reported' /\ ObservationsTell'
  BY <1>1, <1>2, <1>4, <1>6, <1>7, <1>8, <1>9, PushKeeps
<1>11. Preview(call[c], reply) = None => Reroute(call'[c], reply) = None
  BY <1>2, <1>9 DEF Preview, Reroute, CanReroute
<1>12. (\E o \in obs : o.outcome = "would_reroute")
         => \E o \in ses'.queue : o.of = c /\ o.outcome = "would_reroute"
  BY <1>4
<1>13. ses.queue \union UNION {row.observations : row \in ses.rows}
           \subseteq ses'.queue \union UNION {row.observations : row \in ses'.rows}
  BY <1>4
<1>14. \/ \E o \in ses'.queue : o.of = c /\ o.outcome = "would_reroute"
       \/ firewall = "enforce"
       \/ Reroute(call'[c], call'[c].reply) \in {None, Asked[c]}
  BY <1>2, <1>11, <1>12
<1>15. PreviewMissesNothing'
  BY <1>2, <1>13, <1>14, PreviewKeeps
<1>. QED
  BY <1>5, <1>10, <1>15

\* The three such endings: a dry run, a refused reroute, nothing to do.
LEMMA PassingOK ==
  ASSUME EInv, NEW c \in Calls, NEW reply \in Replies,
         AnswerDry(c, reply) \/ AnswerRefused(c, reply) \/ AnswerPasses(c, reply)
  PROVE  EInv'
<1>. DEFINE would   == {[of |-> c, outcome |-> "would_reroute", by |-> "check"]}
            refused == {[of |-> c, outcome |-> "reroute_rejected", by |-> "check"]}
<1>1. would \in SUBSET Observation /\ refused \in SUBSET Observation /\ {} \in SUBSET Observation
  BY DEF Observation
<1>2. /\ \A o \in would : o.of = c /\ o.by = "check"
      /\ \A o \in refused : o.of = c /\ o.by = "check"
      /\ \E o \in would : o.outcome = "would_reroute"
  OBVIOUS
<1>. HIDE DEF would, refused
<1>3. CASE AnswerDry(c, reply)
  <2>1. call[c].pc = "asking" /\ Settle(c, "running", reply, Asked[c])
    BY <1>3 DEF AnswerDry, Answered
  <2>2. CASE Preview(call[c], reply) = None
    <3>1. ses' = ses
      BY <1>3, <2>2 DEF AnswerDry
    <3>. QED
      BY <1>1, <2>1, <2>2, <3>1, QuietAnswerOK
  <2>3. CASE Preview(call[c], reply) # None
    <3>1. ses' = Push(ses, would)
      BY <1>3, <2>3 DEF AnswerDry, would
    <3>. QED
      BY <1>1, <1>2, <2>1, <3>1, QuietAnswerOK, Zenon
  <2>. QED
    BY <2>2, <2>3
<1>4. CASE AnswerRefused(c, reply)
  <2>1. /\ call[c].pc = "asking" /\ Settle(c, "running", reply, Asked[c])
        /\ firewall = "enforce" /\ ses' = Push(ses, refused)
    BY <1>4 DEF AnswerRefused, Enforced, Answered, refused
  <2>. QED
    BY <1>1, <1>2, <2>1, QuietAnswerOK, Zenon
<1>5. CASE AnswerPasses(c, reply)
  <2>1. /\ call[c].pc = "asking" /\ Settle(c, "running", reply, Asked[c])
        /\ firewall = "enforce" /\ ses' = ses
    BY <1>5 DEF AnswerPasses, Enforced, Answered
  <2>. QED
    BY <1>1, <2>1, QuietAnswerOK
<1>. QED
  BY <1>3, <1>4, <1>5
\* A check that stops its call logs the call's row.
LEMMA BlocksOK ==
  ASSUME EInv, NEW c \in Calls, NEW reply \in Replies, AnswerBlocks(c, reply)
  PROVE  EInv'
<1>. USE DEF EInv
<1>1. TypeOK /\ Kind(ses) /\ checked \in Seq(Calls) /\ late \in 0 .. Len(checked)
      /\ Asked[c] \in Models
  BY BaseKind, CallsAssumption DEF Base, TypeOK
<1>2. /\ call[c].pc = "asking" /\ firewall = "enforce"
      /\ Settle(c, "blocked", reply, Asked[c])
  BY DEF AnswerBlocks, Enforced, Answered
<1>3. /\ call' \in [Calls -> Call] /\ UNCHANGED <<firewall, service, key, checked, late>>
      /\ \A d \in Calls : d # c => call'[d] = call[d]
      /\ call'[c].pc = "blocked" /\ call'[c].wire = Asked[c] /\ call'[c].rows = 1
      /\ call'[c].shape = call[c].shape /\ call'[c].local = call[c].local
      /\ call'[c].to = call[c].to
  BY <1>1, <1>2, SettleEffect DEF Ended
<1>4. call[c].rows = 0 /\ call[c].wire = Asked[c]
  BY <1>2 DEF Locals
<1>. DEFINE new == [of |-> c, outcome |-> "blocked", to |-> None, verified |-> ~reply.open,
                    ts |-> Now]
            s   == Stash(ses, new)
            row == RowOf(s, c)
<1>5. Now \in Nat
  <2>. DEFINE D == {d \in Calls : call[d].pc \in {"running", "blocked"}}
  <2>1. \A d \in D : \E i \in 1 .. Len(checked) : checked[i] = d
    BY DEF Locals
  <2>2. IsFiniteSet(D)
    BY <1>1, <2>1, CheckedFinite
  <2>. QED
    BY <2>2, FS_CardinalityType DEF Now
<1>6. reply.open \in BOOLEAN
  BY <1>1, RepliesTyped DEF TypeOK, Reply
<1>7. new \in Decision /\ new.of = c /\ new.outcome = "blocked"
  BY <1>5, <1>6 DEF Decision
<1>8. ses' = Log(s, c)
  BY DEF AnswerBlocks
<1>. HIDE DEF new
<1>9. /\ Kind(s) /\ s.decisions = Kept(ses.decisions, new)
      /\ s.markers = ses.markers /\ s.queue = ses.queue /\ s.rows = ses.rows
      /\ s.decisions \subseteq Live(ses.decisions) \union {new}
      /\ Cardinality(Live(ses.decisions) \union {new}) <= Cap
              => s.decisions = Live(ses.decisions) \union {new}
  BY <1>1, <1>7, StashFacts
<1>. HIDE DEF s
<1>10. call[c].rows \in 0 .. MaxRows
  BY <1>4, CallsAssumption
<1>11. /\ Kind(ses') /\ row \in Row
       /\ ses'.decisions = Others(Live(s.decisions), c)
       /\ ses'.markers = Live(ses.markers)
       /\ ses'.queue = ses.queue \ Drained(s, c)
       /\ ses'.rows = ses.rows \union {row}
  BY <1>8, <1>9, <1>10, LogFacts
<1>12. Drained(s, c) = Drained(ses, c)
  BY <1>9 DEF Drained
<1>13. /\ row.call = c /\ row.nr = call[c].rows /\ row.observations = Drained(s, c)
       /\ row.decision # None => row.decision \in s.decisions /\ row.decision.of = c
       /\ row.marker # None => row.marker \in ses.markers /\ row.marker.of = c
  BY <1>9, RowFacts
<1>. HIDE DEF row
<1>14. \A d \in ses.decisions : d.of # c
  BY <1>2 DEF StoresTell
<1>15. \A m \in ses.markers : m.of # c
  BY <1>2 DEF StoresTell
<1>16. row.marker = None
  BY <1>13, <1>15
<1>17. row.decision # None => row.decision = new
  BY <1>9, <1>13, <1>14 DEF Live
<1>18. ses'.decisions \subseteq ses.decisions /\ \A d \in ses'.decisions : d.of # c
  BY <1>7, <1>9, <1>11 DEF Others, Live
<1>19. Base'
  BY <1>1, <1>3, <1>11, Typing DEF TypeOK
<1>20. Locals'
  BY <1>2, <1>3 DEF Locals
<1>21. Cardinality(Deciders') <= Cap =>
         \A d \in ses.decisions : d.of # c /\ ~IsLate(d.of) => d \in ses'.decisions
  <2>. SUFFICES ASSUME Cardinality(Deciders') <= Cap
       PROVE  \A d \in ses.decisions : d.of # c /\ ~IsLate(d.of) => d \in ses'.decisions
    OBVIOUS
  <2>1. Deciders \subseteq Deciders' /\ c \in Deciders'
    BY <1>2, <1>3, <1>4 DEF Deciders
  <2>2. IsFiniteSet(Deciders')
    BY <1>1, <1>3, <1>20, <2>1, FewDeciders
  <2>. DEFINE S == Live(ses.decisions) \union {new}
  <2>3. \A e \in ses.decisions : e.of \in Deciders
    <3>1. ses.decisions \subseteq Decision
      BY DEF Base, Stores, Session
    <3>. QED
      BY <3>1 DEF StoresTell, Deciders, Decision
  <2>4. \A e \in S : e.of \in Deciders'
    BY <1>7, <2>1, <2>3 DEF Live
  <2>5. \A e, f \in S : e.of = f.of => e = f
    BY <1>7, <1>14 DEF Live, StoresTell
  <2>6. Cardinality(S) <= Cap
    BY <2>2, <2>4, <2>5, OneEach
  <2>7. s.decisions = S
    BY <1>9, <2>6
  <2>. QED
    BY <1>11, <2>7 DEF Live, Others
<1>22. Locals' /\ StoresTell' /\ RowsTell' /\ Reported' /\ ObservationsTell'
  <2>1. /\ row.decision # None =>
             /\ row.decision.of = c /\ call[c].rows = 0
             /\ IF row.decision.outcome = "blocked" THEN call'[c].pc = "blocked"
                ELSE call'[c].pc = "running" /\ call'[c].wire = row.decision.to
        /\ row.marker # None =>
             row.marker.of = c /\ call'[c].pc = "running" /\ call[c].wire = row.marker.to
        /\ call[c].wire # Asked[c] /\ ~IsLate(c) /\ Cardinality(Deciders) <= Cap
             /\ call[c].rows = 0
             => row.decision # None /\ row.marker # None
    BY <1>3, <1>4, <1>7, <1>16, <1>17
  <2>2. call[c].rows \in Nat /\ call'[c].rows = call[c].rows + 1
        /\ call'[c].wire = call[c].wire /\ call'[c].pc \in Ended
    BY <1>3, <1>4 DEF Ended
  <2>3. /\ ses'.queue = ses.queue \ Drained(ses, c)
        /\ ses'.markers = Live(ses.markers) /\ ses'.rows = ses.rows \union {row}
        /\ row.call = c /\ row.nr = call[c].rows /\ row.observations = Drained(ses, c)
    BY <1>11, <1>12, <1>13
  <2>4. call[c].pc \in {"asking", "running"} /\ ~(call[c].pc = "running")
    BY <1>2
  <2>5. /\ checked' = checked /\ late' = late
        /\ \A d \in Calls : d # c => call'[d] = call[d]
        /\ call'[c].shape = call[c].shape /\ call'[c].local = call[c].local
        /\ call'[c].to = call[c].to
    BY <1>3
  <2>. QED
    BY <1>18, <1>21, <2>1, <2>2, <2>3, <2>4, <2>5, RowKeeps
<1>23. PreviewMissesNothing'
  BY <1>2, <1>3 DEF PreviewMissesNothing
<1>. QED
  BY <1>19, <1>22, <1>23

\* A running call logs a row.
LEMMA LogRowOK ==
  ASSUME EInv, NEW c \in Calls, LogRow(c)
  PROVE  EInv'
<1>. USE DEF EInv
<1>1. TypeOK /\ Kind(ses) /\ checked \in Seq(Calls) /\ late \in 0 .. Len(checked)
  BY BaseKind DEF Base, TypeOK
<1>2. /\ call' \in [Calls -> Call] /\ UNCHANGED <<firewall, service, key, checked, late>>
      /\ \A d \in Calls : d # c => call'[d] = call[d]
      /\ call[c].pc = "running" /\ call'[c].pc = "running"
      /\ call'[c].reply = call[c].reply /\ call'[c].wire = call[c].wire
      /\ call'[c].shape = call[c].shape /\ call'[c].local = call[c].local
      /\ call'[c].to = call[c].to /\ call'[c].rows = call[c].rows + 1
  BY <1>1, LogRowEffect
<1>3. call[c].rows \in 0 .. MaxRows /\ call[c].rows \in Nat
  BY <1>1, CallsAssumption DEF TypeOK, Call
<1>. DEFINE row == RowOf(ses, c)
<1>4. ses' = Log(ses, c)
  BY DEF LogRow
<1>5. /\ Kind(ses') /\ row \in Row
      /\ ses'.decisions = Others(Live(ses.decisions), c)
      /\ ses'.markers = Live(ses.markers)
      /\ ses'.queue = ses.queue \ Drained(ses, c)
      /\ ses'.rows = ses.rows \union {row}
  BY <1>1, <1>3, <1>4, LogFacts
<1>6. /\ row.call = c /\ row.nr = call[c].rows /\ row.observations = Drained(ses, c)
      /\ row.decision # None => row.decision \in ses.decisions /\ row.decision.of = c
      /\ row.marker # None => row.marker \in ses.markers /\ row.marker.of = c
  BY RowFacts
<1>7. ~IsLate(c) =>
        /\ (\E d \in ses.decisions : d.of = c) => row.decision # None
        /\ (\E m \in ses.markers : m.of = c) => row.marker # None
  BY <1>1, RowFinds
<1>. HIDE DEF row
<1>8. Base'
  BY <1>1, <1>2, <1>5, Typing DEF TypeOK
<1>9. /\ ses'.decisions \subseteq ses.decisions /\ \A d \in ses'.decisions : d.of # c
      /\ \A d \in ses.decisions : d.of # c /\ ~IsLate(d.of) => d \in ses'.decisions
  BY <1>5 DEF Others, Live
<1>10. row.decision # None =>
         /\ row.decision.of = c /\ call[c].rows = 0
         /\ IF row.decision.outcome = "blocked" THEN call'[c].pc = "blocked"
            ELSE call'[c].pc = "running" /\ call'[c].wire = row.decision.to
  BY <1>2, <1>6 DEF StoresTell
<1>11. row.marker # None =>
         row.marker.of = c /\ call'[c].pc = "running" /\ call[c].wire = row.marker.to
  BY <1>2, <1>6 DEF StoresTell
<1>12. call[c].wire # Asked[c] /\ ~IsLate(c) /\ Cardinality(Deciders) <= Cap
         /\ call[c].rows = 0
         => row.decision # None /\ row.marker # None
  BY <1>7 DEF Reported
<1>13. call'[c].pc \in Ended
  BY <1>2 DEF Ended
<1>14. Locals' /\ StoresTell' /\ RowsTell' /\ Reported' /\ ObservationsTell'
  BY <1>2, <1>3, <1>5, <1>6, <1>9, <1>10, <1>11, <1>12, <1>13, RowKeeps
<1>15. ses.queue \union UNION {r.observations : r \in ses.rows}
         \subseteq ses'.queue \union UNION {r.observations : r \in ses'.rows}
  BY <1>5, <1>6
<1>16. PreviewMissesNothing'
  BY <1>2, <1>15, PreviewKeeps
<1>. QED
  BY <1>8, <1>14, <1>16

\* A batch result is logged.
LEMMA BatchOK ==
  ASSUME EInv, NEW t \in Tasks, LogBatch(t)
  PROVE  EInv'
<1>. USE DEF EInv
<1>1. TypeOK /\ Kind(ses)
  BY BaseKind DEF Base
<1>. DEFINE ms  == Live(ses.markers)
            row == [call |-> None, nr |-> 0, decision |-> None,
                    marker |-> TheOne(Of(ms, key[t])), observations |-> {}]
            rs  == ses.rows \union {row}
<1>2. ses' = [ses EXCEPT !.markers = ms, !.rows = rs]
  BY <1>1 DEF LogBatch, Kind, Session
<1>3. UNCHANGED <<firewall, service, key, checked, late, call>>
  BY DEF LogBatch
<1>4. ms \in SUBSET ses.markers
  BY DEF Live
<1>5. IsFiniteSet(ms) /\ Cardinality(ms) <= Cap
  BY <1>1, <1>4, PartFacts DEF Kind
<1>6. row \in Row
  <2>1. TheOne(Of(ms, key[t])) \in Marker \union {None}
    BY <1>1, TheOneFacts DEF Of, Live, Kind, Session
  <2>2. 0 \in 0 .. MaxRows
    BY CallsAssumption
  <2>. HIDE DEF ms
  <2>. QED
    BY <2>1, <2>2 DEF Row
<1>. HIDE DEF ms, row
<1>7. rs \subseteq Row /\ ses.rows \subseteq rs
  BY <1>1, <1>6 DEF Kind, Session
<1>. HIDE DEF rs
<1>8. /\ ses' \in Session /\ ses'.decisions = ses.decisions /\ ses'.markers = ms
      /\ ses'.queue = ses.queue /\ ses'.rows = rs
  BY <1>1, <1>2, <1>4, <1>7 DEF Kind, Session
<1>9. Kind(ses')
  BY <1>1, <1>5, <1>8 DEF Kind
<1>10. Base'
  BY <1>1, <1>3, <1>9, Typing DEF TypeOK
<1>11. Locals' /\ StoresTell' /\ RowsTell' /\ Reported' /\ ObservationsTell'
  BY BatchKeeps
<1>12. ses.queue \union UNION {r.observations : r \in ses.rows}
         \subseteq ses'.queue \union UNION {r.observations : r \in ses'.rows}
  BY <1>7, <1>8
<1>13. PreviewMissesNothing'
  BY <1>3, <1>12 DEF PreviewMissesNothing, Fits
<1>. QED
  BY <1>10, <1>11, <1>13
\* A reroute is applied, or applied and withdrawn.
LEMMA ReroutesOK ==
  ASSUME EInv, NEW c \in Calls, NEW reply \in Replies, AnswerReroutes(c, reply)
  PROVE  EInv'
<1>. USE DEF EInv
<1>1. TypeOK /\ Kind(ses) /\ checked \in Seq(Calls) /\ late \in 0 .. Len(checked)
      /\ Asked[c] \in Models
  BY BaseKind, CallsAssumption DEF Base, TypeOK
<1>. DEFINE to   == Reroute(call[c], reply)
            new  == [of |-> c, outcome |-> "rerouted", to |-> to,
                     verified |-> ~reply.open, ts |-> Now]
            mark == [of |-> c, to |-> to, ts |-> Now]
            s1   == Mark(ses, mark)
            s2   == Stash(s1, new)
            s3   == Drop(s2, c)
<1>2. /\ call[c].pc = "asking" /\ to # None /\ to # Asked[c] /\ firewall = "enforce"
      /\ \/ ses' = s2 /\ Settle(c, "running", reply, to)
         \/ call[c].shape = "manager" /\ ses' = s3 /\ Settle(c, "running", reply, Asked[c])
  BY DEF AnswerReroutes, Enforced, Answered, Applied
<1>3. to \in Models
  <2>1. call[c].to \in Models \union {None}
    BY <1>1 DEF TypeOK, Call
  <2>2. reply.to \in Models \union {None}
    BY <1>1, RepliesTyped DEF TypeOK, Reply
  <2>. QED
    BY <1>2, <2>1, <2>2 DEF Reroute
<1>4. Now \in Nat
  <2>. DEFINE D == {d \in Calls : call[d].pc \in {"running", "blocked"}}
  <2>1. \A d \in D : \E i \in 1 .. Len(checked) : checked[i] = d
    BY DEF Locals
  <2>2. IsFiniteSet(D)
    BY <1>1, <2>1, CheckedFinite
  <2>. QED
    BY <2>2, FS_CardinalityType DEF Now
<1>. HIDE DEF to
<1>5. reply.open \in BOOLEAN
  BY <1>1, RepliesTyped DEF TypeOK, Reply
<1>6. new \in Decision /\ new.of = c /\ new.to = to /\ new.outcome = "rerouted"
  BY <1>3, <1>4, <1>5 DEF Decision
<1>7. mark \in Marker /\ mark.of = c /\ mark.to = to
  BY <1>3, <1>4 DEF Marker
<1>. HIDE DEF new, mark
<1>8. /\ Kind(s1) /\ s1.markers = Kept(ses.markers, mark)
      /\ s1.decisions = ses.decisions /\ s1.queue = ses.queue /\ s1.rows = ses.rows
      /\ s1.markers \subseteq Live(ses.markers) \union {mark}
      /\ Cardinality(Live(ses.markers) \union {mark}) <= Cap
              => s1.markers = Live(ses.markers) \union {mark}
  BY <1>1, <1>7, MarkFacts
<1>. HIDE DEF s1
<1>9. /\ Kind(s2) /\ s2.markers = s1.markers /\ s2.queue = ses.queue /\ s2.rows = ses.rows
      /\ s2.decisions \subseteq Live(ses.decisions) \union {new}
      /\ Cardinality(Live(ses.decisions) \union {new}) <= Cap
              => s2.decisions = Live(ses.decisions) \union {new}
  BY <1>6, <1>8, StashFacts
<1>. HIDE DEF s2
<1>10. /\ Kind(s3) /\ s3.decisions = Others(s2.decisions, c)
       /\ s3.markers = Others(s2.markers, c)
       /\ s3.queue = ses.queue /\ s3.rows = ses.rows
  BY <1>9, DropFacts
<1>. HIDE DEF s3
<1>11. PICK wire \in {to, Asked[c]} :
         /\ Settle(c, "running", reply, wire)
         /\ IF wire = to THEN ses' = s2 ELSE ses' = s3 /\ call[c].shape = "manager"
  BY <1>2
<1>12. /\ call' \in [Calls -> Call] /\ UNCHANGED <<firewall, service, key, checked, late>>
       /\ \A d \in Calls : d # c => call'[d] = call[d]
       /\ call'[c].pc = "running" /\ call'[c].wire = wire /\ call'[c].rows = 0
       /\ call'[c].shape = call[c].shape /\ call'[c].local = call[c].local
       /\ call'[c].to = call[c].to
  <2>1. wire \in Models
    BY <1>1, <1>3
  <2>. QED
    BY <1>1, <1>11, <2>1, SettleEffect DEF Ended
<1>13. Kind(ses') /\ ses'.queue = ses.queue /\ ses'.rows = ses.rows
  BY <1>9, <1>10, <1>11
<1>14. Base'
  BY <1>1, <1>12, <1>13, Typing DEF TypeOK
<1>15. \A d \in ses'.decisions : d \in ses.decisions \/ (d = new /\ wire = to)
  <2>1. CASE wire = to
    BY <1>9, <1>11, <2>1 DEF Live
  <2>2. CASE wire # to
    BY <1>6, <1>9, <1>10, <1>11, <2>2 DEF Live, Others
  <2>. QED
    BY <2>1, <2>2
<1>16. \A m \in ses'.markers : m \in ses.markers \/ (m = mark /\ wire = to)
  <2>1. CASE wire = to
    BY <1>8, <1>9, <1>11, <2>1 DEF Live
  <2>2. CASE wire # to
    BY <1>7, <1>8, <1>9, <1>10, <1>11, <2>2 DEF Live, Others
  <2>. QED
    BY <2>1, <2>2
<1>17. Cardinality(Live(ses.decisions) \union {new}) <= Cap =>
         /\ \A d \in ses.decisions : d.of # c /\ ~IsLate(d.of) => d \in ses'.decisions
         /\ wire = to => new \in ses'.decisions
  <2>. SUFFICES ASSUME s2.decisions = Live(ses.decisions) \union {new}
       PROVE  /\ \A d \in ses.decisions : d.of # c /\ ~IsLate(d.of) => d \in ses'.decisions
              /\ wire = to => new \in ses'.decisions
    BY <1>9
  <2>1. CASE wire = to
    BY <1>11, <2>1 DEF Live
  <2>2. CASE wire # to
    BY <1>10, <1>11, <2>2 DEF Live, Others
  <2>. QED
    BY <2>1, <2>2
<1>18. Cardinality(Live(ses.markers) \union {mark}) <= Cap =>
         /\ \A m \in ses.markers : m.of # c /\ ~IsLate(m.of) => m \in ses'.markers
         /\ wire = to => mark \in ses'.markers
  <2>. SUFFICES ASSUME s2.markers = Live(ses.markers) \union {mark}
       PROVE  /\ \A m \in ses.markers : m.of # c /\ ~IsLate(m.of) => m \in ses'.markers
              /\ wire = to => mark \in ses'.markers
    BY <1>8, <1>9
  <2>1. CASE wire = to
    BY <1>11, <2>1 DEF Live
  <2>2. CASE wire # to
    BY <1>10, <1>11, <2>2 DEF Live, Others
  <2>. QED
    BY <2>1, <2>2
<1>19. Locals' /\ StoresTell' /\ RowsTell' /\ Reported' /\ ObservationsTell'
  <2>1. /\ checked' = checked /\ late' = late
        /\ \A d \in Calls : d # c => call'[d] = call[d]
        /\ call'[c].pc = "running" /\ call'[c].rows = 0
        /\ call'[c].shape = call[c].shape /\ call'[c].local = call[c].local
        /\ call'[c].to = call[c].to
        /\ call'[c].wire = wire /\ call'[c].wire \in {to, Asked[c]}
        /\ call'[c].wire = Asked[c] => call[c].shape = "manager"
    BY <1>2, <1>11, <1>12
  <2>2. to # Asked[c] /\ call[c].pc = "asking"
    BY <1>2
  <2>. QED
    BY <1>3, <1>6, <1>7, <1>13, <1>15, <1>16, <1>17, <1>18, <2>1, <2>2, RerouteKeeps
<1>20. PreviewMissesNothing'
  BY <1>2, <1>12 DEF PreviewMissesNothing
<1>. QED
  BY <1>14, <1>19, <1>20

\* 300 s pass.
LEMMA TimeOK ==
  ASSUME EInv, TimePasses
  PROVE  EInv'
<1>. USE DEF EInv
<1>1. TypeOK /\ Kind(ses)
  BY BaseKind DEF Base
<1>2. checked' = checked /\ late' = late + 1 /\ UNCHANGED <<call, ses>>
  BY DEF TimePasses
<1>3. late' \in 0 .. Len(checked')
  BY <1>1, <1>2 DEF TimePasses, TypeOK
<1>4. /\ Kind(ses') /\ call' \in [Calls -> Call] /\ UNCHANGED <<firewall, service>>
      /\ key' \in [Tasks -> Calls \union {None}] /\ checked' \in Seq(Calls)
  BY <1>1, <1>2 DEF TimePasses, TypeOK
<1>5. Base'
  BY <1>1, <1>3, <1>4, Typing
<1>6. Locals' /\ StoresTell' /\ RowsTell' /\ Reported' /\ ObservationsTell'
  BY <1>2, TimeKeeps
<1>7. PreviewMissesNothing'
  BY <1>2 DEF TimePasses, PreviewMissesNothing, Fits
<1>. QED
  BY <1>5, <1>6, <1>7

\* The service's steps, and stuttering.
LEMMA ServiceOK ==
  ASSUME EInv, Edit \/ Deliver \/ StreamChange \/ UNCHANGED vars
  PROVE  EInv'
<1>. USE DEF EInv
<1>1. TypeOK
  BY DEF Base
<1>2. UNCHANGED <<firewall, key, checked, late, call, ses>>
  BY DEF Edit, Deliver, StreamChange, ServiceStep, vars
<1>3. /\ rules' \in RuleSets /\ edits' \in 0 .. MaxEdits
      /\ pack' \in RuleSets \union {None} /\ stream' \in {"up", "down", "stale"}
  <2>1. CASE Edit
    <3>1. rules' \in RuleSets
      BY <2>1, CallsAssumption DEF Edit
    <3>2. edits' \in 0 .. MaxEdits
      BY <1>1, <2>1, CallsAssumption DEF Edit, TypeOK
    <3>. QED
      BY <1>1, <2>1, <3>1, <3>2 DEF Edit, TypeOK
  <2>2. CASE Deliver
    BY <1>1, <2>2 DEF Deliver, TypeOK
  <2>3. CASE StreamChange
    BY <1>1, <2>3 DEF StreamChange, TypeOK
  <2>4. CASE UNCHANGED vars
    BY <1>1, <2>4 DEF vars, service, TypeOK
  <2>. QED
    BY <2>1, <2>2, <2>3, <2>4
<1>4. Base'
  BY <1>1, <1>2, <1>3 DEF Base, TypeOK, Stores
<1>5. /\ Locals' /\ StoresTell' /\ RowsTell' /\ Reported' /\ ObservationsTell'
      /\ PreviewMissesNothing'
  BY <1>2, IdleKeeps
<1>. QED
  BY <1>4, <1>5

\* No call has begun and nothing is stored.
LEMMA EInit == Init => EInv
<1>. SUFFICES ASSUME Init PROVE EInv
  OBVIOUS
<1>. DEFINE me(c) == [pc |-> "idle", shape |-> "plain", local |-> None, to |-> None,
                      reply |-> None, wire |-> Asked[c], rows |-> 0]
<1>1. \A c \in Calls : me(c) \in Call
  BY CallsAssumption DEF Call, Shapes
<1>2. call = [c \in Calls |-> me(c)]
  BY DEF Init
<1>3. \A c \in Calls :
        /\ call[c].pc = "idle" /\ call[c].shape = "plain" /\ call[c].local = None
        /\ call[c].reply = None /\ call[c].wire = Asked[c] /\ call[c].rows = 0
  BY <1>2
<1>. HIDE DEF me
<1>4. call \in [Calls -> Call]
  BY <1>1, <1>2
<1>5. /\ ses.decisions = {} /\ ses.markers = {} /\ ses.queue = {} /\ ses.rows = {}
      /\ ses \in Session
  BY DEF Init, Session
<1>6. IsFiniteSet({}) /\ Cardinality({}) = 0 /\ Cap \in Nat
  BY FS_EmptySet, CallsAssumption
<1>7. Stores
  BY <1>5, <1>6 DEF Stores
<1>8. /\ firewall \in {"enforce", "dry_run"} /\ rules \in RuleSets
      /\ edits \in 0 .. MaxEdits /\ pack \in RuleSets \union {None}
      /\ stream \in {"up", "down", "stale"} /\ key \in [Tasks -> Calls \union {None}]
      /\ checked \in Seq(Calls) /\ late \in 0 .. Len(checked)
  BY CallsAssumption DEF Init
<1>9. TypeOK
  BY <1>4, <1>5, <1>6, <1>8 DEF TypeOK
<1>10. Locals
  BY <1>3, CallsAssumption DEF Locals, Statuses
<1>11. StoresTell /\ RowsTell /\ ObservationsTell
  BY <1>5 DEF StoresTell, RowsTell, ObservationsTell
<1>12. Reported /\ PreviewMissesNothing
  BY <1>3 DEF Reported, PreviewMissesNothing
<1>. QED
  BY <1>7, <1>9, <1>10, <1>11, <1>12 DEF EInv, Base

\* Every step keeps the invariant.
LEMMA EStep == EInv /\ [Next]_vars => EInv'
<1>. SUFFICES ASSUME EInv, [Next]_vars PROVE EInv'
  OBVIOUS
<1>1. ASSUME NEW c \in Calls, NEW shape \in ShapesOf[c], Begin(c, shape)
      PROVE  EInv'
  <2>1. shape \in Shapes
    BY CallsAssumption
  <2>. QED
    BY <1>1, <2>1, BeginOK
<1>2. ASSUME NEW c \in Calls, NEW reply \in Replies,
             \/ AnswerDry(c, reply) \/ AnswerBlocks(c, reply) \/ AnswerReroutes(c, reply)
             \/ AnswerRefused(c, reply) \/ AnswerPasses(c, reply)
      PROVE  EInv'
  BY <1>2, PassingOK, BlocksOK, ReroutesOK
<1>3. ASSUME NEW c \in Calls, LogRow(c) PROVE EInv'
  BY <1>3, LogRowOK
<1>4. ASSUME NEW t \in Tasks, LogBatch(t) PROVE EInv'
  BY <1>4, BatchOK
<1>5. CASE TimePasses
  BY <1>5, TimeOK
<1>6. CASE Edit \/ Deliver \/ StreamChange \/ UNCHANGED vars
  BY <1>6, ServiceOK
<1>. QED
  BY <1>1, <1>2, <1>3, <1>4, <1>5, <1>6 DEF Next

\* Calls, stores and rows have their types, and no store outgrows its cap.
THEOREM ChecksTypeCorrect == Spec => []TypeOK
<1>1. EInv => TypeOK
  BY DEF EInv, Base
<1>. QED
  BY EInit, EStep, <1>1, PTL DEF Spec

\* A row says of its call what happened on the wire, and a reroute is on its
\* call's first row.
THEOREM RowsAlwaysTell == Spec => []RowsTellTheWire
<1>1. EInv => RowsTellTheWire
  <2>. SUFFICES ASSUME EInv PROVE RowsTellTheWire
    OBVIOUS
  <2>1. \A row \in ses.rows :
          /\ row.decision # None =>
               /\ row.decision.of = row.call
               /\ IF row.decision.outcome = "blocked" THEN call[row.call].pc = "blocked"
                  ELSE call[row.call].wire = row.decision.to
          /\ row.marker # None => call[row.marker.of].wire = row.marker.to
    BY DEF EInv, RowsTell
  <2>2. ASSUME NEW c \in Calls, call[c].wire # Asked[c], call[c].rows > 0, ~IsLate(c),
               Cardinality(Deciders) <= Cap
        PROVE  \E row \in ses.rows : /\ row.call = c /\ row.nr = 0
                                     /\ row.decision # None /\ row.marker # None
    <3>1. call[c].rows # 0
      BY <2>2
    <3>. QED
      BY <2>2, <3>1 DEF EInv, Reported
  <2>. QED
    BY <2>1, <2>2 DEF RowsTellTheWire
<1>. QED
  BY EInit, EStep, <1>1, PTL DEF Spec

\* No decision and no observation is shipped twice.
THEOREM EvidenceShippedOnce == Spec => []EvidenceOnce
<1>1. EInv => EvidenceOnce
  <2>. SUFFICES ASSUME EInv PROVE EvidenceOnce
    OBVIOUS
  <2>1. \A r1, r2 \in ses.rows :
          r1 # r2 => /\ r1.decision = None \/ r1.decision # r2.decision
                     /\ r1.observations \intersect r2.observations = {}
    BY DEF EInv, RowsTell, ObservationsTell
  <2>2. \A row \in ses.rows :
          /\ row.observations \intersect ses.queue = {}
          /\ \A o \in row.observations : o.of = row.call \/ IsLate(o.of)
    BY DEF EInv, ObservationsTell
  <2>. QED
    BY <2>1, <2>2 DEF EvidenceOnce
<1>. QED
  BY EInit, EStep, <1>1, PTL DEF Spec

\* A dry run records every reroute that enforcing would have applied.
THEOREM PreviewNeverMisses == Spec => []PreviewMissesNothing
<1>1. EInv => PreviewMissesNothing
  BY DEF EInv
<1>. QED
  BY EInit, EStep, <1>1, PTL DEF Spec
====
