------------------------------- MODULE Preflight -------------------------------
(***************************************************************************)
(* The check a wrapped call makes before it runs, and the evidence of its  *)
(* outcome on the rows the call logs.                                      *)
(*                                                                         *)
(* A check evaluates the local pack (RulePack), perhaps asks the service,  *)
(* and blocks the call, changes its model, or lets it run.  What it did is *)
(* left in three stores under the call's observation key: decisions (a row *)
(* claims one at most once), routing markers (read by every row of the     *)
(* call) and observations.  Calls run in tasks, asyncio tasks or threads,  *)
(* each with one current key; a stream being consumed overlaps later calls *)
(* of its own task.                                                        *)
(***************************************************************************)
EXTENDS Naturals, Sequences, FiniteSets

CONSTANTS
  Calls,     \* wrapped calls
  Task,      \* call -> the task or thread it runs in
  Asked,     \* call -> the model it asks for
  Models,    \* models
  ShapesOf,  \* call -> what its wrapper may be (Shapes below)
  Policies,  \* the rules the service may have (RuleSets below)
  None,
  MaxEdits,  \* changes of the service's rules
  MaxRows,   \* rows one call logs
  Cap        \* _LOCAL_DECISION_CAP, _ROUTING_MARKER_CAP

\* How a call can be acted on: its model is in kwargs; it is not (framework
\* hint only); its host is unknown; its body is thrown away (can_reroute=False);
\* its request is built before the check (Anthropic's async stream manager).
Shapes == {"plain", "hinted", "unverified", "throwaway", "manager"}

\* Entity rules that select every call, the ones armed for the calls' entity,
\* and where the reroute leads.
Kinds == {"block", "reroute"}
RuleSets == {r \in [known : SUBSET Kinds, armed : SUBSET Kinds, to : Models] :
               r.armed \subseteq r.known}

\* What the evaluator says of a call.
Statuses == {"allowed", "blocked", "rerouted"}

ASSUME CallsAssumption ==
  /\ Asked \in [Calls -> Models] /\ DOMAIN Task = Calls
  /\ ShapesOf \in [Calls -> SUBSET Shapes] /\ Policies \subseteq RuleSets
  /\ None \notin Calls \union Models \union Statuses
  /\ MaxEdits \in Nat /\ MaxRows \in Nat \ {0} /\ Cap \in Nat \ {0}

Reply    == [status : {"allowed", "blocked", "none"}, open : BOOLEAN,
             to : Models \union {None}]
Call     == [pc : {"idle", "asking", "running", "blocked"}, shape : Shapes,
             local : Statuses \union {None}, to : Models \union {None},
             reply : Reply \union {None}, wire : Models, rows : 0 .. MaxRows]

\* What is stashed carries the call's key (of) and the time of the stash (ts).
Decision    == [of : Calls, outcome : {"blocked", "rerouted"},
                to : Models \union {None}, verified : BOOLEAN, ts : Nat]
Marker      == [of : Calls, to : Models, ts : Nat]
Observation == [of : Calls, outcome : {"would_reroute", "reroute_rejected"},
                by : {"evaluator", "check"}]
Row         == [call : Calls \union {None}, nr : 0 .. MaxRows, decision : Decision \union {None},
                marker : Marker \union {None}, observations : SUBSET Observation]

ASSUME NoneAssumption == None \notin Decision \union Marker

VARIABLES
  firewall,  \* the dial: "enforce" or "dry_run"
  rules,     \* the service's rules
  edits,     \* how often they changed
  pack,      \* the rules of the local pack, or None if there is no healthy one
  stream,    \* "up", "down", or "stale": down for longer than the grace
  key,       \* task -> its current observation key (_obs_call_key)
  checked,   \* calls in the order of their checks
  late,      \* how many of these are more than 300 s ago
  call,      \* call -> its wrapper's locals
  ses        \* [decisions, markers, queue, rows]: the stores and the rows logged

service == <<rules, edits, pack, stream>>
vars == <<firewall, service, key, checked, late, call, ses>>

Tasks == {Task[c] : c \in Calls}

Init ==
  /\ firewall \in {"enforce", "dry_run"}
  /\ rules \in Policies /\ edits = 0
  /\ pack \in {None, rules}
  /\ stream = "up"
  /\ key = [t \in Tasks |-> None]
  /\ checked = <<>> /\ late = 0
  /\ call = [c \in Calls |-> [pc |-> "idle", shape |-> "plain", local |-> None,
                              to |-> None, reply |-> None, wire |-> Asked[c],
                              rows |-> 0]]
  /\ ses = [decisions |-> {}, markers |-> {}, queue |-> {}, rows |-> {}]

-------------------------------------------------------------------------------
(* Deciding. *)

\* What a pack decides about a call.
Status(r, c, shape) ==
  IF "block" \in r.armed THEN "blocked"
  ELSE IF "reroute" \in r.armed /\ shape # "unverified" /\ r.to # Asked[c]
       THEN "rerouted" ELSE "allowed"

\* The evaluator's reroute_rejected observation.
Refusals(r, c, shape) ==
  IF r.armed = {"reroute"} /\ shape = "unverified"
  THEN {[of |-> c, outcome |-> "reroute_rejected", by |-> "evaluator"]} ELSE {}

\* armable_miss of an allowed call.  Mutant: reroutes are forgotten.
MissBlocksOnly(r) == "block" \in r.known \ r.armed
Miss(r) == r.known # r.armed

\* What the service may answer: a verdict on its own rules, with or without its
\* reroute; nothing in time; an error whose body is not a verdict.
Allowed(to) == [status |-> "allowed", open |-> FALSE, to |-> to]
Blocked     == [status |-> "blocked", open |-> FALSE, to |-> None]
NoAnswer    == [status |-> "allowed", open |-> TRUE,  to |-> None]
Garbled     == [status |-> "none",    open |-> FALSE, to |-> None]
Replies ==
  {NoAnswer, Garbled} \union
  IF "block" \in rules.armed THEN {Blocked}
  ELSE {Allowed(None)} \union
       (IF "reroute" \in rules.armed THEN {Allowed(rules.to)} ELSE {})

CanReroute(me) == me.shape # "throwaway"
StateA(me) == me.local = "blocked" \/ (me.local = "rerouted" /\ CanReroute(me))

\* Mutant of Stops: a fail-open answer lets a locally blocked call run.
StopsVerifiedOnly(me, reply) == reply.status = "blocked"

\* The check raises: the service says so, or cannot be reached and the pack does.
Stops(me, reply) ==
  \/ reply.status = "blocked"
  \/ me.local = "blocked" /\ reply.open

\* Where an enforcing check that does not stop the call sends it, if anywhere.
Reroute(me, reply) ==
  IF me.local = "blocked" \/ ~CanReroute(me) THEN None
  ELSE IF me.local = "rerouted" /\ reply.status = "allowed" THEN me.to
  ELSE reply.to

\* The reroute that a dry-run check records instead.
\* Mutant: without State B's.
PreviewStateA(me, reply) ==
  IF StateA(me) /\ me.local = "rerouted" THEN me.to ELSE None
Preview(me, reply) ==
  IF me.local = "blocked" \/ ~CanReroute(me) THEN None
  ELSE IF me.local = "rerouted" THEN me.to
  ELSE reply.to

-------------------------------------------------------------------------------
(* The stores, as functions from session to session. *)

IsLate(c) == \E i \in 1 .. late : checked[i] = c
Live(entries) == {e \in entries : ~IsLate(e.of)}
Others(entries, c) == {e \in entries : e.of # c}
Of(entries, c) == {e \in entries : e.of = c}

\* The clock of the stores: how many checks have ended.
Now == Cardinality({c \in Calls : call[c].pc \in {"running", "blocked"}})
Oldest(entries) == CHOOSE e \in entries : \A d \in entries : e.ts <= d.ts

\* Mutant: no cap.
KeptAll(entries, e) == Live(entries) \union {e}

\* Drop-oldest at the cap, after the sweep.
Kept(entries, e) ==
  LET all == Live(entries) \union {e}
  IN  IF Cardinality(all) > Cap THEN all \ {Oldest(all)} ELSE all

Stash(s, d) == [s EXCEPT !.decisions = Kept(@, d)]
Mark(s, m)  == [s EXCEPT !.markers = Kept(@, m)]
Push(s, observations) == [s EXCEPT !.queue = @ \union observations]

\* An applied reroute is withdrawn.  Mutant: its marker stays.
DropDecisionOnly(s, c) == [s EXCEPT !.decisions = Others(@, c)]
Drop(s, c) == [s EXCEPT !.decisions = Others(@, c), !.markers = Others(@, c)]

\* A drain takes the call's observations and everybody's stale ones.
\* Mutant: it leaves them queued.
Drained(s, c) == {o \in s.queue : o.of = c \/ IsLate(o.of)}
UndrainedPeek(s, c) == s.queue
Undrained(s, c) == s.queue \ Drained(s, c)

\* A row of call c claims the decision under its key and reads its marker.
TheOne(set) == IF set = {} THEN None ELSE CHOOSE e \in set : TRUE
Log(s, c) ==
  [s EXCEPT
    !.decisions = Others(Live(@), c), !.markers = Live(@), !.queue = Undrained(s, c),
    !.rows = @ \union {[call |-> c, nr |-> call[c].rows,
                       decision |-> TheOne(Of(Live(s.decisions), c)),
                       marker |-> TheOne(Of(Live(s.markers), c)),
                       observations |-> Drained(s, c)]}]

-------------------------------------------------------------------------------
(* A wrapped call. *)

\* The check is entered: a fresh key, the local evaluation, its observations.
\* An allow runs at once unless a stale stream may hide an arming; everything
\* else asks the service.  A task does one thing at a time.
Begin(c, shape) ==
  LET local == IF pack = None THEN None ELSE Status(pack, c, shape)
      asks  == local # "allowed" \/ (Miss(pack) /\ stream = "stale")
  IN  /\ call[c].pc = "idle"
      /\ \A d \in Calls : Task[d] = Task[c] => call[d].pc # "asking"
      /\ key' = [key EXCEPT ![Task[c]] = c]
      /\ checked' = Append(checked, c)
      /\ ses' = IF pack = None THEN ses ELSE Push(ses, Refusals(pack, c, shape))
      /\ call' = [call EXCEPT ![c].pc = IF asks THEN "asking" ELSE "running",
                             ![c].shape = shape, ![c].local = local,
                             ![c].to = IF local = "rerouted" THEN pack.to ELSE None]
      /\ UNCHANGED <<firewall, service, late>>

Settle(c, pc, reply, wire) ==
  /\ call' = [call EXCEPT ![c].pc = pc, ![c].reply = reply, ![c].wire = wire,
                         ![c].rows = IF pc = "blocked" THEN 1 ELSE 0]
  /\ UNCHANGED <<firewall, service, key, checked, late>>

Answered(c, reply) == call[c].pc = "asking" /\ reply \in Replies
Enforced(c, reply) == Answered(c, reply) /\ firewall = "enforce"

\* A dry run records the reroute it would make and acts on nothing.
AnswerDry(c, reply) ==
  /\ Answered(c, reply) /\ firewall = "dry_run"
  /\ ses' = IF Preview(call[c], reply) = None THEN ses
            ELSE Push(ses, {[of |-> c, outcome |-> "would_reroute", by |-> "check"]})
  /\ Settle(c, "running", reply, Asked[c])

\* The check stashes the decision, logs the blocked call's row and raises.
AnswerBlocks(c, reply) ==
  /\ Enforced(c, reply) /\ Stops(call[c], reply)
  /\ ses' = Log(Stash(ses, [of |-> c, outcome |-> "blocked", to |-> None,
                            verified |-> ~reply.open, ts |-> Now]), c)
  /\ Settle(c, "blocked", reply, Asked[c])

\* _apply_reroute changes the model, unless the target is the model already
\* asked for; the marker and the decision are stashed.
Fits(c) == call[c].shape \notin {"hinted", "unverified"}
Applied(c, to, reply) ==
  Stash(Mark(ses, [of |-> c, to |-> to, ts |-> Now]),
        [of |-> c, outcome |-> "rerouted", to |-> to, verified |-> ~reply.open,
         ts |-> Now])

AnswerReroutes(c, reply) ==
  LET to == Reroute(call[c], reply)
  IN  /\ Enforced(c, reply) /\ ~Stops(call[c], reply)
      /\ to \notin {None, Asked[c]} /\ Fits(c)
      /\ \/ /\ ses' = Applied(c, to, reply)
            /\ Settle(c, "running", reply, to)
         \* a request that cannot be rebuilt goes out unchanged: withdrawn
         \/ /\ call[c].shape = "manager"
            /\ ses' = Drop(Applied(c, to, reply), c)
            /\ Settle(c, "running", reply, Asked[c])

\* A reroute that the call's shape refuses is an observation.
AnswerRefused(c, reply) ==
  /\ Enforced(c, reply) /\ ~Stops(call[c], reply)
  /\ Reroute(call[c], reply) # None /\ ~Fits(c)
  /\ ses' = Push(ses, {[of |-> c, outcome |-> "reroute_rejected", by |-> "check"]})
  /\ Settle(c, "running", reply, Asked[c])

AnswerPasses(c, reply) ==
  /\ Enforced(c, reply) /\ ~Stops(call[c], reply)
  /\ \/ Reroute(call[c], reply) = None
     \/ Reroute(call[c], reply) = Asked[c] /\ Fits(c)
  /\ UNCHANGED ses
  /\ Settle(c, "running", reply, Asked[c])

\* A running call logs a row: its own, a failure row, a framework's.
LogRow(c) ==
  /\ call[c].pc = "running" /\ call[c].rows < MaxRows
  /\ ses' = Log(ses, c)
  /\ call' = [call EXCEPT ![c].rows = @ + 1]
  /\ UNCHANGED <<firewall, service, key, checked, late>>

\* A batch result is read: no check of its own, the row's marker is looked up
\* under whatever key the task has.  One read is enough: a bound.
LogBatch(t) ==
  /\ \A row \in ses.rows : row.call # None
  /\ ses' = [ses EXCEPT
       !.markers = Live(@),
       !.rows = @ \union {[call |-> None, nr |-> 0, decision |-> None,
                          marker |-> TheOne(Of(Live(ses.markers), key[t])),
                          observations |-> {}]}]
  /\ UNCHANGED <<firewall, service, key, checked, late, call>>

\* 300 s have passed since a check.
TimePasses ==
  /\ late < Len(checked) /\ call[checked[late + 1]].pc # "asking"
  /\ late' = late + 1
  /\ UNCHANGED <<firewall, service, key, checked, call, ses>>

-------------------------------------------------------------------------------
(* The service and its stream. *)

\* Nothing reads the rules once every call is decided: a bound.
ServiceStep ==
  /\ \E c \in Calls : call[c].pc \in {"idle", "asking"}
  /\ UNCHANGED <<firewall, key, checked, late, call, ses>>

Edit ==
  /\ edits < MaxEdits
  /\ \E r \in Policies \ {rules} : rules' = r
  /\ edits' = edits + 1
  /\ UNCHANGED <<pack, stream>> /\ ServiceStep

Deliver ==
  /\ stream = "up" /\ pack # rules
  /\ pack' = rules
  /\ UNCHANGED <<rules, edits, stream>> /\ ServiceStep

StreamChange ==
  /\ \/ stream = "up" /\ stream' = "down"
     \/ stream = "down" /\ stream' \in {"up", "stale"}
     \/ stream = "stale" /\ stream' = "up"
  /\ UNCHANGED <<rules, edits, pack>> /\ ServiceStep

Next ==
  \/ Edit \/ Deliver \/ StreamChange \/ TimePasses
  \/ \E c \in Calls :
       \/ \E shape \in ShapesOf[c] : Begin(c, shape)
       \/ \E reply \in Replies :
            \/ AnswerDry(c, reply) \/ AnswerBlocks(c, reply)
            \/ AnswerReroutes(c, reply) \/ AnswerRefused(c, reply)
            \/ AnswerPasses(c, reply)
       \/ LogRow(c)
  \/ \E t \in Tasks : LogBatch(t)

Spec == Init /\ [][Next]_vars

-------------------------------------------------------------------------------
(* What the check promises. *)

TypeOK ==
  /\ firewall \in {"enforce", "dry_run"}
  /\ rules \in RuleSets /\ edits \in 0 .. MaxEdits
  /\ pack \in RuleSets \union {None} /\ stream \in {"up", "down", "stale"}
  /\ key \in [Tasks -> Calls \union {None}]
  /\ checked \in Seq(Calls) /\ late \in 0 .. Len(checked)
  /\ call \in [Calls -> Call]
  /\ ses.decisions \subseteq Decision /\ Cardinality(ses.decisions) <= Cap
  /\ ses.markers \subseteq Marker /\ Cardinality(ses.markers) <= Cap
  /\ ses.queue \subseteq Observation /\ ses.rows \subseteq Row

\* A call that the pack blocks runs, where blocks are enforced, only if the
\* service answered and did not block it; and a call is blocked only if the
\* service says so now, or cannot be reached and the pack said so.
BlockStands ==
  /\ \A c \in Calls :
       firewall = "enforce" /\ call[c].pc = "running" /\ call[c].local = "blocked"
         => ~call[c].reply.open /\ call[c].reply.status # "blocked"
  /\ \A c \in Calls :
       call[c].pc = "blocked" =>
         /\ firewall = "enforce"
         /\ call[c].reply.status = "blocked"
            \/ (call[c].reply.open /\ call[c].local = "blocked")

\* On a stale stream, a call that runs unverified is one the service's rules
\* allow, however many armings and disarmings of known rules the pack missed
\* (_stale_stream_needs_check with armable_miss).
UnverifiedAllowIsTrue ==
  [][\A c \in Calls :
       /\ call[c].pc = "idle" /\ call'[c].pc = "running"
       /\ stream = "stale" /\ rules.known = pack.known /\ rules.to = pack.to
       => Status(rules, c, call'[c].shape) = "allowed"]_vars

Deciders == {c \in Calls : \/ call[c].pc = "blocked" \/ call[c].shape = "manager"
                           \/ call[c].wire # Asked[c]}

\* What a row says of its call happened on the wire: a rerouted call's request
\* carried the target, a blocked one was never sent; a withdrawn, replaced or
\* sibling's reroute is on no row.  Conversely, a reroute is reported by its
\* call's first row, unless the call took longer than 300 s or more calls
\* decided than the store holds.
RowsTellTheWire ==
  /\ \A row \in ses.rows :
       /\ row.decision # None =>
            /\ row.decision.of = row.call
            /\ IF row.decision.outcome = "blocked" THEN call[row.call].pc = "blocked"
               ELSE call[row.call].wire = row.decision.to
       /\ row.marker # None => call[row.marker.of].wire = row.marker.to
  /\ \A c \in Calls :
       call[c].wire # Asked[c] /\ call[c].rows > 0 /\ ~IsLate(c)
       /\ Cardinality(Deciders) <= Cap
         => \E row \in ses.rows : /\ row.call = c /\ row.nr = 0
                                  /\ row.decision # None /\ row.marker # None

\* A decision is an audit event and is shipped at most once.  So is an
\* observation, on its own call's row or, 300 s later, on any.
EvidenceOnce ==
  /\ \A r1, r2 \in ses.rows :
       r1 # r2 => /\ r1.decision = None \/ r1.decision # r2.decision
                  /\ r1.observations \intersect r2.observations = {}
  /\ \A row \in ses.rows :
       /\ row.observations \intersect ses.queue = {}
       /\ \A o \in row.observations : o.of = row.call \/ IsLate(o.of)

\* A dry run misses no reroute: what enforcing would have applied, given the
\* same pack and the same answer, is recorded.
PreviewMissesNothing ==
  \A c \in Calls :
    LET me == call[c]
    IN  firewall = "dry_run" /\ me.reply # None /\ Fits(c) /\ ~Stops(me, me.reply)
        /\ Reroute(me, me.reply) \notin {None, Asked[c]}
          => \E o \in ses.queue \union UNION {row.observations : row \in ses.rows} :
               o.of = c /\ o.outcome = "would_reroute"

\* Applied-reroute provenance is never shown on another call's row, batch
\* results included (_log_anthropic_batch_entry).
MarkerOnOwnRow ==
  \A row \in ses.rows : row.marker # None => row.call = row.marker.of
===============================================================================
