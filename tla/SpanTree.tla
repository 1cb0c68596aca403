------------------------------- MODULE SpanTree -------------------------------
(***************************************************************************)
(* The span tree of the rows: parents, orders and tool-call ids.           *)
(*                                                                         *)
(* Spans start and end in tasks that copy each other's context variables.  *)
(* Scopes (session, agent, chain, workflow), tool spans and model spans    *)
(* become rows; the frames that frameworks put between them do not, so a   *)
(* row's parent is looked up in two bounded maps.  A wrapped call reserves *)
(* the order its span will take.  A model's reply leaves the ids of the    *)
(* tool calls it asks for, which the rows of the tools pick up by name.    *)
(*                                                                         *)
(* An action is one call of the application or of a framework; nothing in  *)
(* it lets another task run.                                               *)
(***************************************************************************)
EXTENDS Naturals, Sequences, FiniteSets, SequencesExt

CONSTANTS
  Tasks, Main,  \* the tasks, and the one that is there from the start
  Spans,        \* every span, and every row without a span of its own
  Programs,     \* what each of them is to be, None if there is none
  Names,        \* names of tools
  Replies,      \* sequences of tool names a model may ask for
  Cap,          \* entries the two maps keep (_SPAN_PARENT_CAP)
  Hops,         \* rounds of the walk up the recorded parents (64)
  None          \* Python's None, and the empty span id

\* "stream" is a model span that is never the current one and ends at any time;
\* "call" a model span inside an instrumented wrapper; "manual" a call metered
\* without a span; "fn" a @tool function; "agents" a tool run of OpenAI Agents.
AllKinds == {"scope", "frame", "tool", "llm", "stream", "call", "manual", "fn", "agents"}
Models   == {"llm", "stream", "call"}

ASSUME SpanAssumption ==
  /\ IsFiniteSet(Spans)
  /\ Main \in Tasks /\ None \notin Spans \union Names \union Nat
  /\ Programs \subseteq [Spans -> AllKinds \union {None}]
  /\ Replies \subseteq Seq(Names)
  /\ Cap \in Nat \ {0} /\ Hops \in Nat \ {0}

VARIABLES
  span,   \* what each span is
  task,   \* the context variables of each task, and its open with blocks
  ses,    \* the session of each scope; the list a reply leaves without one
  maps,   \* _span_parent and _kept_spans, oldest entries first
  row     \* the row logged for each span

vars == <<span, task, ses, maps, row>>

SpanOrNone == Spans \union {None}

Span == [
  state   : {"new", "wrapped", "open", "done"},
  kind    : AllKinds \union {None},
  name    : Names \union {None},
  parent  : SpanOrNone,      \* its native parent
  session : SpanOrNone,      \* the session of its attributes
  order   : Nat \union {None}]  \* of its row; a frame's is not kept

\* cur is the current span; resv the call whose reservation is in force; list
\* the reply whose ids are pending outside any session.
Context == [cur : SpanOrNone, session : SpanOrNone, resv : SpanOrNone, list : SpanOrNone]
Task    == [active : BOOLEAN, ctx : Context, stack : Seq([span : Spans, was : Context])]

Id  == [of : Spans, nth : Nat, name : Names]
Session == [
  counter  : Nat,                 \* _span_counter
  pending  : Seq(Id),             \* _pending_tool_calls
  reserved : Nat \union {None},   \* the order of this call's reservation ...
  used     : BOOLEAN,             \* ... and whether a span has taken it
  reply    : SpanOrNone]          \* the latest model reply

Row == [parent : SpanOrNone, id : Id \union {None}]

\* Python's None is no row.
ASSUME NoneAssumption == None \notin Row

NoContext == [cur |-> None, session |-> None, resv |-> None, list |-> None]

Init ==
  /\ \E program \in Programs :
       span = [s \in Spans |-> [state |-> "new", kind |-> program[s], name |-> None,
                                parent |-> None, session |-> None, order |-> None]]
  /\ task = [t \in Tasks |-> [active |-> t = Main, ctx |-> NoContext, stack |-> <<>>]]
  /\ ses = [s \in Spans |-> [counter |-> 0, pending |-> <<>>, reserved |-> None,
                            used |-> FALSE, reply |-> None]]
  /\ maps = [parents |-> <<>>, kept |-> <<>>]
  /\ row = [s \in Spans |-> None]

-----------------------------------------------------------------------------
(* The two maps.                                                           *)

\* Mutant: the oldest entry is not let go.
NewestToo(seq) == seq

Newest(seq) == IF Len(seq) > Cap THEN Tail(seq) ELSE seq

RecordParent(m, s, p) == [m EXCEPT !.parents = Newest(Append(@, [span |-> s, parent |-> p]))]
RecordKept(m, s)      == [m EXCEPT !.kept = Newest(Append(@, s))]

Recorded(m, s) == \E i \in DOMAIN m.parents : m.parents[i].span = s
ParentIn(m, s) == m.parents[CHOOSE i \in DOMAIN m.parents : m.parents[i].span = s].parent
Survives(m, s) == \E i \in DOMAIN m.kept : m.kept[i] = s

\* Mutant: the walk hops past a span that survives.
KeptParentPast(m, p, root) ==
  LET up[hops \in 0 .. Hops - 1] ==
        LET q == IF hops = 0 THEN p ELSE up[hops - 1]
        IN  IF q = None \/ ~Recorded(m, q) THEN q ELSE ParentIn(m, q)
      top == up[Hops - 1]
  IN  IF top = None THEN root ELSE top

\* _resolve_kept_parent: up the recorded parents to the first that survives, or
\* to one that is not recorded, or to where the last round of the walk leaves it.
KeptParent(m, p, root) ==
  LET up[hops \in 0 .. Hops - 1] ==
        LET q == IF hops = 0 THEN p ELSE up[hops - 1]
        IN  IF q = None \/ Survives(m, q) \/ ~Recorded(m, q) THEN q ELSE ParentIn(m, q)
      top == up[Hops - 1]
  IN  IF top = None THEN root ELSE top

\* A tool span's attributes carry no root.
Root(s) == IF span[s].kind = "tool" THEN None ELSE span[s].session

-----------------------------------------------------------------------------
(* Orders and reservations.                                                *)

\* Outside any session every caller has a new one, whose first order is 0.
NextOrder(session) == IF session = None THEN 0 ELSE ses[session].counter
Counted(session)   == IF session = None THEN ses ELSE [ses EXCEPT ![session].counter = @ + 1]

Reserves(ctx) == ctx.resv # None /\ ~ses[ctx.resv].used

\* Mutant: a reservation is read, not consumed.
TakenRead(ctx) == IF Reserves(ctx) THEN ses ELSE Counted(ctx.session)

\* consume_reserved_span_order, or the next order of the session.
TakenOrder(ctx) == IF Reserves(ctx) THEN ses[ctx.resv].reserved ELSE NextOrder(ctx.session)
Taken(ctx) == IF Reserves(ctx) THEN [ses EXCEPT ![ctx.resv].used = TRUE]
              ELSE Counted(ctx.session)

-----------------------------------------------------------------------------
(* Pending tool calls.                                                     *)

Asked(s, reply) == [i \in DOMAIN reply |-> [of |-> s, nth |-> i, name |-> reply[i]]]

\* set_pending_tool_calls: what was pending in the session is replaced; outside
\* a session the reply leaves a list of its own.
Captured(m, ctx, s, reply) ==
  LET home == IF ctx.session = None THEN s ELSE ctx.session
  IN  [m EXCEPT ![home].pending = Asked(s, reply), ![home].reply = s]

ListAfter(ctx, s, reply) ==
  IF ctx.session # None \/ reply = <<>> THEN None ELSE s

\* The list a tool's row looks in, and the entry it takes.
Home(ctx) == IF ctx.session # None THEN ctx.session ELSE ctx.list
Matches(ctx, name) ==
  IF Home(ctx) = None THEN {}
  ELSE {i \in DOMAIN ses[Home(ctx)].pending : ses[Home(ctx)].pending[i].name = name}
First(S) == CHOOSE i \in S : \A j \in S : i <= j

PoppedId(ctx, name) ==
  IF Matches(ctx, name) = {} THEN None
  ELSE ses[Home(ctx)].pending[First(Matches(ctx, name))]

\* Mutant: every task pops from a copy.
PoppedCopy(ctx, name) == ses

\* _pop_pending_tool_call_id: removed in place, for every task that shares it.
Popped(ctx, name) ==
  IF Matches(ctx, name) = {} THEN ses
  ELSE [ses EXCEPT ![Home(ctx)].pending = RemoveAt(@, First(Matches(ctx, name)))]

-----------------------------------------------------------------------------
(* Tasks and scopes.                                                       *)

Ctx(t) == task[t].ctx
Top(t) == task[t].stack[Len(task[t].stack)].span

\* A task whose call has reserved an order makes the request next.
Ready(t) ==
  /\ task[t].active
  /\ task[t].stack # <<>> => span[Top(t)].state # "wrapped"
Inside(t, kinds) ==
  task[t].stack # <<>> /\ span[Top(t)].kind \in kinds /\ span[Top(t)].state = "open"

Enter(t, s, ctx) ==
  [task EXCEPT ![t].ctx = ctx, ![t].stack = Append(@, [span |-> s, was |-> Ctx(t)])]

\* Leaving a block restores the variables it has set, with their tokens.
Leave(t) ==
  LET was == task[t].stack[Len(task[t].stack)].was
  IN  [task EXCEPT ![t].ctx = [was EXCEPT !.list = Ctx(t).list],
                   ![t].stack = Front(@)]

Made(s, kind, name, parent, session, order, state) ==
  [span EXCEPT ![s] = [state |-> state, kind |-> kind, name |-> name,
                       parent |-> parent, session |-> session, order |-> order]]
Ended(s) == [span EXCEPT ![s].state = "done"]
Logged(s, parent, id) == [row EXCEPT ![s] = [parent |-> parent, id |-> id]]

New(s, kind) == span[s].state = "new" /\ span[s].kind = kind

\* asyncio copies the context: the variables, not what they refer to.
Spawn(t, u) ==
  /\ Ready(t) /\ ~task[u].active
  /\ task' = [task EXCEPT ![u] = [active |-> TRUE, ctx |-> Ctx(t), stack |-> <<>>]]
  /\ UNCHANGED <<span, ses, maps, row>>

\* A new session in the trace of the enclosing one, anchored to the scope's span.
OpenScope(t, s) ==
  /\ Ready(t) /\ New(s, "scope")
  /\ span' = Made(s, "scope", None, Ctx(t).cur, s, None, "open")
  /\ task' = Enter(t, s, [Ctx(t) EXCEPT !.cur = s, !.session = s])
  /\ UNCHANGED <<ses, maps, row>>

\* Its row keeps the native parent.
CloseScope(t) ==
  /\ Ready(t) /\ Inside(t, {"scope"})
  /\ span' = Ended(Top(t))
  /\ row' = Logged(Top(t), span[Top(t)].parent, None)
  /\ task' = Leave(t)
  /\ UNCHANGED <<ses, maps>>

-----------------------------------------------------------------------------
(* Spans of the instrumentors and frameworks.                              *)

\* on_start; a frame may be the root of a context of its own.  Tools take no order
\* and frames take one unless their name tells what they are.
Start(t, s, name, detached, ordered) ==
  LET kind == span[s].kind IN
  /\ Ready(t) /\ New(s, kind) /\ kind \in {"frame", "tool", "llm", "stream"}
  /\ (name = None) = (kind # "tool") /\ detached => kind = "frame"
  /\ kind # "frame" => ordered = (kind # "tool")
  /\ LET parent == IF detached THEN None ELSE Ctx(t).cur
         noted  == RecordParent(maps, s, parent)
     IN  /\ span' = Made(s, kind, name, parent, Ctx(t).session,
                         IF kind \in Models THEN TakenOrder(Ctx(t)) ELSE None, "open")
         /\ ses' = IF ordered THEN Taken(Ctx(t)) ELSE ses
         /\ maps' = IF kind = "tool" THEN RecordKept(noted, s) ELSE noted
         /\ task' = IF kind = "stream" THEN task
                    ELSE Enter(t, s, [Ctx(t) EXCEPT !.cur = s])
  /\ UNCHANGED row

EndFrame(t) ==
  /\ Ready(t) /\ Inside(t, {"frame"})
  /\ span' = Ended(Top(t)) /\ task' = Leave(t)
  /\ UNCHANGED <<ses, maps, row>>

EndTool(t) ==
  /\ Ready(t) /\ Inside(t, {"tool"})
  /\ LET s == Top(t)
     IN  /\ span' = Ended(s)
         /\ row' = Logged(s, KeptParent(maps, span[s].parent, Root(s)),
                          PoppedId(Ctx(t), span[s].name))
         /\ ses' = Popped(Ctx(t), span[s].name)
  /\ task' = Leave(t)
  /\ UNCHANGED maps

\* on_end of a model span: it survives from now on.
EndModel(s) ==
  LET kept == RecordKept(maps, s)
  IN  /\ span' = Ended(s) /\ maps' = kept
      /\ row' = Logged(s, KeptParent(kept, span[s].parent, Root(s)), None)

EndLlm(t) ==
  /\ Ready(t) /\ Inside(t, {"llm"})
  /\ EndModel(Top(t)) /\ task' = Leave(t)
  /\ UNCHANGED ses

EndStream(t, s) ==
  /\ Ready(t) /\ span[s].kind = "stream" /\ span[s].state = "open"
  /\ EndModel(s)
  /\ UNCHANGED <<task, ses>>

-----------------------------------------------------------------------------
(* The enforcer's wrappers, @tool functions, and OpenAI Agents.            *)

Wrap(t, s) ==
  /\ Ready(t) /\ New(s, "call")
  /\ LET order == NextOrder(Ctx(t).session)
     IN  /\ span' = Made(s, "call", None, None, Ctx(t).session, None, "wrapped")
         /\ ses' = [Counted(Ctx(t).session) EXCEPT ![s].reserved = order]
  /\ task' = Enter(t, s, [Ctx(t) EXCEPT !.resv = s])
  /\ UNCHANGED <<maps, row>>

\* The provider's instrumentor starts its span.
Request(t) ==
  /\ task[t].active /\ task[t].stack # <<>> /\ span[Top(t)].state = "wrapped"
  /\ LET s == Top(t)
     IN  /\ span' = Made(s, "call", None, Ctx(t).cur, Ctx(t).session,
                         TakenOrder(Ctx(t)), "open")
         /\ maps' = RecordParent(maps, s, Ctx(t).cur)
         /\ task' = [task EXCEPT ![t].ctx.cur = s]
  /\ ses' = Taken(Ctx(t))
  /\ UNCHANGED row

Return(t, reply) ==
  /\ Ready(t) /\ Inside(t, {"call"})
  /\ LET s == Top(t)
     IN  /\ EndModel(s)
         /\ ses' = Captured(ses, Ctx(t), s, reply)
         /\ task' = [Leave(t) EXCEPT ![t].ctx.list = ListAfter(Ctx(t), s, reply)]

\* manual_span_ids: the row's parent is the current span, whatever it is.
ManualParent(ctx) == IF ctx.cur # None THEN ctx.cur ELSE ctx.session

Manual(t, s, reply) ==
  /\ Ready(t) /\ New(s, "manual")
  /\ span' = Made(s, "manual", None, Ctx(t).cur, Ctx(t).session,
                  NextOrder(Ctx(t).session), "done")
  /\ row' = Logged(s, ManualParent(Ctx(t)), None)
  /\ ses' = Captured(Counted(Ctx(t).session), Ctx(t), s, reply)
  /\ task' = [task EXCEPT ![t].ctx.list = ListAfter(Ctx(t), s, reply)]
  /\ UNCHANGED maps

EnterFn(t, s, name) ==
  /\ Ready(t) /\ New(s, "fn")
  /\ span' = Made(s, "fn", name, Ctx(t).cur, Ctx(t).session, None, "open")
  /\ task' = Enter(t, s, Ctx(t))
  /\ UNCHANGED <<ses, maps, row>>

ExitFn(t) ==
  /\ Ready(t) /\ Inside(t, {"fn"})
  /\ LET s == Top(t)
     IN  /\ span' = Ended(s)
         /\ row' = Logged(s, ManualParent(Ctx(t)), PoppedId(Ctx(t), span[s].name))
         /\ ses' = Popped(Ctx(t), span[s].name)
  /\ task' = Leave(t)
  /\ UNCHANGED maps

\* The tracing processor of OpenAI Agents: the parent is the session's scope.
AgentsTool(t, s, name) ==
  /\ Ready(t) /\ New(s, "agents")
  /\ span' = Made(s, "agents", name, Ctx(t).cur, Ctx(t).session, None, "done")
  /\ row' = Logged(s, Ctx(t).session, PoppedId(Ctx(t), name))
  /\ ses' = Popped(Ctx(t), name)
  /\ UNCHANGED <<task, maps>>

-----------------------------------------------------------------------------
Next ==
  \E t \in Tasks :
    \/ \E u \in Tasks : Spawn(t, u)
    \/ \E s \in Spans :
         \/ OpenScope(t, s)
         \/ \E name \in Names \union {None}, detached, ordered \in BOOLEAN :
              Start(t, s, name, detached, ordered)
         \/ EndStream(t, s)
         \/ Wrap(t, s)
         \/ \E reply \in Replies : Manual(t, s, reply)
         \/ \E name \in Names : EnterFn(t, s, name) \/ AgentsTool(t, s, name)
    \/ CloseScope(t) \/ EndFrame(t) \/ EndTool(t) \/ EndLlm(t)
    \/ Request(t) \/ ExitFn(t)
    \/ \E reply \in Replies : Return(t, reply)

Spec == Init /\ [][Next]_vars

-----------------------------------------------------------------------------
TypeOK ==
  /\ span \in [Spans -> Span]
  /\ task \in [Tasks -> Task]
  /\ ses \in [Spans -> Session]
  /\ maps \in [parents : Seq([span : Spans, parent : SpanOrNone]), kept : Seq(Spans)]
  /\ Len(maps.parents) <= Cap /\ Len(maps.kept) <= Cap
  /\ row \in [Spans -> Row \union {None}]

\* A span that has a row by now or will have one (a scope or a tool).
Settles(s) == span[s].kind \in {"scope", "tool"} \/ row[s] # None

\* The first of the spans above s that settles; where each of the first Hops is a
\* frame, the one above these.
NearestAbove(s) ==
  LET up[n \in 0 .. Hops - 1] ==
        LET q == IF n = 0 THEN span[s].parent ELSE up[n - 1]
        IN  IF q = None \/ Settles(q) THEN q ELSE span[q].parent
  IN  up[Hops - 1]

Forgotten(s) == ~Recorded(maps, s) /\ span[s].kind \in Models \union {"frame", "tool"}
NothingForgotten == \A s \in Spans : span[s].state = "new" \/ ~Forgotten(s)

\* As long as the maps have forgotten nothing, the row of a model or tool span
\* hangs under the nearest span above it that is a row too, or under its session's
\* scope; under a dropped frame only beyond Hops other ones (_resolve_kept_parent).
HangsUnderNearest ==
  [][\A s \in Spans :
       row[s] = None /\ row'[s] # None /\ span[s].kind \in Models \union {"tool"}
       /\ NothingForgotten
         => row'[s].parent = IF NearestAbove(s) = None THEN Root(s) ELSE NearestAbove(s)]_vars

\* The span of a wrapped call carries the order reserved for it, and no other
\* row of its session does: what the wrapper stashes under that order reaches
\* this row and no other (reserve_span_order).
OrderIsOwn ==
  \A s \in Spans : span[s].kind = "call" /\ span[s].order # None =>
    /\ span[s].order = ses[s].reserved
    /\ span[s].session # None =>
         \A r \in Spans \ {s} : span[r].session = span[s].session
                                => span[r].order # span[s].order

\* A tool-call id is on one row at most, a row of a tool of that name, and in a
\* session it is an id of the latest reply, never of one that a later reply has
\* replaced (set_pending_tool_calls, _pop_pending_tool_call_id).
IdIsOwn ==
  [][\A s \in Spans : row[s] = None /\ row'[s] # None /\ row'[s].id # None =>
       LET id == row'[s].id
       IN  /\ id.name = span'[s].name
           /\ \A r \in Spans : row[r] # None => row[r].id # id
           /\ span'[s].session # None => id.of = ses[span'[s].session].reply]_vars
===============================================================================
