---------------------------- MODULE TelemetryPool ----------------------------
(***************************************************************************)
(* How a row leaves the process: TokenPolice.log_sync hands it to a thread *)
(* pool, TokenPolice.log to a task of the running event loop; flush waits  *)
(* for both, close shuts the pool and the HTTP clients.                    *)
(*                                                                         *)
(* A process is an application thread, or a coroutine of an event loop.    *)
(* A step is what runs under one hold of the client's lock, or between two *)
(* calls another thread can come between.                                  *)
(***************************************************************************)
EXTENDS Naturals, Sequences, FiniteSets

CONSTANTS
  Procs,    \* threads and coroutines that use the client
  Loops,    \* event loops
  Rows,     \* rows they log, each once
  Workers,  \* _max_workers of the pool
  None,     \* no row, no process; the loop of a plain thread
  LoopOf,   \* the loop each process runs on
  Closers   \* the processes that may close the client

ASSUME PoolAssumption ==
  /\ IsFiniteSet(Rows)
  /\ Workers \in Nat \ {0}
  /\ None \notin Loops \union Procs \union Rows
  /\ LoopOf \in [Procs -> Loops \union {None}]
  /\ Closers \subseteq Procs

VARIABLES
  at,      \* where each process is in its operation on the client
  hand,    \* the row each process is logging
  waits,   \* the rows its flush waits for
  by,      \* the process that logged each row
  fate,    \* what has become of each row
  queue,   \* the pool's work queue
  pool,    \* the pool accepts work (_executor before shutdown)
  pending, \* _pending_futures
  tasks,   \* _pending_tasks
  armed,   \* futures whose done callback has yet to run
  wire,    \* _sync_client is open
  aio      \* _async_client_instance: "none", "open" or "closed"

vars == <<at, hand, waits, by, fate, queue, pool, pending, tasks, armed, wire, aio>>

\* "flush" and "drain" are flush_sync, called alone or off-loop by flush();
\* a name that begins with "c" is the same step inside close_sync().
Places == {"idle", "submitted", "added", "waiting", "gather", "raised",
           "cgather", "cdrain", "cwaiting", "cjoin", "cshut", "aclose"}
\* "task": an async row's coroutine; "late": its client was already closed.
Fates == {"new", "refused", "queued", "running", "task", "posting",
          "sent", "failed", "late"}
Over  == {"refused", "sent", "failed", "late"}

Init ==
  /\ at = [p \in Procs |-> "idle"] /\ hand = [p \in Procs |-> None]
  /\ waits = [p \in Procs |-> {}]
  /\ by = [r \in Rows |-> None] /\ fate = [r \in Rows |-> "new"]
  /\ queue = <<>> /\ pool = TRUE
  /\ pending = {} /\ tasks = {} /\ armed = {}
  /\ wire = TRUE /\ aio = "none"

Settled(r) == fate[r] \in Over

Goto(p, place) == at' = [at EXCEPT ![p] = place]

-----------------------------------------------------------------------------
(* log_sync *)

\* A pool that was shut down raises from submit(); log_sync swallows it.
Submit(p, r) ==
  /\ at[p] = "idle" /\ fate[r] = "new"
  /\ by' = [by EXCEPT ![r] = p]
  /\ IF pool
     THEN /\ fate' = [fate EXCEPT ![r] = "queued"]
          /\ queue' = Append(queue, r)
          /\ hand' = [hand EXCEPT ![p] = r]
          /\ Goto(p, "submitted")
     ELSE /\ fate' = [fate EXCEPT ![r] = "refused"]
          /\ UNCHANGED <<queue, hand, at>>
  /\ UNCHANGED <<waits, pool, pending, tasks, armed, wire, aio>>

Add(p) ==
  /\ at[p] = "submitted"
  /\ pending' = pending \union {hand[p]}
  /\ Goto(p, "added")
  /\ UNCHANGED <<hand, waits, by, fate, queue, pool, tasks, armed, wire, aio>>

\* add_done_callback runs the callback at once on a future that is done.
Arm(p) ==
  /\ at[p] = "added"
  /\ IF Settled(hand[p])
     THEN pending' = pending \ {hand[p]} /\ armed' = armed
     ELSE armed' = armed \union {hand[p]} /\ pending' = pending
  /\ hand' = [hand EXCEPT ![p] = None]
  /\ Goto(p, "idle")
  /\ UNCHANGED <<waits, by, fate, queue, pool, tasks, wire, aio>>

-----------------------------------------------------------------------------
(* The pool's worker threads *)

Running == {r \in Rows : fate[r] = "running"}

\* Mutant: the pool starts a thread for each row.
TakeUnbounded ==
  /\ queue # <<>>
  /\ fate' = [fate EXCEPT ![Head(queue)] = "running"]
  /\ queue' = Tail(queue)
  /\ UNCHANGED <<at, hand, waits, by, pool, pending, tasks, armed, wire, aio>>

\* Mutant: a pool that is shut down drops what it has queued.
TakeOpen ==
  /\ queue # <<>> /\ Cardinality(Running) < Workers /\ pool
  /\ fate' = [fate EXCEPT ![Head(queue)] = "running"]
  /\ queue' = Tail(queue)
  /\ UNCHANGED <<at, hand, waits, by, pool, pending, tasks, armed, wire, aio>>

Take ==
  /\ queue # <<>> /\ Cardinality(Running) < Workers
  /\ fate' = [fate EXCEPT ![Head(queue)] = "running"]
  /\ queue' = Tail(queue)
  /\ UNCHANGED <<at, hand, waits, by, pool, pending, tasks, armed, wire, aio>>

\* _send: a transport error is swallowed, and so is a closed client's.
Post(r) ==
  /\ fate[r] = "running"
  /\ \E end \in IF wire THEN {"sent", "failed"} ELSE {"late"} :
       fate' = [fate EXCEPT ![r] = end]
  /\ UNCHANGED <<at, hand, waits, by, queue, pool, pending, tasks, armed, wire, aio>>

\* The future wakes its waiters before the worker runs _cleanup.
Cleanup(r) ==
  /\ r \in armed /\ Settled(r)
  /\ pending' = pending \ {r} /\ armed' = armed \ {r}
  /\ UNCHANGED <<at, hand, waits, by, fate, queue, pool, tasks, wire, aio>>

-----------------------------------------------------------------------------
(* log: a task of the running loop.  Without a loop create_task raises, and *)
(* log swallows it.                                                         *)

LogAsync(p, r) ==
  /\ at[p] = "idle" /\ fate[r] = "new"
  /\ by' = [by EXCEPT ![r] = p]
  /\ IF LoopOf[p] # None
     THEN /\ fate' = [fate EXCEPT ![r] = "task"] /\ tasks' = tasks \union {r}
     ELSE /\ fate' = [fate EXCEPT ![r] = "refused"] /\ tasks' = tasks
  /\ UNCHANGED <<at, hand, waits, queue, pool, pending, armed, wire, aio>>

\* The task first runs: _get_async_client builds the client on first use, and
\* never again after close_async has closed it.
TaskStart(r) ==
  /\ fate[r] = "task"
  /\ fate' = [fate EXCEPT ![r] = IF aio = "closed" THEN "late" ELSE "posting"]
  /\ aio' = IF aio = "none" THEN "open" ELSE aio
  /\ UNCHANGED <<at, hand, waits, by, queue, pool, pending, tasks, armed, wire>>

TaskPost(r) ==
  /\ fate[r] = "posting"
  /\ \E end \in IF aio = "closed" THEN {"late"} ELSE {"sent", "failed"} :
       fate' = [fate EXCEPT ![r] = end]
  /\ UNCHANGED <<at, hand, waits, by, queue, pool, pending, tasks, armed, wire, aio>>

\* The loop runs the task's done callback on a later turn.
TaskCleanup(r) ==
  /\ r \in tasks /\ Settled(r)
  /\ tasks' = tasks \ {r}
  /\ UNCHANGED <<at, hand, waits, by, fate, queue, pool, pending, armed, wire, aio>>

-----------------------------------------------------------------------------
(* flush_sync, flush *)

FlushSync(p) ==
  /\ at[p] = "idle" /\ LoopOf[p] = None
  /\ waits' = [waits EXCEPT ![p] = pending]
  /\ Goto(p, "waiting")
  /\ UNCHANGED <<hand, by, fate, queue, pool, pending, tasks, armed, wire, aio>>

\* gather() takes the tasks of the caller's own loop only: awaiting a task of
\* another loop raises, and this part of flush() is not guarded.
Foreign(p) == {r \in tasks : LoopOf[by[r]] # LoopOf[p]}

FlushAsync(p) ==
  /\ at[p] = "idle" /\ LoopOf[p] # None
  /\ waits' = [waits EXCEPT ![p] = tasks]
  /\ Goto(p, IF Foreign(p) = {} THEN "gather" ELSE "raised")
  /\ UNCHANGED <<hand, by, fate, queue, pool, pending, tasks, armed, wire, aio>>

\* Mutant: flush() awaits the loop's tasks and no thread.
GatheredOnly(p) ==
  /\ \/ at[p] = "gather" /\ Goto(p, "waiting")
     \/ at[p] = "cgather" /\ Goto(p, "cdrain")
  /\ \A r \in waits[p] : Settled(r)
  /\ waits' = [waits EXCEPT ![p] = {}]
  /\ UNCHANGED <<hand, by, fate, queue, pool, pending, tasks, armed, wire, aio>>

\* The tasks are done: flush() goes on with flush_sync in another thread.
Gathered(p) ==
  /\ \/ at[p] = "gather" /\ Goto(p, "waiting")
     \/ at[p] = "cgather" /\ Goto(p, "cdrain")
  /\ \A r \in waits[p] : Settled(r)
  /\ waits' = [waits EXCEPT ![p] = pending]
  /\ UNCHANGED <<hand, by, fate, queue, pool, pending, tasks, armed, wire, aio>>

FlushReturn(p) ==
  /\ at[p] = "waiting"
  /\ \A r \in waits[p] : Settled(r)
  /\ waits' = [waits EXCEPT ![p] = {}]
  /\ Goto(p, "idle")
  /\ UNCHANGED <<hand, by, fate, queue, pool, pending, tasks, armed, wire, aio>>

-----------------------------------------------------------------------------
(* close_sync, close_async *)

CloseSync(p) ==
  /\ at[p] = "idle" /\ p \in Closers /\ LoopOf[p] = None
  /\ waits' = [waits EXCEPT ![p] = pending]
  /\ Goto(p, "cwaiting")
  /\ UNCHANGED <<hand, by, fate, queue, pool, pending, tasks, armed, wire, aio>>

\* close_async() flushes, then runs close_sync, which flushes again.
CloseAsync(p) ==
  /\ at[p] = "idle" /\ p \in Closers /\ LoopOf[p] # None
  /\ waits' = [waits EXCEPT ![p] = tasks]
  /\ Goto(p, IF Foreign(p) = {} THEN "cgather" ELSE "raised")
  /\ UNCHANGED <<hand, by, fate, queue, pool, pending, tasks, armed, wire, aio>>

CloseDrained(p) ==
  /\ at[p] = "cdrain"
  /\ \A r \in waits[p] : Settled(r)
  /\ waits' = [waits EXCEPT ![p] = pending]
  /\ Goto(p, "cwaiting")
  /\ UNCHANGED <<hand, by, fate, queue, pool, pending, tasks, armed, wire, aio>>

CloseFlushed(p) ==
  /\ at[p] = "cwaiting"
  /\ \A r \in waits[p] : Settled(r)
  /\ waits' = [waits EXCEPT ![p] = {}]
  /\ Goto(p, "cshut")
  /\ UNCHANGED <<hand, by, fate, queue, pool, pending, tasks, armed, wire, aio>>

Shutdown(p) ==
  /\ at[p] = "cshut"
  /\ pool' = FALSE
  /\ Goto(p, "cjoin")
  /\ UNCHANGED <<hand, waits, by, fate, queue, pending, tasks, armed, wire, aio>>

\* shutdown(wait=True) joins the workers, which empty the queue first.
Joined == queue = <<>> /\ Running = {}

\* Mutant: shutdown(wait=False).
CloseHttpAtOnce(p) ==
  /\ at[p] = "cjoin"
  /\ wire' = FALSE
  /\ Goto(p, IF LoopOf[p] = None THEN "idle" ELSE "aclose")
  /\ UNCHANGED <<hand, waits, by, fate, queue, pool, pending, tasks, armed, aio>>

CloseHttp(p) ==
  /\ at[p] = "cjoin" /\ Joined
  /\ wire' = FALSE
  /\ Goto(p, IF LoopOf[p] = None THEN "idle" ELSE "aclose")
  /\ UNCHANGED <<hand, waits, by, fate, queue, pool, pending, tasks, armed, aio>>

Aclose(p) ==
  /\ at[p] = "aclose"
  /\ aio' = IF aio = "open" THEN "closed" ELSE aio
  /\ Goto(p, "idle")
  /\ UNCHANGED <<hand, waits, by, fate, queue, pool, pending, tasks, armed, wire>>

-----------------------------------------------------------------------------
PoolStep(r) == Post(r) \/ Cleanup(r) \/ TaskStart(r) \/ TaskPost(r) \/ TaskCleanup(r)

\* What a process does once its operation is under way.
GoOn(p) ==
  \/ Add(p) \/ Arm(p) \/ Gathered(p) \/ FlushReturn(p)
  \/ CloseDrained(p) \/ CloseFlushed(p) \/ Shutdown(p) \/ CloseHttp(p) \/ Aclose(p)

Begin(p) ==
  \/ FlushSync(p) \/ FlushAsync(p) \/ CloseSync(p) \/ CloseAsync(p)
  \/ \E r \in Rows : Submit(p, r) \/ LogAsync(p, r)

Next ==
  \/ Take
  \/ \E r \in Rows : PoolStep(r)
  \/ \E p \in Procs : GoOn(p) \/ Begin(p)

\* Worker threads, loops and the threads inside the client are scheduled; a
\* POST ends, at the client's timeout at the latest.
Fairness ==
  /\ WF_vars(Take)
  /\ \A r \in Rows : WF_vars(Post(r)) /\ WF_vars(TaskStart(r)) /\ WF_vars(TaskPost(r))
  /\ \A p \in Procs : WF_vars(GoOn(p))

Spec == Init /\ [][Next]_vars
FairSpec == Spec /\ Fairness

-----------------------------------------------------------------------------
TypeOK ==
  /\ at \in [Procs -> Places]
  /\ hand \in [Procs -> Rows \union {None}]
  /\ waits \in [Procs -> SUBSET Rows]
  /\ by \in [Rows -> Procs \union {None}]
  /\ fate \in [Rows -> Fates]
  /\ queue \in Seq(Rows)
  /\ pool \in BOOLEAN /\ wire \in BOOLEAN
  /\ aio \in {"none", "open", "closed"}
  /\ pending \subseteq Rows /\ tasks \subseteq Rows /\ armed \subseteq Rows
  /\ Cardinality(Running) <= Workers

\* flush(), flush_sync(): when a flush returns, every row its caller logged
\* before is out of the process or known to have failed (serverless handlers
\* are frozen after it).
FlushDrainsOwn ==
  [][\A p \in Procs : FlushReturn(p) =>
       \A r \in Rows : by[r] = p => Settled(r)]_vars

\* close_sync(): a row the pool accepted is posted before the HTTP client is
\* closed, whoever logs while the client closes and whoever closes it.  Once
\* every row is over and every callback has run, no future is left in the set of
\* the pending ones (_cleanup).
AcceptedIsPosted ==
  /\ \A r \in Rows : fate[r] = "running" => wire
  /\ (/\ \A p \in Procs : at[p] \notin {"submitted", "added"}
      /\ \A r \in Rows : fate[r] \in {"new"} \union Over
      /\ armed = {}) => pending = {}

\* A flush or a close comes to its end, whatever the other processes log
\* meanwhile: it waits for what was pending when it began.
EndsItsOperation ==
  \A p \in Procs : at[p] # "idle" ~> at[p] \in {"idle", "raised"}

\* "flush() can never raise into customer code".
FlushNeverRaises == \A p \in Procs : at[p] # "raised"
=============================================================================
