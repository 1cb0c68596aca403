------------------------- MODULE TelemetryPoolProofs -------------------------
(***************************************************************************)
(* Proofs about TelemetryPool, for any number of processes, loops, rows    *)
(* and workers: the types, that a row the pool accepted never meets a      *)
(* closed client, and that a flush drains the rows of its caller.          *)
(***************************************************************************)
EXTENDS TelemetryPool, FiniteSetTheorems, TLAPS

\* A process holds a row exactly between submit() and add_done_callback().
Handed ==
  \A p \in Procs : IF at[p] \in {"submitted", "added"} THEN hand[p] \in Rows
                                                       ELSE hand[p] = None

\* Once the pool is shut and joined, nothing is queued or running again.
ShutIsEmpty ==
  /\ \A p \in Procs : at[p] = "cjoin" => ~pool
  /\ ~wire => ~pool /\ queue = <<>> /\ Running = {}

\* A pending future has its callback armed, or its thread is about to arm it.
PendingIsArmed ==
  \A r \in pending : r \in armed \/ \E p \in Procs : at[p] = "added" /\ hand[p] = r

\* The queue holds each queued row once, and nothing else.
QueueIsQueued ==
  /\ \A i \in 1..Len(queue) : fate[queue[i]] = "queued"
  /\ \A i, j \in 1..Len(queue) : queue[i] = queue[j] => i = j

\* A row under way is where a flush of the process that logged it can see it,
\* unless that process is still inside log_sync.
RowsAreSeen ==
  /\ \A r \in Rows : by[r] = None <=> fate[r] = "new"
  /\ \A r \in Rows : fate[r] \in {"queued", "running"} =>
       r \in pending \/ (at[by[r]] = "submitted" /\ hand[by[r]] = r)
  /\ \A r \in Rows : fate[r] \in {"task", "posting"} =>
       r \in tasks /\ LoopOf[by[r]] # None

\* What a flush under way waits for covers its caller's rows: first the tasks,
\* then, with every task over, the futures.
WaitsForOwn ==
  \A p \in Procs, r \in Rows : by[r] = p /\ ~Settled(r) =>
    /\ at[p] \in {"gather", "cgather"} /\ fate[r] \in {"task", "posting"}
         => r \in waits[p]
    /\ at[p] = "waiting" => r \in waits[p]

IInv ==
  /\ TypeOK /\ Handed /\ ShutIsEmpty /\ PendingIsArmed
  /\ QueueIsQueued /\ RowsAreSeen /\ WaitsForOwn

\* The action of FlushDrainsOwn.
DrainsOwn ==
  \A p \in Procs : FlushReturn(p) => \A r \in Rows : by[r] = p => Settled(r)

-----------------------------------------------------------------------------
(* The invariant, part by part. *)

\* Initially nothing is logged and nobody is inside the client.
LEMMA InitOK == Init => IInv
<1> SUFFICES ASSUME Init PROVE IInv
  OBVIOUS
<1> USE PoolAssumption DEF Init
<1>1. Running = {}
  BY DEF Running
<1>2. TypeOK
  BY <1>1, FS_EmptySet DEF TypeOK, Places, Fates
<1>3. Handed /\ ShutIsEmpty /\ PendingIsArmed
  BY DEF Handed, ShutIsEmpty, PendingIsArmed
<1>4. QueueIsQueued /\ RowsAreSeen
  BY DEF QueueIsQueued, RowsAreSeen
<1>5. WaitsForOwn
  BY DEF WaitsForOwn
<1>6. QED
  BY <1>2, <1>3, <1>4, <1>5 DEF IInv

\* A process holds a row exactly while it is inside log_sync.
LEMMA StepHanded == IInv /\ [Next]_vars => Handed'
<1> SUFFICES ASSUME IInv, [Next]_vars PROVE Handed'
  OBVIOUS
<1> USE PoolAssumption DEF IInv, TypeOK
<1>1. ASSUME NEW r \in Rows, Post(r) \/ Cleanup(r) \/ TaskStart(r) \/
        TaskPost(r) \/ TaskCleanup(r) PROVE Handed'
  BY <1>1 DEF Post, Cleanup, TaskStart, TaskPost, TaskCleanup, Handed, Goto,
     Places
<1>2. ASSUME NEW p \in Procs, Add(p) PROVE Handed'
  BY <1>2 DEF Add, Handed, Goto, Places
<1>3. ASSUME NEW p \in Procs, Arm(p) PROVE Handed'
  BY <1>3 DEF Arm, Handed, Goto, Places
<1>4. ASSUME NEW p \in Procs, Gathered(p) \/ FlushReturn(p) \/ CloseDrained(p)
        \/ CloseFlushed(p) \/ Shutdown(p) PROVE Handed'
  BY <1>4 DEF Gathered, FlushReturn, CloseDrained, CloseFlushed, Shutdown,
     Handed, Goto, Places
<1>5. ASSUME NEW p \in Procs, CloseHttp(p) \/ Aclose(p) \/ FlushSync(p) \/
        FlushAsync(p) \/ CloseSync(p) \/ CloseAsync(p) PROVE Handed'
  BY <1>5 DEF CloseHttp, Aclose, FlushSync, FlushAsync, CloseSync,
     CloseAsync, Handed, Goto, Places
<1>6. ASSUME NEW p \in Procs, NEW r \in Rows, Submit(p, r) PROVE Handed'
  BY <1>6 DEF Submit, Handed, Goto, Places
<1>7. ASSUME NEW p \in Procs, NEW r \in Rows, LogAsync(p, r) PROVE Handed'
  BY <1>7 DEF LogAsync, Handed, Goto, Places
<1>8. CASE Take \/ UNCHANGED vars
  BY <1>8 DEF Take, vars, Handed, Goto, Places
<1>9. QED
  BY <1>1, <1>2, <1>3, <1>4, <1>5, <1>6, <1>7, <1>8 DEF Next, PoolStep,
     GoOn, Begin

\* After the join nothing starts again: submit() refuses, the queue is empty.
LEMMA StepShutIsEmpty == IInv /\ [Next]_vars => ShutIsEmpty'
<1> SUFFICES ASSUME IInv, [Next]_vars PROVE ShutIsEmpty'
  OBVIOUS
<1> USE PoolAssumption DEF IInv, TypeOK
<1>1. CASE Take
  BY <1>1 DEF Take, ShutIsEmpty, Goto, Running, Joined
<1>2. ASSUME NEW r \in Rows, Post(r) \/ Cleanup(r) \/ TaskStart(r) \/
        TaskPost(r) \/ TaskCleanup(r) PROVE ShutIsEmpty'
  BY <1>2 DEF Post, Cleanup, TaskStart, TaskPost, TaskCleanup, ShutIsEmpty,
     Goto, Running, Joined
<1>3. ASSUME NEW p \in Procs, Shutdown(p) PROVE ShutIsEmpty'
  BY <1>3 DEF Shutdown, ShutIsEmpty, Goto, Running, Joined
<1>4. ASSUME NEW p \in Procs, CloseHttp(p) PROVE ShutIsEmpty'
  BY <1>4 DEF CloseHttp, ShutIsEmpty, Goto, Running, Joined
<1>5. ASSUME NEW p \in Procs, Add(p) \/ Arm(p) \/ Gathered(p) \/
        FlushReturn(p) \/ CloseDrained(p) PROVE ShutIsEmpty'
  BY <1>5 DEF Add, Arm, Gathered, FlushReturn, CloseDrained, ShutIsEmpty,
     Goto, Running, Joined
<1>6. ASSUME NEW p \in Procs, CloseFlushed(p) \/ Aclose(p) \/ FlushSync(p) \/
        FlushAsync(p) \/ CloseSync(p) \/ CloseAsync(p) PROVE ShutIsEmpty'
  BY <1>6 DEF CloseFlushed, Aclose, FlushSync, FlushAsync, CloseSync,
     CloseAsync, ShutIsEmpty, Goto, Running, Joined
<1>7. ASSUME NEW p \in Procs, NEW r \in Rows, Submit(p, r) PROVE ShutIsEmpty'
  BY <1>7 DEF Submit, ShutIsEmpty, Goto, Running, Joined
<1>8. ASSUME NEW p \in Procs, NEW r \in Rows, LogAsync(p, r) PROVE
        ShutIsEmpty'
  BY <1>8 DEF LogAsync, ShutIsEmpty, Goto, Running, Joined
<1>9. CASE UNCHANGED vars
  BY <1>9 DEF vars, ShutIsEmpty, Goto, Running, Joined
<1>10. QED
  BY <1>1, <1>2, <1>3, <1>4, <1>5, <1>6, <1>7, <1>8, <1>9 DEF Next,
     PoolStep, GoOn, Begin

\* No future is pending without a callback on its way.
LEMMA StepPendingIsArmed == IInv /\ [Next]_vars => PendingIsArmed'
<1> SUFFICES ASSUME IInv, [Next]_vars PROVE PendingIsArmed'
  OBVIOUS
<1> USE PoolAssumption DEF IInv, TypeOK
<1>1. ASSUME NEW r \in Rows, Cleanup(r) PROVE PendingIsArmed'
  BY <1>1 DEF Cleanup, PendingIsArmed, Handed, Goto
<1>2. ASSUME NEW r \in Rows, Post(r) \/ TaskStart(r) \/ TaskPost(r) \/
        TaskCleanup(r) PROVE PendingIsArmed'
  BY <1>2 DEF Post, TaskStart, TaskPost, TaskCleanup, PendingIsArmed,
     Handed, Goto
<1>3. ASSUME NEW p \in Procs, Add(p) PROVE PendingIsArmed'
  BY <1>3 DEF Add, PendingIsArmed, Handed, Goto
<1>4. ASSUME NEW p \in Procs, Arm(p) PROVE PendingIsArmed'
  BY <1>4 DEF Arm, PendingIsArmed, Handed, Goto
<1>5. ASSUME NEW p \in Procs, Gathered(p) \/ FlushReturn(p) \/ CloseDrained(p)
        \/ CloseFlushed(p) \/ Shutdown(p) PROVE PendingIsArmed'
  BY <1>5 DEF Gathered, FlushReturn, CloseDrained, CloseFlushed, Shutdown,
     PendingIsArmed, Handed, Goto
<1>6. ASSUME NEW p \in Procs, CloseHttp(p) \/ Aclose(p) \/ FlushSync(p) \/
        FlushAsync(p) \/ CloseSync(p) \/ CloseAsync(p) PROVE PendingIsArmed'
  BY <1>6 DEF CloseHttp, Aclose, FlushSync, FlushAsync, CloseSync,
     CloseAsync, PendingIsArmed, Handed, Goto
<1>7. ASSUME NEW p \in Procs, NEW r \in Rows, Submit(p, r) PROVE
        PendingIsArmed'
  BY <1>7 DEF Submit, PendingIsArmed, Handed, Goto
<1>8. ASSUME NEW p \in Procs, NEW r \in Rows, LogAsync(p, r) PROVE
        PendingIsArmed'
  BY <1>8 DEF LogAsync, PendingIsArmed, Handed, Goto
<1>9. CASE Take \/ UNCHANGED vars
  BY <1>9 DEF Take, vars, PendingIsArmed, Handed, Goto
<1>10. QED
  BY <1>1, <1>2, <1>3, <1>4, <1>5, <1>6, <1>7, <1>8, <1>9 DEF Next,
     PoolStep, GoOn, Begin

\* The queue and the fates tell the same story.
LEMMA StepQueueIsQueued == IInv /\ [Next]_vars => QueueIsQueued'
<1> SUFFICES ASSUME IInv, [Next]_vars PROVE QueueIsQueued'
  OBVIOUS
<1> USE PoolAssumption DEF IInv, TypeOK
<1>1. CASE Take
  <2>1. /\ queue' = Tail(queue) /\ Len(queue) # 0 /\ Len(queue') = Len(queue) - 1
        /\ \A i \in 1..Len(queue') : queue'[i] = queue[i + 1]
    BY <1>1 DEF Take
  <2>2. \A i \in 1..Len(queue') : queue'[i] # queue[1] /\ queue'[i] \in Rows
    BY <2>1 DEF QueueIsQueued
  <2>3. fate' = [fate EXCEPT ![queue[1]] = "running"]
    BY <1>1 DEF Take
  <2>4. \A i \in 1..Len(queue') : fate'[queue'[i]] = "queued"
    <3> SUFFICES ASSUME NEW i \in 1..Len(queue') PROVE fate'[queue'[i]] = "queued"
      OBVIOUS
    <3>1. queue'[i] = queue[i + 1] /\ i + 1 \in 1..Len(queue)
      BY <2>1
    <3>2. fate[queue'[i]] = "queued"
      BY <3>1 DEF QueueIsQueued
    <3>3. QED
      BY <2>2, <2>3, <3>2
  <2>5. ASSUME NEW i \in 1..Len(queue'), NEW j \in 1..Len(queue'), queue'[i] = queue'[j]
        PROVE  i = j
    <3>1. /\ i + 1 \in 1..Len(queue) /\ j + 1 \in 1..Len(queue)
          /\ queue[i + 1] = queue[j + 1]
      BY <2>1, <2>5
    <3>2. i + 1 = j + 1
      BY <3>1 DEF QueueIsQueued
    <3>3. QED
      BY <2>1, <3>2
  <2>6. QED
    BY <2>4, <2>5 DEF QueueIsQueued
<1>2. ASSUME NEW r \in Rows, Post(r) PROVE QueueIsQueued'
  BY <1>2 DEF Post, QueueIsQueued, Goto
<1>3. ASSUME NEW r \in Rows, TaskStart(r) PROVE QueueIsQueued'
  BY <1>3 DEF TaskStart, QueueIsQueued, Goto
<1>4. ASSUME NEW r \in Rows, TaskPost(r) PROVE QueueIsQueued'
  BY <1>4 DEF TaskPost, QueueIsQueued, Goto
<1>5. ASSUME NEW r \in Rows, Cleanup(r) \/ TaskCleanup(r) PROVE QueueIsQueued'
  BY <1>5 DEF Cleanup, TaskCleanup, QueueIsQueued, Goto
<1>6. ASSUME NEW p \in Procs, Add(p) \/ Arm(p) \/ Gathered(p) \/
        FlushReturn(p) \/ CloseDrained(p) \/ CloseFlushed(p) PROVE
        QueueIsQueued'
  BY <1>6 DEF Add, Arm, Gathered, FlushReturn, CloseDrained, CloseFlushed,
     QueueIsQueued, Goto
<1>7. ASSUME NEW p \in Procs, Shutdown(p) \/ CloseHttp(p) \/ Aclose(p) \/
        FlushSync(p) \/ FlushAsync(p) \/ CloseSync(p) \/ CloseAsync(p) PROVE
        QueueIsQueued'
  BY <1>7 DEF Shutdown, CloseHttp, Aclose, FlushSync, FlushAsync, CloseSync,
     CloseAsync, QueueIsQueued, Goto
<1>8. ASSUME NEW p \in Procs, NEW r \in Rows, Submit(p, r) PROVE
        QueueIsQueued'
  <2>1. CASE ~pool
    BY <1>8, <2>1 DEF Submit, QueueIsQueued
  <2>2. CASE pool
    <3>1. /\ Len(queue') = Len(queue) + 1 /\ queue'[Len(queue) + 1] = r
          /\ \A i \in 1..Len(queue) : queue'[i] = queue[i]
      BY <1>8, <2>2 DEF Submit
    <3>2. \A i \in 1..Len(queue) : queue[i] # r /\ queue[i] \in Rows
      BY <1>8 DEF Submit, QueueIsQueued
    <3>3. fate' = [fate EXCEPT ![r] = "queued"]
      BY <1>8, <2>2 DEF Submit
    <3>4. ASSUME NEW i \in 1..Len(queue')
          PROVE  /\ fate'[queue'[i]] = "queued"
                 /\ queue'[i] = r <=> i = Len(queue')
      <4>1. CASE i \in 1..Len(queue)
        <5>1. queue'[i] = queue[i] /\ queue[i] # r /\ queue[i] \in Rows
          BY <3>1, <3>2, <4>1
        <5>2. fate[queue[i]] = "queued"
          BY <4>1 DEF QueueIsQueued
        <5>3. i # Len(queue')
          BY <3>1, <4>1
        <5>4. QED
          BY <3>3, <5>1, <5>2, <5>3
      <4>2. CASE i \notin 1..Len(queue)
        <5>1. i = Len(queue') /\ queue'[i] = r
          BY <3>1, <4>2
        <5>2. QED
          BY <3>3, <5>1
      <4>3. QED
        BY <4>1, <4>2
    <3>5. ASSUME NEW i \in 1..Len(queue'), NEW j \in 1..Len(queue'), queue'[i] = queue'[j]
          PROVE  i = j
      <4>1. CASE queue'[i] = r
        BY <3>4, <3>5, <4>1
      <4>2. CASE queue'[i] # r
        <5>1. i # Len(queue') /\ j # Len(queue')
          BY <3>1, <3>5, <4>2
        <5>2. /\ i \in 1..Len(queue) /\ j \in 1..Len(queue)
              /\ queue[i] = queue[j]
          BY <3>1, <3>5, <5>1
        <5>3. QED
          BY <5>2 DEF QueueIsQueued
      <4>3. QED
        BY <4>1, <4>2
    <3>6. QED
      BY <3>4, <3>5 DEF QueueIsQueued
  <2>3. QED
    BY <2>1, <2>2
<1>9. ASSUME NEW p \in Procs, NEW r \in Rows, LogAsync(p, r) PROVE
        QueueIsQueued'
  <2>1. PICK end : fate' = [fate EXCEPT ![r] = end]
    BY <1>9 DEF LogAsync
  <2>2. \A i \in 1..Len(queue) : queue[i] # r /\ queue[i] \in Rows
    BY <1>9 DEF LogAsync, QueueIsQueued
  <2>3. queue' = queue
    BY <1>9 DEF LogAsync
  <2>4. QED
    BY <2>1, <2>2, <2>3 DEF QueueIsQueued
<1>10. CASE UNCHANGED vars
  BY <1>10 DEF vars, QueueIsQueued, Goto
<1>11. QED
  BY <1>1, <1>2, <1>3, <1>4, <1>5, <1>6, <1>7, <1>8, <1>9, <1>10 DEF Next,
     PoolStep, GoOn, Begin

\* No row under way gets out of the sight of its process.
LEMMA StepRowsAreSeen == IInv /\ [Next]_vars => RowsAreSeen'
<1> SUFFICES ASSUME IInv, [Next]_vars PROVE RowsAreSeen'
  OBVIOUS
<1> USE PoolAssumption DEF IInv, TypeOK
<1>1. CASE Take
  BY <1>1 DEF Take, RowsAreSeen, QueueIsQueued, Handed, Settled, Over, Goto
<1>2. ASSUME NEW r \in Rows, Post(r) PROVE RowsAreSeen'
  BY <1>2 DEF Post, RowsAreSeen, QueueIsQueued, Handed, Settled, Over, Goto
<1>3. ASSUME NEW r \in Rows, Cleanup(r) PROVE RowsAreSeen'
  BY <1>3 DEF Cleanup, RowsAreSeen, QueueIsQueued, Handed, Settled, Over,
     Goto
<1>4. ASSUME NEW r \in Rows, TaskStart(r) PROVE RowsAreSeen'
  BY <1>4 DEF TaskStart, RowsAreSeen, QueueIsQueued, Handed, Settled, Over,
     Goto
<1>5. ASSUME NEW r \in Rows, TaskPost(r) PROVE RowsAreSeen'
  BY <1>5 DEF TaskPost, RowsAreSeen, QueueIsQueued, Handed, Settled, Over,
     Goto
<1>6. ASSUME NEW r \in Rows, TaskCleanup(r) PROVE RowsAreSeen'
  BY <1>6 DEF TaskCleanup, RowsAreSeen, QueueIsQueued, Handed, Settled,
     Over, Goto
<1>7. ASSUME NEW p \in Procs, Add(p) PROVE RowsAreSeen'
  BY <1>7 DEF Add, RowsAreSeen, QueueIsQueued, Handed, Settled, Over, Goto
<1>8. ASSUME NEW p \in Procs, Arm(p) PROVE RowsAreSeen'
  BY <1>8 DEF Arm, RowsAreSeen, QueueIsQueued, Handed, Settled, Over, Goto
<1>9. ASSUME NEW p \in Procs, Gathered(p) \/ FlushReturn(p) \/ CloseDrained(p)
        \/ CloseFlushed(p) \/ Shutdown(p) PROVE RowsAreSeen'
  BY <1>9 DEF Gathered, FlushReturn, CloseDrained, CloseFlushed, Shutdown,
     RowsAreSeen, QueueIsQueued, Handed, Settled, Over, Goto
<1>10. ASSUME NEW p \in Procs, CloseHttp(p) \/ Aclose(p) \/ FlushSync(p) \/
        FlushAsync(p) \/ CloseSync(p) \/ CloseAsync(p) PROVE RowsAreSeen'
  BY <1>10 DEF CloseHttp, Aclose, FlushSync, FlushAsync, CloseSync,
     CloseAsync, RowsAreSeen, QueueIsQueued, Handed, Settled, Over, Goto
<1>11. ASSUME NEW p \in Procs, NEW r \in Rows, Submit(p, r) PROVE RowsAreSeen'
  BY <1>11 DEF Submit, RowsAreSeen, QueueIsQueued, Handed, Settled, Over,
     Goto
<1>12. ASSUME NEW p \in Procs, NEW r \in Rows, LogAsync(p, r) PROVE
        RowsAreSeen'
  BY <1>12 DEF LogAsync, RowsAreSeen, QueueIsQueued, Handed, Settled, Over,
     Goto
<1>13. CASE UNCHANGED vars
  BY <1>13 DEF vars, RowsAreSeen, QueueIsQueued, Handed, Settled, Over, Goto
<1>14. QED
  BY <1>1, <1>2, <1>3, <1>4, <1>5, <1>6, <1>7, <1>8, <1>9, <1>10, <1>11,
     <1>12, <1>13 DEF Next, PoolStep, GoOn, Begin

\* What a flush waits for keeps covering its caller's rows.
LEMMA StepWaitsForOwn == IInv /\ [Next]_vars => WaitsForOwn'
<1> SUFFICES ASSUME IInv, [Next]_vars PROVE WaitsForOwn'
  OBVIOUS
<1> USE PoolAssumption DEF IInv, TypeOK
<1>1. CASE Take
  BY <1>1 DEF Take, WaitsForOwn, RowsAreSeen, QueueIsQueued, Handed,
     Settled, Over, Foreign, Goto
<1>2. ASSUME NEW r \in Rows, Post(r) PROVE WaitsForOwn'
  BY <1>2 DEF Post, WaitsForOwn, RowsAreSeen, QueueIsQueued, Handed,
     Settled, Over, Foreign, Goto
<1>3. ASSUME NEW r \in Rows, TaskStart(r) PROVE WaitsForOwn'
  BY <1>3 DEF TaskStart, WaitsForOwn, RowsAreSeen, QueueIsQueued, Handed,
     Settled, Over, Foreign, Goto
<1>4. ASSUME NEW r \in Rows, TaskPost(r) PROVE WaitsForOwn'
  BY <1>4 DEF TaskPost, WaitsForOwn, RowsAreSeen, QueueIsQueued, Handed,
     Settled, Over, Foreign, Goto
<1>5. ASSUME NEW r \in Rows, Cleanup(r) \/ TaskCleanup(r) PROVE WaitsForOwn'
  BY <1>5 DEF Cleanup, TaskCleanup, WaitsForOwn, RowsAreSeen, QueueIsQueued,
     Handed, Settled, Over, Foreign, Goto
<1>6. ASSUME NEW p \in Procs, Gathered(p) PROVE WaitsForOwn'
  <2>1. ASSUME NEW q \in Rows, by[q] = p, ~Settled(q), at'[p] = "waiting"
        PROVE  q \in pending
    <3>1. fate[q] \notin {"task", "posting"}
      BY <1>6, <2>1 DEF Gathered, Goto, WaitsForOwn
    <3>2. fate[q] \in {"queued", "running"}
      BY <2>1, <3>1 DEF RowsAreSeen, Settled, Over, Fates
    <3>3. QED
      BY <1>6, <2>1, <3>2 DEF RowsAreSeen, Gathered
  <2>2. waits' = [waits EXCEPT ![p] = pending] /\ UNCHANGED <<by, fate>>
    BY <1>6 DEF Gathered
  <2>3. /\ at' = [at EXCEPT ![p] = at'[p]]
        /\ at'[p] \notin {"gather", "cgather"}
    BY <1>6 DEF Gathered, Goto
  <2>4. QED
    BY <2>1, <2>2, <2>3 DEF WaitsForOwn, Settled
<1>7. ASSUME NEW p \in Procs, FlushSync(p) PROVE WaitsForOwn'
  <2>1. ASSUME NEW q \in Rows, by[q] = p, ~Settled(q) PROVE q \in pending
    <3>1. fate[q] \notin {"task", "posting"}
      BY <1>7, <2>1 DEF FlushSync, RowsAreSeen
    <3>2. fate[q] \in {"queued", "running"}
      BY <2>1, <3>1 DEF RowsAreSeen, Settled, Over, Fates
    <3>3. QED
      BY <1>7, <2>1, <3>2 DEF RowsAreSeen, FlushSync
  <2>2. waits' = [waits EXCEPT ![p] = pending] /\ UNCHANGED <<by, fate>>
    BY <1>7 DEF FlushSync
  <2>3. at' = [at EXCEPT ![p] = "waiting"]
    BY <1>7 DEF FlushSync, Goto
  <2>4. QED
    BY <2>1, <2>2, <2>3 DEF WaitsForOwn, Settled
<1>8. ASSUME NEW p \in Procs, FlushAsync(p) PROVE WaitsForOwn'
  BY <1>8 DEF FlushAsync, WaitsForOwn, RowsAreSeen, QueueIsQueued, Handed,
     Settled, Over, Foreign, Goto
<1>9. ASSUME NEW p \in Procs, CloseAsync(p) PROVE WaitsForOwn'
  BY <1>9 DEF CloseAsync, WaitsForOwn, RowsAreSeen, QueueIsQueued, Handed,
     Settled, Over, Foreign, Goto
<1>10. ASSUME NEW p \in Procs, Add(p) \/ Arm(p) \/ FlushReturn(p) \/
        CloseDrained(p) PROVE WaitsForOwn'
  BY <1>10 DEF Add, Arm, FlushReturn, CloseDrained, WaitsForOwn,
     RowsAreSeen, QueueIsQueued, Handed, Settled, Over, Foreign, Goto
<1>11. ASSUME NEW p \in Procs, CloseFlushed(p) \/ Shutdown(p) \/ CloseHttp(p)
        \/ Aclose(p) \/ CloseSync(p) PROVE WaitsForOwn'
  BY <1>11 DEF CloseFlushed, Shutdown, CloseHttp, Aclose, CloseSync,
     WaitsForOwn, RowsAreSeen, QueueIsQueued, Handed, Settled, Over,
     Foreign, Goto
<1>12. ASSUME NEW p \in Procs, NEW r \in Rows, Submit(p, r) PROVE WaitsForOwn'
  BY <1>12 DEF Submit, WaitsForOwn, RowsAreSeen, QueueIsQueued, Handed,
     Settled, Over, Foreign, Goto
<1>13. ASSUME NEW p \in Procs, NEW r \in Rows, LogAsync(p, r) PROVE
        WaitsForOwn'
  BY <1>13 DEF LogAsync, WaitsForOwn, RowsAreSeen, QueueIsQueued, Handed,
     Settled, Over, Foreign, Goto
<1>14. CASE UNCHANGED vars
  BY <1>14 DEF vars, WaitsForOwn, RowsAreSeen, QueueIsQueued, Handed,
     Settled, Over, Foreign, Goto
<1>15. QED
  BY <1>1, <1>2, <1>3, <1>4, <1>5, <1>6, <1>7, <1>8, <1>9, <1>10, <1>11,
     <1>12, <1>13, <1>14 DEF Next, PoolStep, GoOn, Begin

\* Fewer running rows still fit the pool.
LEMMA RunningFew ==
  ASSUME IInv, Running' \subseteq Running
  PROVE  Cardinality(Running') <= Workers
<1> USE PoolAssumption DEF IInv, TypeOK
<1>1. IsFiniteSet(Running)
  BY FS_Subset DEF Running
<1>2. /\ IsFiniteSet(Running')
      /\ Cardinality(Running') <= Cardinality(Running)
  BY <1>1, FS_Subset
<1>3. Cardinality(Running') \in Nat /\ Cardinality(Running) \in Nat
  BY <1>1, <1>2, FS_CardinalityType
<1>4. QED
  BY <1>2, <1>3

\* Every step keeps the types, and the pool no larger than its workers.
LEMMA StepTypeOK == IInv /\ [Next]_vars => TypeOK'
<1> SUFFICES ASSUME IInv, [Next]_vars PROVE TypeOK'
  OBVIOUS
<1> USE PoolAssumption DEF IInv, TypeOK
<1>1. CASE Take
  <2> DEFINE x == Head(queue)
  <2>1. x \in Rows /\ queue' \in Seq(Rows)
    BY <1>1 DEF Take
  <2>2. fate' \in [Rows -> Fates] /\ Running' = Running \union {x}
    BY <1>1, <2>1 DEF Take, Running, Fates
  <2>3. IsFiniteSet(Running)
    BY FS_Subset DEF Running
  <2>4. Cardinality(Running) \in Nat /\ Cardinality(Running) < Workers
    BY <1>1, <2>3, FS_CardinalityType DEF Take
  <2>5. Cardinality(Running \union {x})
          = IF x \in Running THEN Cardinality(Running) ELSE Cardinality(Running) + 1
    BY <2>3, FS_AddElement
  <2>6. Cardinality(Running \union {x}) <= Workers
    <3> HIDE DEF TypeOK, IInv, x
    <3>1. Workers \in Nat
      BY PoolAssumption
    <3>2. QED
      BY <2>4, <2>5, <3>1
  <2>7. QED
    BY <1>1, <2>1, <2>2, <2>6 DEF Take
<1>2. ASSUME NEW r \in Rows, Post(r) PROVE TypeOK'
  <2>1. Running' \subseteq Running
    BY <1>2 DEF Post, Running
  <2>2. Cardinality(Running)' <= Workers
    BY <2>1, RunningFew
  <2>3. QED
    BY <1>2, <2>2 DEF Post, Fates, Goto, Places
<1>3. ASSUME NEW r \in Rows, TaskStart(r) PROVE TypeOK'
  <2>1. Running' \subseteq Running
    BY <1>3 DEF TaskStart, Running
  <2>2. Cardinality(Running)' <= Workers
    BY <2>1, RunningFew
  <2>3. QED
    BY <1>3, <2>2 DEF TaskStart, Fates, Goto, Places
<1>4. ASSUME NEW r \in Rows, TaskPost(r) PROVE TypeOK'
  <2>1. Running' \subseteq Running
    BY <1>4 DEF TaskPost, Running
  <2>2. Cardinality(Running)' <= Workers
    BY <2>1, RunningFew
  <2>3. QED
    BY <1>4, <2>2 DEF TaskPost, Fates, Goto, Places
<1>5. ASSUME NEW r \in Rows, Cleanup(r) \/ TaskCleanup(r) PROVE TypeOK'
  BY <1>5 DEF Cleanup, TaskCleanup, Handed, Goto, Places, Fates, Running
<1>6. ASSUME NEW p \in Procs,
             \/ Add(p) \/ Arm(p) \/ Gathered(p) \/ FlushReturn(p) \/ CloseDrained(p)
             \/ CloseFlushed(p) \/ Shutdown(p) \/ CloseHttp(p) \/ Aclose(p)
             \/ FlushSync(p) \/ FlushAsync(p) \/ CloseSync(p) \/ CloseAsync(p)
      PROVE  TypeOK'
  <2>1. fate' = fate /\ UNCHANGED <<by, queue, tasks>>
    BY <1>6 DEF Add, Arm, Gathered, FlushReturn, CloseDrained, CloseFlushed, Shutdown,
       CloseHttp, Aclose, FlushSync, FlushAsync, CloseSync, CloseAsync
  <2>2. Running' \subseteq Running
    BY <2>1 DEF Running
  <2>3. Cardinality(Running)' <= Workers
    BY <2>2, RunningFew
  <2>4. /\ pending' \subseteq Rows /\ armed' \subseteq Rows
        /\ hand' \in [Procs -> Rows \union {None}]
    BY <1>6 DEF Handed, Add, Arm, Gathered, FlushReturn, CloseDrained, CloseFlushed,
       Shutdown, CloseHttp, Aclose, FlushSync, FlushAsync, CloseSync, CloseAsync
  <2>5. waits' \in [Procs -> SUBSET Rows]
    BY <1>6 DEF Add, Arm, Gathered, FlushReturn, CloseDrained, CloseFlushed, Shutdown,
       CloseHttp, Aclose, FlushSync, FlushAsync, CloseSync, CloseAsync
  <2>6. PICK place \in Places : Goto(p, place)
    BY <1>6 DEF Add, Arm, Gathered, FlushReturn, CloseDrained, CloseFlushed, Shutdown,
       CloseHttp, Aclose, FlushSync, FlushAsync, CloseSync, CloseAsync, Places
  <2>7. at' \in [Procs -> Places]
    BY <2>6 DEF Goto
  <2>8. /\ pool' \in BOOLEAN /\ wire' \in BOOLEAN
        /\ aio' \in {"none", "open", "closed"}
    BY <1>6 DEF Add, Arm, Gathered, FlushReturn, CloseDrained, CloseFlushed, Shutdown,
       CloseHttp, Aclose, FlushSync, FlushAsync, CloseSync, CloseAsync
  <2>9. QED
    BY <2>1, <2>3, <2>4, <2>5, <2>7, <2>8
<1>7. ASSUME NEW p \in Procs, NEW r \in Rows, Submit(p, r) PROVE TypeOK'
  <2>1. Running' \subseteq Running
    BY <1>7 DEF Submit, Running
  <2>2. Cardinality(Running)' <= Workers
    BY <2>1, RunningFew
  <2>3. fate' \in [Rows -> Fates]
    BY <1>7 DEF Submit, Fates
  <2>4. queue' = Append(queue, r) \/ queue' = queue
    BY <1>7 DEF Submit
  <2>5. queue' \in Seq(Rows)
    <3>1. queue \in Seq(Rows)
      OBVIOUS
    <3> HIDE DEF IInv, TypeOK
    <3>2. Append(queue, r) \in Seq(Rows)
      BY <3>1
    <3>3. QED
      BY <2>4, <3>1, <3>2
  <2>6. at' \in [Procs -> Places] /\ hand' \in [Procs -> Rows \union {None}]
    BY <1>7 DEF Submit, Goto, Places
  <2>7. by' \in [Rows -> Procs \union {None}]
    BY <1>7 DEF Submit
  <2>8. UNCHANGED <<waits, pool, pending, tasks, armed, wire, aio>>
    BY <1>7 DEF Submit
  <2>9. /\ waits' \in [Procs -> SUBSET Rows]
        /\ pool' \in BOOLEAN /\ wire' \in BOOLEAN
        /\ aio' \in {"none", "open", "closed"}
        /\ pending' \subseteq Rows /\ tasks' \subseteq Rows /\ armed' \subseteq Rows
    BY <2>8
  <2>10. QED
    BY <2>2, <2>3, <2>5, <2>6, <2>7, <2>9
<1>8. ASSUME NEW p \in Procs, NEW r \in Rows, LogAsync(p, r) PROVE TypeOK'
  <2>1. Running' \subseteq Running
    BY <1>8 DEF LogAsync, Running
  <2>2. Cardinality(Running)' <= Workers
    BY <2>1, RunningFew
  <2>3. QED
    BY <1>8, <2>2 DEF LogAsync, Fates, Goto, Places
<1>9. CASE UNCHANGED vars
  BY <1>9 DEF vars, Handed, Goto, Places, Fates, Running
<1>10. QED
  BY <1>1, <1>2, <1>3, <1>4, <1>5, <1>6, <1>7, <1>8, <1>9 DEF Next,
     PoolStep, GoOn, Begin

\* Every step keeps the invariant.
LEMMA StepOK == IInv /\ [Next]_vars => IInv'
<1>1. QED
  BY StepTypeOK, StepHanded, StepShutIsEmpty, StepPendingIsArmed, StepQueueIsQueued,
     StepRowsAreSeen, StepWaitsForOwn DEF IInv

-----------------------------------------------------------------------------
(* What follows. *)

\* The client's bookkeeping keeps its types, and at most Workers rows are being
\* posted at a time (max_workers).
THEOREM TypesHold == Spec => []TypeOK
<1>1. IInv => TypeOK
  BY DEF IInv
<1>2. QED
  BY InitOK, StepOK, <1>1, PTL DEF Spec

\* A row the pool accepted is posted by an open client (close_sync joins the
\* workers before it closes the client), and no future stays pending for ever.
THEOREM AcceptedAlwaysPosted == Spec => []AcceptedIsPosted
<1>1. IInv => AcceptedIsPosted
  BY DEF IInv, TypeOK, ShutIsEmpty, PendingIsArmed, AcceptedIsPosted, Running
<1>2. QED
  BY InitOK, StepOK, <1>1, PTL DEF Spec

\* When flush() or flush_sync() returns, every row its caller logged is over.
THEOREM FlushAlwaysDrains == Spec => FlushDrainsOwn
<1>1. IInv => DrainsOwn
  BY DEF IInv, TypeOK, WaitsForOwn, FlushReturn, DrainsOwn
<1>2. QED
  BY InitOK, StepOK, <1>1, PTL DEF Spec, FlushDrainsOwn, DrainsOwn
=============================================================================
