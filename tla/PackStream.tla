------------------------------ MODULE PackStream ------------------------------
(***************************************************************************)
(* The Decision Pack cache of a process and the threads that feed it.      *)
(*                                                                         *)
(* state.py keeps one process-wide pack (the compiled rules of a tenant),  *)
(* guarded by _pack_lock, and one process-wide stream-liveness record,     *)
(* guarded by _stream_lock.  stream.py runs one reader thread per          *)
(* installed client; it connects to /v1/guard/stream, applies snapshots    *)
(* and contiguous deltas, and reconnects with backoff.  client.init()      *)
(* installs a client with set_client() and only then starts its reader, so *)
(* a re-init may leave the old reader running for a while: a zombie.       *)
(*                                                                         *)
(* The rules are abstracted to the set of published changes they contain:  *)
(* change <<t, v>> is what took tenant t's rules from version v-1 to v.    *)
(* Time is abstracted to three timers: the pack's TTL, the stale-stream    *)
(* grace window and the reader's watchdogs.                                *)
(***************************************************************************)
EXTENDS Naturals

CONSTANTS
  Clients,     \* the TokenPolice instances init() creates, each at most once
  Tenants,     \* tenant/project identities of the API keys
  TenantOf,    \* the tenant each client's API key belongs to
  None,        \* Python's None
  MaxVersion,  \* bound: versions a tenant may publish
  LadderTop,   \* last index of the reconnect ladder (the cap)
  Faults,      \* the kinds of bad frame the feed may deliver
  HasTtl       \* whether snapshots carry a positive ttl_seconds

FaultKinds == {"badSnapshot", "noId", "gap", "badDelta", "junk"}

ASSUME ConstantsAssumption ==
  /\ TenantOf \in [Clients -> Tenants]
  /\ None \notin Clients \union Tenants \union Nat
  /\ MaxVersion \in Nat
  /\ LadderTop \in Nat \ {0}
  /\ Faults \subseteq FaultKinds
  /\ HasTtl \in BOOLEAN

VARIABLES
  \* state.py, under _pack_lock
  pack,          \* _pack: None or the tenant and changes of the applied rules
  packVersion,   \* _pack_version
  cacheInvalid,  \* _cache_invalid
  packTenant,    \* _pack_tenant_id / _pack_project_id, the cross-tenant pin
  packExpired,   \* _pack_expired_unlocked(): older than its TTL
  \* state.py, under _stream_lock
  link,          \* _stream_connected and _stream_disconnected_at
  owner,         \* whose connect took _stream_generation
  \* state.py and client.py, under _instance_lock
  inst,          \* _instance
  swapping,      \* the client whose set_client() holds _instance_lock
  ipc,           \* how far each client's init() is
  stop,          \* whether the stop event of a client's reader is set
  \* stream.py, one reader thread per client
  rd,            \* StreamClient fields and locals of _run_forever and _pump
  \* the rule service
  truth,         \* version each tenant has published
  feed           \* what the server still owes a connection

packVars   == <<pack, packVersion, cacheInvalid, packTenant, packExpired>>
linkVars   == <<link, owner>>
clientVars == <<inst, swapping, ipc, stop>>
vars       == <<packVars, linkVars, clientVars, rd, truth, feed>>

Versions == 0 .. MaxVersion
Frame == [kind : {"snapshot", "delta", "junk"}, version : Versions,
          ok : BOOLEAN, id : BOOLEAN]
Pack  == [tenant : Tenants, changes : SUBSET (Tenants \X Versions)]

ASSUME NoneIsNoData == None \notin Frame /\ None \notin Pack

\* "pumping": waiting for a line; "frame": inside a frame, its blank line not
\* yet read; "dispatch"/"apply": a whole frame read, not yet applied.
Pumping == {"pumping", "frame", "dispatch", "apply"}
ReaderPc == {"unborn", "top", "connecting", "leaving", "backoff", "done"} \union Pumping
Exit == {"return", "raise", "terminal"}

Reader == [pc : ReaderPc, cursor : Versions \union {None}, force : BOOLEAN,
           traffic : BOOLEAN, exit : Exit, attempt : 0 .. LadderTop,
           nap : 0 .. LadderTop, frame : Frame \union {None}]
Feed == [owed : BOOLEAN, sent : Versions]

\* Every rule change tenant t had published by version v.
Changes(t, v) == {t} \X (1 .. v)

TypeOK ==
  /\ pack \in Pack \union {None}
  /\ packVersion \in Versions
  /\ cacheInvalid \in BOOLEAN
  /\ packTenant \in Tenants \union {None}
  /\ packExpired \in BOOLEAN
  /\ link \in {"never", "up", "grace", "stale"}
  /\ owner \in Clients \union {None}
  /\ inst \in Clients \union {None}
  /\ swapping \in Clients \union {None}
  /\ ipc \in [Clients -> {"new", "closing", "reset", "installed", "up"}]
  /\ stop \in [Clients -> BOOLEAN]
  /\ rd \in [Clients -> Reader]
  /\ truth \in [Tenants -> Versions]
  /\ feed \in [Clients -> Feed]

NoFeed == [owed |-> FALSE, sent |-> 0]

FreshReader == [pc |-> "unborn", cursor |-> None, force |-> FALSE,
                traffic |-> FALSE, exit |-> "return", attempt |-> 0, nap |-> 0,
                frame |-> None]

Init ==
  /\ pack = None /\ packVersion = 0 /\ cacheInvalid = FALSE
  /\ packTenant = None /\ packExpired = FALSE
  /\ link = "never" /\ owner = None
  /\ inst = None /\ swapping = None
  /\ ipc = [c \in Clients |-> "new"]
  /\ stop = [c \in Clients |-> FALSE]
  /\ rd = [c \in Clients |-> FreshReader]
  /\ truth = [t \in Tenants |-> 0]
  /\ feed = [c \in Clients |-> NoFeed]

\* get_pack() and is_cache_healthy(): what an evaluator is given.
Healthy == pack # None /\ ~cacheInvalid /\ ~packExpired

\* One reader's fields and locals change, every other reader's stay.
Becomes(c, r) == rd' = [rd EXCEPT ![c] = r]

\* is_stream_fresh(grace): connected, or lost less than the grace period ago.
StreamFresh == link \in {"up", "grace"}

-------------------------------------------------------------------------------
(* client.init() and state.set_client(): stop the old client, install the    *)
(* new one, reset the pack, and only afterwards start the new reader.        *)

\* set_client takes _instance_lock and calls _instance.close_sync(), which
\* signals the old reader.  A client whose init() has not reached its start()
\* has no reader to signal yet: start() replaces the event anyway.
CloseOld(c) ==
  /\ ipc[c] = "new" /\ swapping = None
  /\ swapping' = c
  /\ ipc' = [ipc EXCEPT ![c] = "closing"]
  /\ stop' = [d \in Clients |-> stop[d] \/ (d = inst /\ rd[d].pc # "unborn")]
  /\ UNCHANGED <<packVars, linkVars, inst, rd, truth, feed>>

\* _instance = client; get_client() readers take no lock and see it at once.
Install(c) ==
  /\ ipc[c] = "closing" /\ swapping = c
  /\ inst' = c
  /\ ipc' = [ipc EXCEPT ![c] = "reset"]
  /\ UNCHANGED <<packVars, linkVars, swapping, stop, rd, truth, feed>>

\* reset_pack(), then _instance_lock is released.
ResetPack(c) ==
  /\ ipc[c] = "reset"
  /\ pack' = None /\ packVersion' = 0 /\ cacheInvalid' = FALSE
  /\ packTenant' = None /\ packExpired' = FALSE
  /\ swapping' = None
  /\ ipc' = [ipc EXCEPT ![c] = "installed"]
  /\ UNCHANGED <<linkVars, inst, stop, rd, truth, feed>>

\* init() step 3: StreamClient(...).start().
StartReader(c) ==
  /\ ipc[c] = "installed"
  /\ ipc' = [ipc EXCEPT ![c] = "up"]
  /\ Becomes(c, [rd[c] EXCEPT !.pc = "top"])
  /\ UNCHANGED <<packVars, linkVars, inst, swapping, stop, truth, feed>>

\* The application (or atexit) closes the installed client itself.
CloseClient(c) ==
  /\ ipc[c] = "up" /\ ~stop[c]
  /\ stop' = [stop EXCEPT ![c] = TRUE]
  /\ UNCHANGED <<packVars, linkVars, inst, swapping, ipc, rd, truth, feed>>

-------------------------------------------------------------------------------
(* StreamClient._run_forever and the connect half of _connect_and_pump.      *)

\* The loop test, then the GET that carries the cursor as Last-Event-ID.
LoopTop(c) ==
  /\ rd[c].pc = "top"
  /\ Becomes(c, [rd[c] EXCEPT !.pc = IF stop[c] THEN "done" ELSE "connecting"])
  /\ UNCHANGED <<packVars, linkVars, clientVars, truth, feed>>

\* HTTP 200: this connection takes the next liveness generation.  The server
\* sends a snapshot unless the cursor equals its current version.
ConnectOk(c) ==
  /\ rd[c].pc = "connecting"
  /\ link' = "up" /\ owner' = c
  /\ Becomes(c, [rd[c] EXCEPT !.pc = "pumping", !.traffic = FALSE,
                      !.force = FALSE])
  /\ LET current == truth[TenantOf[c]]
     IN  feed' = [feed EXCEPT ![c] =
           [owed |-> rd[c].cursor # current,
            sent |-> IF rd[c].cursor = None THEN 0 ELSE rd[c].cursor]]
  /\ UNCHANGED <<packVars, clientVars, truth>>

\* Mutant of ConnectTerminal: the cursor survives the poison.
ConnectTerminalKeepsCursor(c) ==
  /\ rd[c].pc = "connecting"
  /\ cacheInvalid' = TRUE
  /\ Becomes(c, [rd[c] EXCEPT !.pc = "leaving", !.exit = "terminal"])
  /\ UNCHANGED <<pack, packVersion, packTenant, packExpired, linkVars,
                 clientVars, truth, feed>>

\* 401/403/404: poison the pack, drop the cursor, re-probe at the cap.
ConnectTerminal(c) ==
  /\ rd[c].pc = "connecting"
  /\ cacheInvalid' = TRUE
  /\ Becomes(c, [rd[c] EXCEPT !.pc = "leaving", !.exit = "terminal",
                      !.cursor = None])
  /\ UNCHANGED <<pack, packVersion, packTenant, packExpired, linkVars,
                 clientVars, truth, feed>>

\* Any other status, or a transport error: an exception out of the connect.
ConnectTransient(c) ==
  /\ rd[c].pc = "connecting"
  /\ Becomes(c, [rd[c] EXCEPT !.pc = "leaving", !.exit = "raise"])
  /\ UNCHANGED <<packVars, linkVars, clientVars, truth, feed>>

\* Mutants of AttemptAfter: one past the ladder; any clean end resets it.
AttemptPastTop(r) ==
  CASE r.exit = "terminal" -> LadderTop + 1
    [] r.exit = "return" /\ r.traffic -> 0
    [] OTHER -> r.attempt
AttemptResetOnReturn(r) ==
  CASE r.exit = "terminal" -> LadderTop
    [] r.exit = "return" -> 0
    [] OTHER -> r.attempt

\* attempt after the connection ended, before the wait.
AttemptAfter(r) ==
  CASE r.exit = "terminal" -> LadderTop
    [] r.exit = "return" /\ r.traffic -> 0
    [] OTHER -> r.attempt

\* Mutants of LinkAfterRetire: a retired generation is stamped again; a
\* connection that ended in an exception is not retired.
LinkRestamped(c) == IF owner = c THEN "grace" ELSE link
LinkKeptOnRaise(c) ==
  IF owner = c /\ link = "up" /\ rd[c].exit # "raise" THEN "grace" ELSE link

\* mark_stream_disconnected(generation): only the owner of the newest
\* generation retires it, and only once.
LinkAfterRetire(c) == IF owner = c /\ link = "up" THEN "grace" ELSE link

\* The except/else/finally of the loop body: settle attempt, retire the
\* connection, then exit or wait at the ladder's current rung.
Leave(c) ==
  /\ rd[c].pc = "leaving"
  /\ link' = LinkAfterRetire(c)
  /\ LET rung == AttemptAfter(rd[c])
     IN  Becomes(c, [rd[c] EXCEPT
           !.pc = IF stop[c] THEN "done" ELSE "backoff",
           !.exit = "return",
           !.nap = IF stop[c] THEN 0 ELSE rung,
           !.attempt = IF stop[c] \/ rung = LadderTop THEN rung ELSE rung + 1])
  /\ feed' = [feed EXCEPT ![c] = NoFeed]
  /\ UNCHANGED <<packVars, owner, clientVars, truth>>

\* stop_event.wait(sleep_for) returns: the time is over or stop was signalled.
Wake(c) ==
  /\ rd[c].pc = "backoff"
  /\ Becomes(c, [rd[c] EXCEPT !.pc = "top", !.nap = 0])
  /\ UNCHANGED <<packVars, linkVars, clientVars, truth, feed>>

-------------------------------------------------------------------------------
(* StreamClient._pump: one line of the response per step.                    *)

BetweenLines(c) == rd[c].pc \in {"pumping", "frame"}

Quit(c, how) ==
  /\ Becomes(c, [rd[c] EXCEPT !.pc = "leaving", !.exit = how, !.frame = None])
  /\ UNCHANGED <<packVars, linkVars, clientVars, truth, feed>>

\* The loop-top guards: a signalled stop or a forced reconnect ends the pump
\* before the line is looked at.
LineStops(c) == BetweenLines(c) /\ (stop[c] \/ rd[c].force) /\ Quit(c, "return")

\* A line arrives after a heartbeat or data watchdog has run out.
Watchdog(c) == BetweenLines(c) /\ ~stop[c] /\ ~rd[c].force /\ Quit(c, "return")

\* The server closes the body, or the read times out or fails.
Eof(c) == BetweenLines(c) /\ Quit(c, "return")
ReadError(c) == BetweenLines(c) /\ Quit(c, "raise")

\* A line that passes the guards, with the TTL watchdog that every such line
\* runs: an expired pack is invalidated, the cursor dropped, a reconnect forced.
AcceptLine(c) == BetweenLines(c) /\ ~stop[c] /\ ~rd[c].force
ForcesAt(c)   == packExpired
CursorAt(c)   == IF packExpired THEN None ELSE rd[c].cursor
TtlWatchdog   == cacheInvalid' = (cacheInvalid \/ packExpired)

\* A comment line: the stream-open banner is no evidence of traffic.
Comment(c, banner) ==
  /\ rd[c].pc = "pumping" /\ AcceptLine(c)
  /\ TtlWatchdog
  /\ Becomes(c, [rd[c] EXCEPT !.cursor = CursorAt(c), !.force = ForcesAt(c),
                      !.traffic = @ \/ ~banner])
  /\ UNCHANGED <<pack, packVersion, packTenant, packExpired, linkVars,
                 clientVars, truth, feed>>

\* What the server may send next: an owed snapshot of its current version,
\* otherwise deltas in order, repeating old ones or losing some on the way.
Sendable(c) ==
  LET now == truth[TenantOf[c]]
      snapshots == {f \in Frame : /\ f.kind = "snapshot" /\ f.version = now
                                  /\ feed[c].owed
                                  /\ f.ok \/ "badSnapshot" \in Faults
                                  /\ f.id \/ "noId" \in Faults}
      deltas == {f \in Frame : /\ f.kind = "delta" /\ ~feed[c].owed
                               /\ f.version > 0 /\ f.version <= now
                               /\ f.version <= feed[c].sent + 1 \/ "gap" \in Faults
                               /\ f.ok \/ "badDelta" \in Faults
                               /\ f.id \/ "noId" \in Faults}
      junk == {f \in Frame : /\ f.kind = "junk" /\ "junk" \in Faults
                             /\ f.version = 0 /\ f.ok /\ f.id}
  IN  snapshots \union deltas \union junk

\* The event:/id:/data: lines of a frame.
FrameLines(c, f) ==
  /\ rd[c].pc = "pumping" /\ AcceptLine(c)
  /\ TtlWatchdog
  /\ Becomes(c, [rd[c] EXCEPT !.pc = "frame", !.frame = f,
                      !.cursor = CursorAt(c), !.force = ForcesAt(c)])
  /\ feed' = [feed EXCEPT ![c] =
       CASE f.kind = "snapshot" -> [owed |-> FALSE, sent |-> f.version]
         [] f.kind = "delta"    -> [owed |-> FALSE, sent |-> f.version]
         [] OTHER -> feed[c]]
  /\ UNCHANGED <<pack, packVersion, packTenant, packExpired, linkVars,
                 clientVars, truth>>

\* The blank line that ends a frame: the guards have passed, _dispatch runs.
FrameEnd(c) ==
  /\ rd[c].pc = "frame" /\ AcceptLine(c)
  /\ TtlWatchdog
  /\ Becomes(c, [rd[c] EXCEPT !.pc = "dispatch", !.traffic = TRUE,
                      !.cursor = CursorAt(c), !.force = ForcesAt(c)])
  /\ UNCHANGED <<pack, packVersion, packTenant, packExpired, linkVars,
                 clientVars, truth, feed>>

-------------------------------------------------------------------------------
(* StreamClient._dispatch with state.apply_snapshot and state.apply_deltas.  *)

\* The next line is awaited, the frame accumulators are reset.
Dispatched(c, cursor) ==
  Becomes(c, [rd[c] EXCEPT !.pc = "pumping", !.frame = None, !.cursor = cursor])

\* A refused apply: the pack stays in place but poisoned, the cursor is dropped.
Refuse(c) ==
  /\ cacheInvalid' = TRUE
  /\ Dispatched(c, None)
  /\ UNCHANGED <<pack, packVersion, packTenant, packExpired>>

CursorFrom(c, f) == IF f.id THEN f.version ELSE rd[c].cursor

DispatchJunk(c) ==
  /\ rd[c].pc = "dispatch" /\ rd[c].frame.kind = "junk"
  /\ Dispatched(c, rd[c].cursor)
  /\ UNCHANGED <<packVars, linkVars, clientVars, truth, feed>>

\* A snapshot is refused without ids or when its tenant is not the pinned one.
SnapshotFits(c) ==
  /\ rd[c].frame.ok
  /\ packTenant \in {None, TenantOf[c]}

DispatchSnapshot(c) ==
  /\ rd[c].pc = "dispatch" /\ rd[c].frame.kind = "snapshot"
  /\ LET f == rd[c].frame
     IN  \/ /\ SnapshotFits(c)
            /\ pack' = [tenant |-> TenantOf[c],
                        changes |-> Changes(TenantOf[c], f.version)]
            /\ packVersion' = f.version
            /\ cacheInvalid' = FALSE /\ packExpired' = FALSE
            /\ packTenant' = TenantOf[c]
            /\ Dispatched(c, CursorFrom(c, f))
         \/ ~SnapshotFits(c) /\ Refuse(c)
  /\ UNCHANGED <<linkVars, clientVars, truth, feed>>

\* Mutant of DispatchDelta: the unhealthy branch forces no reconnect.
DispatchDeltaNoForce(c) ==
  /\ rd[c].pc = "dispatch" /\ rd[c].frame.kind = "delta"
  /\ Becomes(c, IF Healthy
                THEN [rd[c] EXCEPT !.pc = "apply"]
                ELSE [rd[c] EXCEPT !.pc = "pumping", !.frame = None,
                                   !.cursor = None])
  /\ UNCHANGED <<packVars, linkVars, clientVars, truth, feed>>

\* A delta first asks is_cache_healthy(); on an unhealthy cache it drops the
\* cursor and forces a reconnect instead of being applied.
DispatchDelta(c) ==
  /\ rd[c].pc = "dispatch" /\ rd[c].frame.kind = "delta"
  /\ Becomes(c, IF Healthy
                THEN [rd[c] EXCEPT !.pc = "apply"]
                ELSE [rd[c] EXCEPT !.pc = "pumping", !.frame = None,
                                   !.cursor = None, !.force = TRUE])
  /\ UNCHANGED <<packVars, linkVars, clientVars, truth, feed>>

\* Mutants of Verdict: a gap is applied; an old delta is applied again.
VerdictGapApplied(f) ==
  IF pack = None \/ cacheInvalid THEN "refuse"
  ELSE IF f.version <= packVersion THEN "discard"
  ELSE IF f.ok THEN "apply" ELSE "refuse"
VerdictOldApplied(f) ==
  IF pack = None \/ cacheInvalid \/ f.version > packVersion + 1 \/ ~f.ok
  THEN "refuse" ELSE "apply"

\* What apply_deltas makes of a delta: discard a duplicate, refuse a gap or an
\* operation it cannot perform, apply the next version.
Verdict(f) ==
  IF pack = None \/ cacheInvalid THEN "refuse"
  ELSE IF f.version <= packVersion THEN "discard"
  ELSE IF f.version = packVersion + 1 /\ f.ok THEN "apply" ELSE "refuse"

\* apply_deltas takes _pack_lock again; the pack may have changed since the
\* health check.
ApplyDelta(c) ==
  /\ rd[c].pc = "apply"
  /\ LET f == rd[c].frame
     IN  \/ /\ Verdict(f) = "discard"
            /\ Dispatched(c, CursorFrom(c, f))
            /\ UNCHANGED packVars
         \/ /\ Verdict(f) = "apply"
            /\ pack' = [pack EXCEPT !.changes = @ \union {<<TenantOf[c], f.version>>}]
            /\ packVersion' = f.version
            /\ packExpired' = FALSE
            /\ Dispatched(c, CursorFrom(c, f))
            /\ UNCHANGED <<cacheInvalid, packTenant>>
         \/ Verdict(f) = "refuse" /\ Refuse(c)
  /\ UNCHANGED <<linkVars, clientVars, truth, feed>>

-------------------------------------------------------------------------------
(* The environment: rules are published, timers run out.                     *)

Publish(t) ==
  /\ truth[t] < MaxVersion
  /\ truth' = [truth EXCEPT ![t] = @ + 1]
  /\ UNCHANGED <<packVars, linkVars, clientVars, rd, feed>>

TtlExpires ==
  /\ HasTtl /\ pack # None /\ ~packExpired
  /\ packExpired' = TRUE
  /\ UNCHANGED <<pack, packVersion, cacheInvalid, packTenant, linkVars,
                 clientVars, rd, truth, feed>>

GraceEnds ==
  /\ link = "grace"
  /\ link' = "stale"
  /\ UNCHANGED <<packVars, owner, clientVars, rd, truth, feed>>

InitStep(c) ==
  \/ CloseOld(c) \/ Install(c) \/ ResetPack(c) \/ StartReader(c)
  \/ CloseClient(c)

ReaderStep(c) ==
  \/ LoopTop(c) \/ ConnectOk(c) \/ ConnectTerminal(c) \/ ConnectTransient(c)
  \/ Leave(c) \/ Wake(c)
  \/ LineStops(c) \/ Watchdog(c) \/ Eof(c) \/ ReadError(c)
  \/ \E banner \in BOOLEAN : Comment(c, banner)
  \/ \E f \in Sendable(c) : FrameLines(c, f)
  \/ FrameEnd(c)
  \/ DispatchJunk(c) \/ DispatchSnapshot(c) \/ DispatchDelta(c) \/ ApplyDelta(c)

Next ==
  \/ \E c \in Clients : InitStep(c)
  \/ \E c \in Clients : ReaderStep(c)
  \/ \E t \in Tenants : Publish(t)
  \/ TtlExpires
  \/ GraceEnds

Spec == Init /\ [][Next]_vars

-------------------------------------------------------------------------------
(* Fairness of the process: a started init() runs to its end, a reader thread *)
(* keeps being scheduled, a connect has an outcome (its 10 s timeout), and a  *)
(* reader that must leave a stream gets a line or the 45 s read timeout.      *)
(* Nothing is assumed of the application or of failures.                      *)
Scheduled(c) ==
  /\ WF_vars(Install(c) \/ ResetPack(c) \/ StartReader(c))
  /\ WF_vars(LoopTop(c) \/ Leave(c) \/ Wake(c))
  /\ WF_vars(ConnectOk(c) \/ ConnectTerminal(c) \/ ConnectTransient(c))
  /\ WF_vars(LineStops(c))
  /\ WF_vars(DispatchJunk(c) \/ DispatchSnapshot(c) \/ DispatchDelta(c) \/ ApplyDelta(c))

ScheduledSpec == Spec /\ \A c \in Clients : Scheduled(c)

\* Fairness of the service: again and again it answers 200, its banner line
\* arrives, a good owed snapshot is sent and gets through whole; and on a
\* stream that stays open either deltas keep coming or the data watchdog fires.
GoodSnapshot(c) ==
  \E f \in Sendable(c) : f.kind = "snapshot" /\ f.ok /\ FrameLines(c, f)
DataOrWatchdog(c) ==
  \/ Watchdog(c)
  \/ \E f \in Sendable(c) : f.kind = "delta" /\ FrameLines(c, f)

GoodService(c) ==
  /\ SF_vars(ConnectOk(c))
  /\ SF_vars(Comment(c, TRUE))
  /\ SF_vars(GoodSnapshot(c))
  /\ SF_vars(FrameEnd(c))
  /\ WF_vars(DataOrWatchdog(c))

FairSpec == ScheduledSpec /\ \A c \in Clients : GoodService(c)

-------------------------------------------------------------------------------
(* Safety. *)

\* The pack an evaluator may read is, for its tenant, exactly the rules of one
\* version the tenant did publish: lost, repeated or refused deltas, a delta
\* racing a reset or a second reader never leave a pack with a hole in it
\* (apply_deltas' contiguity check under _pack_lock).
PackIsPublished ==
  pack # None =>
    /\ pack.changes = Changes(pack.tenant, packVersion)
    /\ packVersion <= truth[pack.tenant]

\* A reconnect cursor never outlives the rules it stands for: while the
\* installed client's reader holds one, the pack is there, unpoisoned and at
\* least that recent.  The server withholds the snapshot from a cursor that
\* equals its version, so a cursor left behind by any poison path would keep an
\* idle project poisoned (stream.py, ConnectTerminal's comment).
CursorBacked ==
  \A c \in Clients : inst = c /\ rd[c].cursor # None =>
    /\ pack # None /\ ~cacheInvalid
    /\ rd[c].cursor <= packVersion

\* The stale clock runs from the earliest loss since the last connect: failing
\* reconnects never give a stale stream a fresh grace window
\* (mark_stream_disconnected).
StaleClockNotRefreshed ==
  [][link = "stale" => link' \in {"stale", "up"}]_vars

\* The liveness record tells the truth about the only reader: while it reads an
\* open stream that nobody asked it to close, the stream counts as connected (no
\* late disconnect marks it down: mark_stream_disconnected's generation check);
\* while it is not on a stream, however it came off it, the stream counts as lost.
LinkTellsStream ==
  \A c \in Clients :
    /\ rd[c].pc \in Pumping /\ ~stop[c] => link = "up"
    /\ rd[c].pc \in {"top", "connecting", "backoff", "done"} => link # "up"

\* Outside a swap, the rules evaluated are those of the installed client's
\* tenant (the cross-tenant pin of apply_snapshot).
RulesOfInstalledTenant ==
  inst # None /\ swapping = None /\ Healthy => pack.tenant = TenantOf[inst]

\* With a single client the cache implements RuleCache: what get_pack() hands
\* out is a published version, complete, and never an older one than before.
Promise ==
  INSTANCE RuleCache WITH
    published <- truth[TenantOf[CHOOSE c \in Clients : TRUE]],
    rules     <- IF Healthy THEN {change[2] : change \in pack.changes} ELSE None,
    floor     <- packVersion
ImplementsRuleCache == Promise!Spec

-------------------------------------------------------------------------------
(* Liveness. *)

\* Whatever poisoned the cache (a gap, a refused snapshot or delta, a terminal
\* status), a reader that is not told to stop gets the rules back.
CacheHeals ==
  \A c \in Clients : ipc[c] = "up" ~> (Healthy \/ stop[c])

\* A reader told to stop exits, wherever the signal found it.  One whose
\* connections show no traffic any more ends up waiting the cap between attempts:
\* neither empty 200s, transient failures nor terminal statuses let it fall back
\* to the one-second floor.
ReaderWindsDown ==
  \A c \in Clients :
    /\ stop[c] ~> rd[c].pc = "done"
    /\ <>[](rd[c].pc \in Pumping => ~rd[c].traffic)
         => <>[](rd[c].pc = "backoff" => rd[c].nap = LadderTop)
===============================================================================
