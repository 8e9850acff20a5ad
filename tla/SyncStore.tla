----------------------------- MODULE SyncStore -----------------------------
(***************************************************************************)
(* The gateway's SyncStore with all its rooms, and the durable mirror of   *)
(* the session lifecycle (SessionStore, table recommend_sessions) that it  *)
(* writes after each start, stop and clear.                                *)
(*                                                                         *)
(* apply_with_id is three steps of a request handler: it reads the clock,  *)
(* it applies the op under the room's write lock, and, the lock released,  *)
(* it mirrors the op into SQLite.  Handlers interleave between the steps,  *)
(* so mirrors may land in another order than the ops they describe.  A     *)
(* crash of the gateway resets every room and loses the mirrors not yet    *)
(* written; the table survives.                                            *)
(***************************************************************************)
EXTENDS SyncRoom

CONSTANTS
    RoomId,     \* one per user account
    Handler,    \* concurrent requests being served
    Ops,        \* the ops that clients submit
    MaxClock,   \* bound on the wall clock, for model checking
    MaxVersion, \* bound on the ops a room accepts, for model checking
    MaxFaults   \* bound on dropped requests and restarts, for model checking

ASSUME StoreAssumption ==
    /\ Ops \subseteq SyncOp
    /\ MaxClock \in Nat
    /\ MaxVersion \in Nat
    /\ MaxFaults \in Nat

VARIABLES
    rooms,      \* SyncStore.rooms
    landed,     \* per room, the ids of applied ops since start-up (history)
    handler,    \* where each request handler stands
    rows,       \* recommend_sessions: a session's row, or that it has none
    clock,      \* SystemTime::now()
    faults      \* dropped requests and restarts so far

vars == <<rooms, landed, handler, rows, clock, faults>>

NoRow == [state |-> "none", started_ms |-> 0, ended_ms |-> 0]

Row == [state : {"none", "open", "closed"}, started_ms : Nat, ended_ms : Nat]

Idle == [pc |-> "idle"]

HandlerState ==
    {Idle}
      \cup [pc : {"apply"}, room : RoomId, op : Ops, op_id : OpId \cup {NoOpId}, now_ms : Nat]
      \cup [pc : {"start"}, session_id : SessionId, now_ms : Nat]
      \cup [pc : {"stop"}, session_id : SessionId, now_ms : Nat]

TypeOK ==
    /\ rooms \in [RoomId -> Room]
    /\ landed \in [RoomId -> Seq(OpId)]
    /\ handler \in [Handler -> HandlerState]
    /\ rows \in [SessionId -> Row]
    /\ clock \in Nat
    /\ faults \in Nat

Init ==
    /\ rooms = [r \in RoomId |-> FreshRoom]
    /\ landed = [r \in RoomId |-> << >>]
    /\ handler = [h \in Handler |-> Idle]
    /\ rows = [s \in SessionId |-> NoRow]
    /\ clock = 0
    /\ faults = 0

-----------------------------------------------------------------------------
\* A request arrives and its handler stamps now_ms, before it has the lock.
Receive(h, r, op, id) ==
    /\ handler[h].pc = "idle"
    /\ rooms[r].version < MaxVersion
    /\ handler' = [handler EXCEPT ![h] =
         [pc |-> "apply", room |-> r, op |-> op, op_id |-> id, now_ms |-> clock]]
    /\ UNCHANGED <<rooms, landed, rows, clock, faults>>

\* The mirror an accepted op leaves to be written: a start writes its own
\* session, a stop or a clear the session that was active before the op.
MirrorOf(before, op, now_ms) ==
    CASE op.type = "start_session" ->
           [pc |-> "start", session_id |-> op.session_id, now_ms |-> now_ms]
      [] op.type \in {"stop_session", "clear"} /\ before.session_anchor # NoAnchor ->
           [pc |-> "stop", session_id |-> before.session_anchor.session_id,
            now_ms |-> now_ms]
      [] OTHER -> Idle

\* The critical section of apply_with_id, with the broadcast inside it.
Locked(h) ==
    /\ handler[h].pc = "apply"
    /\ LET r   == handler[h].room
           op  == handler[h].op
           id  == handler[h].op_id
           now == handler[h].now_ms
       IN  /\ rooms' = [rooms EXCEPT ![r] = ApplyWithId(@, op, id, now)]
           /\ IF Accepted(rooms[r], op, id)
              THEN /\ handler' = [handler EXCEPT ![h] =
                                    MirrorOf(rooms[r].playback, op, now)]
                   /\ landed' = [landed EXCEPT ![r] =
                                    IF id = NoOpId THEN @ ELSE Append(@, id)]
              ELSE /\ handler' = [handler EXCEPT ![h] = Idle]
                   /\ UNCHANGED landed
    /\ UNCHANGED <<rows, clock, faults>>

\* Mutant: the open row of the previous session is not closed.
SessionStartOnly(table, s, now_ms) ==
    IF table[s].state # "none" THEN table
    ELSE [table EXCEPT ![s] = [state |-> "open", started_ms |-> now_ms, ended_ms |-> 0]]

\* SessionStore::start, one transaction: close every open row, insert the
\* new one.  A session id that has a row violates the key: all is undone.
SessionStart(table, s, now_ms) ==
    IF table[s].state # "none" THEN table
    ELSE [x \in SessionId |->
            IF x = s
            THEN [state |-> "open", started_ms |-> now_ms, ended_ms |-> 0]
            ELSE IF table[x].state = "open"
            THEN [table[x] EXCEPT !.state = "closed", !.ended_ms = now_ms]
            ELSE table[x]]

\* Mutant: a stop closes its row whether or not it is open.
SessionStopAgain(table, s, now_ms) ==
    IF table[s].state = "none" THEN table
    ELSE [table EXCEPT ![s].state = "closed", ![s].ended_ms = now_ms]

\* SessionStore::stop: only an open row is closed, so the first stop wins.
SessionStop(table, s, now_ms) ==
    IF table[s].state # "open" THEN table
    ELSE [table EXCEPT ![s].state = "closed", ![s].ended_ms = now_ms]

MirrorStart(h) ==
    /\ handler[h].pc = "start"
    /\ rows' = SessionStart(rows, handler[h].session_id, handler[h].now_ms)
    /\ handler' = [handler EXCEPT ![h] = Idle]
    /\ UNCHANGED <<rooms, landed, clock, faults>>

MirrorStop(h) ==
    /\ handler[h].pc = "stop"
    /\ rows' = SessionStop(rows, handler[h].session_id, handler[h].now_ms)
    /\ handler' = [handler EXCEPT ![h] = Idle]
    /\ UNCHANGED <<rooms, landed, clock, faults>>

\* A failed write of the mirror is logged and dropped; a request whose peer
\* goes away is dropped at whichever await it stands.
HandlerDropped(h) ==
    /\ handler[h].pc \in {"apply", "start", "stop"}
    /\ faults < MaxFaults
    /\ faults' = faults + 1
    /\ handler' = [handler EXCEPT ![h] = Idle]
    /\ UNCHANGED <<rooms, landed, rows, clock>>

\* The gateway restarts: rooms are in memory only, the table is not.
Restart ==
    /\ faults < MaxFaults
    /\ faults' = faults + 1
    /\ rooms' = [r \in RoomId |-> FreshRoom]
    /\ landed' = [r \in RoomId |-> << >>]
    /\ handler' = [h \in Handler |-> Idle]
    /\ UNCHANGED <<rows, clock>>

Tick ==
    /\ clock < MaxClock
    /\ clock' = clock + 1
    /\ UNCHANGED <<rooms, landed, handler, rows, faults>>

Next ==
    \/ \E h \in Handler :
         \/ \E r \in RoomId, op \in Ops, id \in OpId \cup {NoOpId} : Receive(h, r, op, id)
         \/ Locked(h)
         \/ MirrorStart(h)
         \/ MirrorStop(h)
         \/ HandlerDropped(h)
    \/ Restart
    \/ Tick

Spec == Init /\ [][Next]_vars

-----------------------------------------------------------------------------
(***************************************************************************)
(* Safety.                                                                 *)
(***************************************************************************)
\* The cursor of every room is None or names an item of the room's queue,
\* whatever ops removed, moved or replaced around it: the comment in
\* apply_replace_upcoming relies on "a valid cursor is always in bounds".
CursorInBounds ==
    \A r \in RoomId :
        rooms[r].playback.now_playing_index <= Len(rooms[r].playback.items)

\* No queue holds one item id twice, so Remove and Reorder name one item.
QueueIdsDistinct == \A r \in RoomId : DistinctIds(rooms[r].playback.items)

\* At most one row of recommend_sessions is open, in whatever order the
\* mirrors of concurrent starts and stops land (SessionStore's invariant).
OneOpenRow ==
    \A s, t \in SessionId : rows[s].state = "open" /\ rows[t].state = "open" => s = t

\* An op id is applied a second time only after SEEN_OP_IDS other ids were
\* applied in the room: within the window a resend is always recognised.
ResendsRecognised ==
    \A r \in RoomId : \A i, j \in DOMAIN landed[r] :
        i < j /\ landed[r][i] = landed[r][j] => j - i > SeenOpIds

\* A closed session row is final: no late start or stop reopens it or moves
\* its end (first stop wins).
ClosedRowsFinal ==
    [][\A s \in SessionId : rows[s].state = "closed" => rows'[s] = rows[s]]_vars

\* The track being played never changes under a listener's feet: a push, a
\* reorder, a rewrite of the upcoming half or the removal of another item
\* leaves the cursor on the item it was on, at whatever index that now is.
NowPlayingKept ==
    [][\A r \in RoomId :
         NowPlaying(rooms'[r].playback) # NowPlaying(rooms[r].playback) =>
           \/ rooms' = [x \in RoomId |-> FreshRoom]
           \/ \E h \in Handler :
                /\ handler[h].pc = "apply" /\ handler[h].room = r
                /\ MovesCursor(rooms[r].playback, handler[h].op)]_vars

=============================================================================
