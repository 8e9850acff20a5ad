----------------------------- MODULE TuiReplica -----------------------------
(***************************************************************************)
(* The terminal client as a participant of a sync room: the WebSocket task *)
(* that owns the connection, the reducer that keeps a replica of the room, *)
(* and the HTTP resync the reducer asks for when it loses the thread.      *)
(*                                                                         *)
(* The task and the HTTP effects run beside the reducer and report to it   *)
(* through one channel, inbox.  A frame the gateway has not yet forwarded  *)
(* stands for one still on the wire: a reconnect starts from a snapshot,   *)
(* so a lost frame and an unsent one are the same.                         *)
(***************************************************************************)
EXTENDS SyncRoom, SequencesExt

CONSTANTS
    Gestures,      \* ops this client's user may submit
    OtherOps,      \* ops other devices may submit
    Capacity,      \* BROADCAST_CAPACITY
    ServerNow,     \* what the gateway's clock stamps on a session
    ReplicaNow,    \* what this device's clock stamps on a session
    MaxGestures,   \* bound on this client's submissions
    MaxOthers,     \* bound on the other devices' ops
    MaxFaults,     \* bound on connection and HTTP failures
    MaxRestarts,   \* bound on gateway restarts
    MaxUnparsed    \* bound on frames of a newer gateway this client cannot read

ASSUME TuiAssumption ==
    /\ Gestures \subseteq SyncOp /\ OtherOps \subseteq SyncOp
    /\ Capacity \in Nat \ {0}
    /\ ServerNow \in Nat /\ ReplicaNow \in Nat
    /\ {MaxGestures, MaxOthers, MaxFaults, MaxRestarts, MaxUnparsed} \subseteq Nat

VARIABLES
    room,       \* the gateway's room
    log,        \* every event of the room's bus since the gateway started
    link,       \* the connection: "down", "up", or "stalled" and not yet noticed
    served,     \* the gateway task: "serving", or "recovering" from a lag
    next,       \* the next event the gateway task will receive
    ops,        \* op_rx: ops on their way from the reducer to the task
    inbox,      \* msg_tx: sync events on their way to the reducer
    asked,      \* HTTP snapshot requests that have not reached the room
    replies,    \* their answers on the way back, in any order
    phase,      \* SyncPhase of a client with a gateway
    replica,    \* RoomState.room
    gestures, others, faults, restarts, unparsed   \* budgets spent

gatewayRoom == <<room, log>>
session == <<link, served, next>>
http == <<asked, replies>>
reducer == <<phase, replica>>
budgets == <<gestures, others, faults, restarts, unparsed>>
vars == <<room, log, link, served, next, ops, inbox, asked, replies, phase, replica,
          gestures, others, faults, restarts, unparsed>>

\* A state of the room.  life is history: how often the gateway had been
\* restarted when it sent the state or the event.
SyncState == [playback : PlaybackState, version : Nat, life : Nat]

Snapshot == [playback |-> room.playback, version |-> room.version, life |-> restarts]
SnapshotEvent(state) == [type |-> "snapshot", state |-> state]
AppliedEvent(n) == [type |-> "applied", op |-> log[n], version |-> n, life |-> restarts]
DownEvent == [type |-> "down"]
OpErrorEvent == [type |-> "op_error"]

Init ==
    /\ room = FreshRoom /\ log = << >>
    /\ link = "down" /\ served = "serving" /\ next = 1
    /\ ops = << >> /\ inbox = << >> /\ asked = 0 /\ replies = << >>
    /\ phase = "Offline" /\ replica = [playback |-> DefaultPlayback, version |-> 0, life |-> 0]
    /\ gestures = 0 /\ others = 0 /\ faults = 0 /\ restarts = 0 /\ unparsed = 0

-----------------------------------------------------------------------------
(***************************************************************************)
(* The reducer.                                                            *)
(***************************************************************************)
\* A queue gesture while online becomes an op and changes nothing locally.
\* The op follow submits after a replica change, to skip a disliked track, is
\* such an op too: it may come at any time, so the model allows more.
Gesture(op) ==
    /\ phase = "Online"
    /\ gestures < MaxGestures
    /\ gestures' = gestures + 1
    /\ ops' = Append(ops, op)
    /\ UNCHANGED <<gatewayRoom, session, inbox, http, reducer, others, faults,
                   restarts, unparsed>>

\* Mutant: a missed event goes unnoticed.
NoGap(msg) == FALSE

\* applied: an event is folded in only if it is the next one.
Stale(msg) == msg.version <= replica.version
Gap(msg) == msg.version > replica.version + 1
Diverged(msg) == Rejected(replica.playback, msg.op)

\* The events that make the reducer ask for a snapshot over HTTP.
NeedsResync(msg) ==
    \/ phase = "Offline"
    \/ Gap(msg)
    \/ ~ Stale(msg) /\ Diverged(msg)

HandleApplied(msg) ==
    /\ msg.type = "applied"
    /\ UNCHANGED phase
    /\ IF NeedsResync(msg)
       THEN asked' = asked + 1 /\ UNCHANGED replica
       ELSE /\ UNCHANGED asked
            /\ replica' = IF Stale(msg) THEN replica
                          ELSE [replica EXCEPT !.playback = Apply(@, msg.op, ReplicaNow),
                                               !.version  = msg.version]

\* adopt_snapshot: always, whenever it arrives.
AdoptSnapshot(msg) ==
    /\ msg.type = "snapshot"
    /\ phase' = "Online"
    /\ replica' = msg.state
    /\ UNCHANGED asked

GoOffline(msg) ==
    /\ msg.type = "down"
    /\ phase' = "Offline"
    /\ UNCHANGED <<replica, asked>>

ShowOpError(msg) == msg.type = "op_error" /\ UNCHANGED <<phase, replica, asked>>

Handle ==
    /\ inbox # << >>
    /\ inbox' = Tail(inbox)
    /\ LET msg == Head(inbox)
       IN  HandleApplied(msg) \/ AdoptSnapshot(msg) \/ GoOffline(msg) \/ ShowOpError(msg)
    /\ UNCHANGED <<gatewayRoom, session, ops, replies, budgets>>

-----------------------------------------------------------------------------
(***************************************************************************)
(* Effect::SyncResync: GET /v1/sync/snapshot, answered in any order.       *)
(***************************************************************************)
SnapshotRead ==
    /\ asked > 0
    /\ asked' = asked - 1
    /\ replies' = Append(replies, Snapshot)
    /\ UNCHANGED <<gatewayRoom, session, ops, inbox, reducer, budgets>>

ResyncAnswered ==
    /\ \E i \in DOMAIN replies :
         /\ inbox' = Append(inbox, SnapshotEvent(replies[i]))
         /\ replies' = RemoveAt(replies, i)
    /\ UNCHANGED <<gatewayRoom, session, ops, asked, reducer, budgets>>

ResyncFailed ==
    /\ asked > 0 /\ faults < MaxFaults
    /\ asked' = asked - 1
    /\ faults' = faults + 1
    /\ inbox' = Append(inbox, DownEvent)
    /\ UNCHANGED <<gatewayRoom, session, ops, replies, reducer, gestures, others,
                   restarts, unparsed>>

-----------------------------------------------------------------------------
(***************************************************************************)
(* The WebSocket task and the gateway task at the other end.               *)
(***************************************************************************)
\* The backoff ends and the dial succeeds: the first frame is a snapshot.
Connects ==
    /\ link = "down"
    /\ link' = "up" /\ served' = "serving" /\ next' = Len(log) + 1
    /\ inbox' = Append(inbox, SnapshotEvent(Snapshot))
    /\ UNCHANGED <<gatewayRoom, ops, http, reducer, budgets>>

ConnectFails ==
    /\ link = "down" /\ faults < MaxFaults
    /\ faults' = faults + 1
    /\ inbox' = Append(inbox, DownEvent)
    /\ UNCHANGED <<gatewayRoom, session, ops, http, reducer, gestures, others,
                   restarts, unparsed>>

\* The oldest event the ring still holds.
OldestRetained == IF Len(log) > Capacity THEN Len(log) - Capacity + 1 ELSE 1

\* An event reaches the task, which parses it and tells the reducer.
EventArrives ==
    /\ link = "up" /\ served = "serving"
    /\ next \in OldestRetained .. Len(log)
    /\ next' = next + 1
    /\ inbox' = Append(inbox, AppliedEvent(next))
    /\ UNCHANGED <<gatewayRoom, link, served, ops, http, reducer, budgets>>

\* A frame whose op this build does not know is dropped by the parser.
FrameUnparsed ==
    /\ link = "up" /\ served = "serving"
    /\ next \in OldestRetained .. Len(log)
    /\ unparsed < MaxUnparsed
    /\ unparsed' = unparsed + 1
    /\ next' = next + 1
    /\ UNCHANGED <<gatewayRoom, link, served, ops, inbox, http, reducer, gestures,
                   others, faults, restarts>>

\* The receiver fell behind the ring: it is moved to the oldest event kept.
Lagged ==
    /\ link = "up" /\ served = "serving" /\ next < OldestRetained
    /\ served' = "recovering"
    /\ next' = OldestRetained
    /\ UNCHANGED <<gatewayRoom, link, ops, inbox, http, reducer, budgets>>

LaggedSnapshot ==
    /\ link = "up" /\ served = "recovering"
    /\ served' = "serving"
    /\ inbox' = Append(inbox, SnapshotEvent(Snapshot))
    /\ UNCHANGED <<gatewayRoom, link, next, ops, http, reducer, budgets>>

Broadcast(op) ==
    /\ room' = ApplyWithId(room, op, NoOpId, ServerNow)
    /\ log' = IF Accepted(room, op, NoOpId) THEN Append(log, op) ELSE log

\* The task takes an op: it is applied, or refused and the sender told; it
\* is lost on a stalled link and dropped while disconnected.
TaskTakesOp ==
    /\ ops # << >>
    /\ ops' = Tail(ops)
    /\ IF link = "up"
       THEN /\ Broadcast(Head(ops))
            /\ inbox' = IF Accepted(room, Head(ops), NoOpId) THEN inbox
                        ELSE Append(inbox, OpErrorEvent)
       ELSE UNCHANGED <<gatewayRoom, inbox>>
    /\ UNCHANGED <<session, http, reducer, budgets>>

OtherDevice(op) ==
    /\ others < MaxOthers
    /\ others' = others + 1
    /\ Broadcast(op)
    /\ UNCHANGED <<session, ops, inbox, http, reducer, gestures, faults, restarts, unparsed>>

\* The link dies silently; only the idle deadline will tell.
LinkStalls ==
    /\ link = "up" /\ faults < MaxFaults
    /\ faults' = faults + 1
    /\ link' = "stalled"
    /\ UNCHANGED <<gatewayRoom, served, next, ops, inbox, http, reducer, gestures,
                   others, restarts, unparsed>>

\* Mutant: a quiet link is never given up.
SessionLingers ==
    /\ link = "stalled" /\ ops # << >>
    /\ link' = "down"
    /\ inbox' = Append(inbox, DownEvent)
    /\ UNCHANGED <<gatewayRoom, served, next, ops, http, reducer, budgets>>

\* IDLE_DEADLINE passes, or a send fails: the session ends with Down.
SessionEnds ==
    /\ link = "stalled"
    /\ link' = "down"
    /\ inbox' = Append(inbox, DownEvent)
    /\ UNCHANGED <<gatewayRoom, served, next, ops, http, reducer, budgets>>

GatewayRestarts ==
    /\ restarts < MaxRestarts
    /\ restarts' = restarts + 1
    /\ room' = FreshRoom /\ log' = << >>
    /\ link' = IF link = "up" THEN "stalled" ELSE link
    /\ asked' = 0
    /\ inbox' = inbox \o [i \in 1 .. asked |-> DownEvent]
    /\ UNCHANGED <<served, next, ops, replies, reducer, gestures, others, faults, unparsed>>

-----------------------------------------------------------------------------
Next ==
    \/ \E op \in Gestures : Gesture(op)
    \/ \E op \in OtherOps : OtherDevice(op)
    \/ Handle
    \/ SnapshotRead \/ ResyncAnswered \/ ResyncFailed
    \/ Connects \/ ConnectFails \/ EventArrives \/ FrameUnparsed
    \/ Lagged \/ LaggedSnapshot \/ TaskTakesOp
    \/ LinkStalls \/ SessionEnds \/ GatewayRestarts

Spec == Init /\ [][Next]_vars

\* The reducer drains its channel, the task's timers run, the gateway serves
\* the socket and its HTTP requests end one way or the other.
Fairness ==
    /\ WF_vars(Handle) /\ WF_vars(SnapshotRead) /\ WF_vars(ResyncAnswered)
    /\ WF_vars(Connects) /\ WF_vars(EventArrives) /\ WF_vars(Lagged)
    /\ WF_vars(LaggedSnapshot) /\ WF_vars(TaskTakesOp) /\ WF_vars(SessionEnds)

FairSpec == Spec /\ Fairness

-----------------------------------------------------------------------------
(***************************************************************************)
(* Properties.                                                             *)
(***************************************************************************)
\* The room's state at each of its versions.
StateAt == StatesOf(log, ServerNow)

\* A replica that was adopted from the running gateway is that room's state at
\* the version it names: no lag, replayed ring, resync, lost frame or restart
\* makes it fold an event twice, skip one, or fold it over the wrong state.  An
\* HTTP answer of the previous process that comes after the reconnect is
\* adopted too, and its version outranks the new room's: of such a replica
\* nothing is said, until the next snapshot.
ReplicaIsPast ==
    replica.life = restarts =>
        /\ replica.version <= Len(log)
        /\ Unstamped(replica.playback) = Unstamped(StateAt[replica.version])

\* Once faults stop, the client is online and its replica is the room's state.
\* A client that dropped a frame learns of it from the next event only, so
\* nothing is promised to it.
EventuallyInSync ==
    <>[](\/ unparsed > 0
         \/ phase = "Online" /\ Unstamped(replica.playback) = Unstamped(room.playback))
=============================================================================
