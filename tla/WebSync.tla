------------------------------ MODULE WebSync ------------------------------
(***************************************************************************)
(* The web client's end of the sync protocol against one gateway room:     *)
(* SyncContext's sockets, timers and ledger of unacknowledged ops, the     *)
(* gateway task that serves each socket from the room's broadcast ring,    *)
(* and other devices that submit through REST.                             *)
(*                                                                         *)
(* A socket is a pair of FIFO channels.  Its link may die silently: what   *)
(* was in flight is lost and neither end is told.  A socket the client     *)
(* writes off may equally well be alive and slow, so the gateway goes on   *)
(* reading the ops that are in it.  Time is abstracted: a ping is overdue  *)
(* whenever it is outstanding.                                             *)
(***************************************************************************)
EXTENDS SyncRoom, SequencesExt

CONSTANTS
    MyOps,         \* ops this client's user may submit
    OtherOps,      \* ops other devices may submit
    Capacity,      \* BROADCAST_CAPACITY, the events a ring retains
    ServerNow,     \* what the gateway's clock stamps on a session
    ClientNow,     \* what the browser's clock stamps on a session
    MaxSubmits,    \* bound on this client's submissions
    MaxOthers,     \* bound on the other devices' ops
    MaxFaults,     \* bound on lost links, hasty timeouts, restarts, refreshes
    MaxPings       \* bound on the pings and pongs in flight on a socket

ASSUME WebAssumption ==
    /\ MyOps \subseteq SyncOp /\ OtherOps \subseteq SyncOp
    /\ OpId = 1 .. MaxSubmits
    /\ Capacity \in Nat \ {0}
    /\ ServerNow \in Nat /\ ClientNow \in Nat
    /\ {MaxSubmits, MaxOthers, MaxFaults, MaxPings} \subseteq Nat

\* Every fault costs at most one socket.
Socket == 1 .. (MaxFaults + 1)
NoSocket == 0

VARIABLES
    \* The gateway.
    room,        \* RoomSync.inner and .seen
    log,         \* every event sent on RoomSync.bus, of which a ring keeps the last
    \* The sockets, client end, network and gateway end.
    sock,
    \* The browser.
    wsRef,       \* the socket in use
    dialled,     \* how many sockets were made
    retryTimer,  \* whether a reconnect is scheduled
    awaitingPong,\* whether a ping is unanswered
    ready,
    confirmed,   \* the last state the gateway confirmed
    pending,     \* the ledger
    \* History and budgets.
    submitted,   \* the op of every op id minted so far
    fate,        \* what the gateway last decided about each op id
    others,      \* ops other devices have submitted
    faults       \* faults so far

gateway == <<room, log, fate>>
browser == <<wsRef, dialled, retryTimer, awaitingPong, ready>>
replica == <<confirmed, pending>>
budgets == <<submitted, others, faults>>
vars == <<room, log, sock, wsRef, dialled, retryTimer, awaitingPong, ready,
          confirmed, pending, submitted, fate, others, faults>>

-----------------------------------------------------------------------------
(***************************************************************************)
(* Frames and sockets.                                                     *)
(***************************************************************************)
OpFrame(p) == [type |-> "op", op_id |-> p.op_id, op |-> p.op]
PingFrame == [type |-> "ping"]
CloseFrame == [type |-> "close"]

SnapshotFrame ==
    [type |-> "snapshot",
     state |-> [playback |-> room.playback, version |-> room.version]]
AppliedFrame(n) ==
    [type |-> "applied", op |-> log[n].op, version |-> n, op_id |-> log[n].op_id]

UnusedSocket ==
    [client |-> "unused", attached |-> FALSE, server |-> "none", overrun |-> FALSE,
     next |-> 1, up |-> << >>, down |-> << >>]

Served(s) == sock[s].server \in {"serving", "recovering"}

\* Nothing sent on s arrives any more: the link is lost or the task ended.
Dead(s) == sock[s].server = "gone"

\* readyState of the socket in use, if there is one.
ReadyState == IF wsRef = NoSocket THEN "null" ELSE sock[wsRef].client

\* ws.send: a send into a dead link is lost without an error.
Sent(s, frames) == IF s.server = "gone" THEN s ELSE [s EXCEPT !.up = @ \o frames]

\* The gateway's send: a client that has closed its end ignores the frame.
Downstream(s, frame) ==
    IF s.client \in {"connecting", "open"}
    THEN [s EXCEPT !.down = Append(@, frame)]
    ELSE s

PingsInFlight(s) ==
    Len(SelectSeq(sock[s].up \o sock[s].down, LAMBDA f : f.type \in {"ping", "pong"}))

\* A socket whose link or whose gateway is gone.
Lost(s) ==
    [s EXCEPT !.server = "gone", !.overrun = FALSE, !.next = 1, !.up = << >>, !.down = << >>]

-----------------------------------------------------------------------------
(***************************************************************************)
(* Pure parts of the client: apply.ts and pending.ts.                      *)
(***************************************************************************)
\* applyOp: the mirror of Apply.  It judges no cursor, ignores a session
\* start without an anchor and stamps the browser's own clock.
ApplyOp(state, op, version) ==
    [ playback |-> IF op.type = "start_session" /\ op.anchor_index > Len(op.items)
                   THEN state.playback
                   ELSE Apply(state.playback, op, ClientNow),
      version  |-> version ]

Superseding == {"set_now_playing", "set_playing", "set_position"}

\* enqueuePending: an adjacent setter of the same kind is replaced.
EnqueuePending(ledger, next) ==
    IF /\ ledger # << >>
       /\ next.op.type \in Superseding
       /\ Last(ledger).op.type = next.op.type
    THEN Append(Front(ledger), next)
    ELSE Append(ledger, next)

\* Mutant: an acknowledgement settles the oldest op, whichever it names.
SettleOldest(ledger, op_id) == IF ledger = << >> THEN ledger ELSE Tail(ledger)

\* settlePending: the op that op_id names leaves the ledger.
SettlePending(ledger, op_id) == AtPlaces(ledger, {i \in DOMAIN ledger : ledger[i].op_id # op_id})

\* projectState: what is rendered.
ProjectState(state, ledger) ==
    FoldSeq(LAMBDA p, s : ApplyOp(s, p.op, state.version), state, Reverse(ledger))

-----------------------------------------------------------------------------
\* SyncProvider mounts and its effect dials the first socket.
Init ==
    /\ room = FreshRoom /\ log = << >>
    /\ sock = [s \in Socket |->
         IF s = 1 THEN [UnusedSocket EXCEPT !.client = "connecting", !.attached = TRUE]
         ELSE UnusedSocket]
    /\ wsRef = 1 /\ dialled = 1
    /\ retryTimer = FALSE /\ awaitingPong = FALSE /\ ready = FALSE
    /\ confirmed = [playback |-> DefaultPlayback, version |-> 0]
    /\ pending = << >> /\ submitted = << >>
    /\ fate = [i \in OpId |-> "undecided"]
    /\ others = 0 /\ faults = 0

-----------------------------------------------------------------------------
(***************************************************************************)
(* The browser.                                                            *)
(***************************************************************************)
Submit(op) ==
    /\ Len(submitted) < MaxSubmits
    /\ LET entry == [op_id |-> Len(submitted) + 1, op |-> op]
       IN  /\ submitted' = Append(submitted, op)
           /\ pending' = EnqueuePending(pending, entry)
           /\ sock' = IF ReadyState = "open"
                      THEN [sock EXCEPT ![wsRef] = Sent(@, <<OpFrame(entry)>>)]
                      ELSE sock
    /\ UNCHANGED <<gateway, browser, confirmed, others, faults>>

\* connect(): a new socket becomes the one in use.  Its table is given, so
\* that a caller may first have changed the old socket.
Connect(table) ==
    /\ dialled < MaxFaults + 1
    /\ dialled' = dialled + 1
    /\ wsRef' = dialled + 1
    /\ sock' = [table EXCEPT ![dialled + 1].client = "connecting",
                             ![dialled + 1].attached = TRUE]

RetryTimerFires ==
    /\ retryTimer
    /\ retryTimer' = FALSE
    /\ Connect(sock)
    /\ UNCHANGED <<gateway, awaitingPong, ready, replica, budgets>>

\* Mutant: the ledger is resent newest first.
OnOpenNewestFirst(s) ==
    /\ sock[s].client = "connecting" /\ sock[s].attached /\ ~ Dead(s)
    /\ awaitingPong' = FALSE
    /\ sock' = [sock EXCEPT ![s] =
         Sent([@ EXCEPT !.client = "open"],
              Reverse([i \in DOMAIN pending |-> OpFrame(pending[i])]))]
    /\ UNCHANGED <<gateway, wsRef, dialled, retryTimer, ready, replica, budgets>>

OnOpen(s) ==
    /\ sock[s].client = "connecting" /\ sock[s].attached /\ ~ Dead(s)
    /\ awaitingPong' = FALSE
    /\ sock' = [sock EXCEPT ![s] =
         Sent([@ EXCEPT !.client = "open"],
              [i \in DOMAIN pending |-> OpFrame(pending[i])])]
    /\ UNCHANGED <<gateway, wsRef, dialled, retryTimer, ready, replica, budgets>>

\* A socket that is no longer open drops what arrives.
OnMessage(s) ==
    /\ sock[s].client = "open" /\ sock[s].attached
    /\ sock[s].down # << >>
    /\ sock' = [sock EXCEPT ![s].down = Tail(@)]
    /\ awaitingPong' = FALSE
    /\ LET msg == Head(sock[s].down)
       IN  \/ /\ msg.type = "snapshot"
              /\ confirmed' = msg.state
              /\ ready' = TRUE
              /\ UNCHANGED pending
           \/ /\ msg.type = "applied"
              /\ confirmed' = ApplyOp(confirmed, msg.op, msg.version)
              /\ pending' = SettlePending(pending, msg.op_id)
              /\ UNCHANGED ready
           \/ /\ msg.type \in {"ack", "op_error"}
              /\ pending' = SettlePending(pending, msg.op_id)
              /\ UNCHANGED <<confirmed, ready>>
           \/ /\ msg.type = "pong"
              /\ UNCHANGED <<replica, ready>>
    /\ UNCHANGED <<gateway, wsRef, dialled, retryTimer, budgets>>

\* scheduleReconnect: a pending timer already owns the next attempt.
ScheduleReconnect == retryTimer' = TRUE

\* The browser finds out that a socket is closed: its dial failed, its peer
\* went away, or a close() of ours ran its course.
OnClose(s) ==
    /\ \/ sock[s].client \in {"connecting", "open"} /\ Dead(s)
       \/ sock[s].client = "closing"
    /\ sock' = [sock EXCEPT ![s].client = "closed"]
    /\ IF sock[s].attached
       THEN /\ ready' = FALSE
            /\ ScheduleReconnect
       ELSE UNCHANGED <<ready, retryTimer>>
    /\ UNCHANGED <<gateway, wsRef, dialled, awaitingPong, replica, budgets>>

\* ws.close(): the gateway still reads what was sent before, if it can.
Closing(s, attached) ==
    Sent([s EXCEPT !.client = "closing", !.attached = attached, !.down = << >>],
         <<CloseFrame>>)

\* Mutant: nothing redials after the socket was written off.
AbandonForGood(s) ==
    /\ sock' = [sock EXCEPT ![s] = Closing(@, FALSE)]
    /\ wsRef' = NoSocket
    /\ awaitingPong' = FALSE
    /\ ready' = FALSE
    /\ UNCHANGED retryTimer

\* abandon: detach the handlers first, so that the late onclose is unheard.
Abandon(s) ==
    /\ sock' = [sock EXCEPT ![s] = Closing(@, FALSE)]
    /\ wsRef' = NoSocket
    /\ awaitingPong' = FALSE
    /\ ready' = FALSE
    /\ ScheduleReconnect

\* The heartbeat finds no ping outstanding and sends the next one.
HeartbeatPings ==
    /\ ReadyState = "open"
    /\ ~ awaitingPong
    /\ PingsInFlight(wsRef) < MaxPings
    /\ awaitingPong' = TRUE
    /\ sock' = [sock EXCEPT ![wsRef] = Sent(@, <<PingFrame>>)]
    /\ UNCHANGED <<gateway, wsRef, dialled, retryTimer, ready, replica, budgets>>

\* The heartbeat or a probe finds its ping unanswered for too long.
PingOverdue ==
    /\ ReadyState = "open"
    /\ awaitingPong
    /\ Dead(wsRef)
    /\ Abandon(wsRef)
    /\ UNCHANGED <<gateway, dialled, replica, budgets>>

\* The same on a link that is merely slow.
HastyTimeout ==
    /\ ReadyState = "open"
    /\ awaitingPong
    /\ ~ Dead(wsRef)
    /\ faults < MaxFaults
    /\ faults' = faults + 1
    /\ Abandon(wsRef)
    /\ UNCHANGED <<gateway, dialled, replica, submitted, others>>

\* reconnectNow on `online` or on return to the foreground: an open socket is
\* probed, a dial in progress is left alone, anything else is redialled.
ReconnectNow ==
    \/ /\ ReadyState = "open"
       /\ PingsInFlight(wsRef) < MaxPings
       /\ sock' = [sock EXCEPT ![wsRef] = Sent(@, <<PingFrame>>)]
       /\ awaitingPong' = TRUE
       /\ UNCHANGED <<gateway, wsRef, dialled, retryTimer, ready, replica, budgets>>
    \/ /\ ReadyState \notin {"connecting", "open"}
       /\ retryTimer' = FALSE
       /\ Connect(sock)
       /\ UNCHANGED <<gateway, awaitingPong, ready, replica, budgets>>

\* A refreshed token re-runs the effect: the cleanup disposes of the old
\* socket's handlers and closes it, then the new effect dials.
TokenRefresh ==
    /\ faults < MaxFaults
    /\ faults' = faults + 1
    /\ retryTimer' = FALSE
    /\ Connect(IF ReadyState \in {"connecting", "open"}
               THEN [sock EXCEPT ![wsRef] = Closing(@, FALSE)]
               ELSE sock)
    /\ UNCHANGED <<gateway, awaitingPong, ready, replica, submitted, others>>

-----------------------------------------------------------------------------
(***************************************************************************)
(* The gateway: handle_socket for each socket, and the REST handler.       *)
(***************************************************************************)
\* Mutant: the receiver is registered before the lock is taken, so an event
\* may be in the snapshot and in the stream.
ServeUnlocked(s) ==
    /\ sock[s].client # "unused" /\ sock[s].server = "none"
    /\ sock' = [sock EXCEPT ![s] =
         Downstream([@ EXCEPT !.server = "serving",
                              !.next = IF log = << >> THEN 1 ELSE Len(log)], SnapshotFrame)]
    /\ UNCHANGED <<gateway, browser, replica, budgets>>

\* subscribe and snapshot under one read lock, and the snapshot is sent.
Serve(s) ==
    /\ sock[s].client # "unused" /\ sock[s].server = "none"
    /\ sock' = [sock EXCEPT ![s] =
         Downstream([@ EXCEPT !.server = "serving", !.next = Len(log) + 1], SnapshotFrame)]
    /\ UNCHANGED <<gateway, browser, replica, budgets>>

\* The oldest event the ring still holds.
OldestRetained == IF Len(log) > Capacity THEN Len(log) - Capacity + 1 ELSE 1

\* What is forwarded to an end the client has closed is not heard, so the
\* model leaves it out.
ForwardBroadcast(s) ==
    /\ sock[s].client \in {"connecting", "open"}
    /\ sock[s].server = "serving" /\ sock[s].next <= Len(log)
    /\ IF sock[s].next < OldestRetained
       THEN sock' = [sock EXCEPT ![s].server = "recovering", ![s].overrun = TRUE,
                                 ![s].next = OldestRetained]
       ELSE sock' = [sock EXCEPT ![s] =
              Downstream([@ EXCEPT !.next = sock[s].next + 1], AppliedFrame(sock[s].next))]
    /\ UNCHANGED <<gateway, browser, replica, budgets>>

\* Lagged: the recovery snapshot is read and sent.
LaggedSnapshot(s) ==
    /\ sock[s].server = "recovering"
    /\ sock' = [sock EXCEPT ![s] =
         Downstream([@ EXCEPT !.server = "serving"], SnapshotFrame)]
    /\ UNCHANGED <<gateway, browser, replica, budgets>>

\* apply_with_id with its broadcast: the room, the ring and what was decided.
ApplyAndBroadcast(op, id) ==
    /\ room' = ApplyWithId(room, op, id, ServerNow)
    /\ log' = IF Accepted(room, op, id) THEN Append(log, [op |-> op, op_id |-> id]) ELSE log
    /\ fate' = IF id = NoOpId \/ Duplicate(room, id) THEN fate
               ELSE [fate EXCEPT ![id] =
                       IF Accepted(room, op, id) THEN "applied" ELSE "refused"]

\* handle_client_text, and the close that ends the task.
HandleClientText(s) ==
    /\ sock[s].server = "serving" /\ sock[s].up # << >>
    /\ LET msg  == Head(sock[s].up)
           read == [sock[s] EXCEPT !.up = Tail(@)]
       IN  \/ /\ msg.type = "op"
              /\ ApplyAndBroadcast(msg.op, msg.op_id)
              /\ sock' = [sock EXCEPT ![s] =
                   IF Accepted(room, msg.op, msg.op_id) THEN read
                   ELSE Downstream(read,
                          [type |-> IF Duplicate(room, msg.op_id) THEN "ack" ELSE "op_error",
                           op_id |-> msg.op_id])]
           \/ /\ msg.type = "ping"
              /\ sock' = [sock EXCEPT ![s] = Downstream(read, [type |-> "pong"])]
              /\ UNCHANGED gateway
           \/ /\ msg.type = "close"
              /\ sock' = [sock EXCEPT ![s] = Lost(read)]
              /\ UNCHANGED gateway
    /\ UNCHANGED <<browser, replica, budgets>>

\* Another device's op, through POST /v1/sync/ops: it carries no id.
SubmitOp(op) ==
    /\ others < MaxOthers
    /\ others' = others + 1
    /\ ApplyAndBroadcast(op, NoOpId)
    /\ UNCHANGED <<sock, browser, replica, submitted, faults>>

-----------------------------------------------------------------------------
(***************************************************************************)
(* Faults.                                                                 *)
(***************************************************************************)
\* The network under a socket vanishes, and all that was in flight with it.
\* The gateway's task ends when its receive or send fails; what it does until
\* then goes nowhere.
LinkDies(s) ==
    /\ sock[s].client \in {"connecting", "open"} /\ ~ Dead(s)
    /\ faults < MaxFaults
    /\ faults' = faults + 1
    /\ sock' = [sock EXCEPT ![s] = Lost(@)]
    /\ UNCHANGED <<gateway, browser, replica, submitted, others>>

\* The gateway restarts: rooms, rings and every connection to it are gone.
\* Only a dial it had not answered reaches its successor.
GatewayRestarts ==
    /\ faults < MaxFaults
    /\ faults' = faults + 1
    /\ room' = FreshRoom /\ log' = << >>
    /\ sock' = [s \in Socket |->
         IF sock[s].client = "unused" \/ (sock[s].client = "connecting" /\ ~ Served(s))
         THEN sock[s] ELSE Lost(sock[s])]
    /\ UNCHANGED <<browser, replica, submitted, others, fate>>

-----------------------------------------------------------------------------
Next ==
    \/ \E op \in MyOps : Submit(op)
    \/ \E op \in OtherOps : SubmitOp(op)
    \/ RetryTimerFires \/ HeartbeatPings \/ PingOverdue \/ HastyTimeout
    \/ ReconnectNow \/ TokenRefresh \/ GatewayRestarts
    \/ \E s \in Socket :
         \/ OnOpen(s) \/ OnMessage(s) \/ OnClose(s)
         \/ Serve(s) \/ ForwardBroadcast(s) \/ LaggedSnapshot(s)
         \/ HandleClientText(s) \/ LinkDies(s)

Spec == Init /\ [][Next]_vars

\* The browser runs its timers and its events, and fails a dial that gets no
\* answer; the gateway serves its sockets.  Nothing promises that onclose ever
\* fires on a dead link.
Fairness ==
    /\ WF_vars(RetryTimerFires) /\ WF_vars(HeartbeatPings) /\ WF_vars(PingOverdue)
    /\ \A s \in Socket :
         /\ WF_vars(OnOpen(s)) /\ WF_vars(OnMessage(s))
         /\ WF_vars(sock[s].client = "connecting" /\ OnClose(s))
         /\ WF_vars(Serve(s)) /\ WF_vars(ForwardBroadcast(s))
         /\ WF_vars(LaggedSnapshot(s)) /\ WF_vars(HandleClientText(s))

FairSpec == Spec /\ Fairness

-----------------------------------------------------------------------------
(***************************************************************************)
(* Properties.                                                             *)
(***************************************************************************)
\* The playback state of the room after the first n events of its log.
StateAt == StatesOf([n \in DOMAIN log |-> log[n].op], ServerNow)

\* The places of the events on their way to the client.
AppliedAt(s) == {i \in DOMAIN sock[s].down : sock[s].down[i].type = "applied"}

\* overrun is history: whether the ring ever overran the socket's receiver.
\* The socket in use is up at both ends and its snapshot has arrived.
InUse(s) ==
    /\ wsRef = s /\ sock[s].client = "open"
    /\ sock[s].server = "serving"
    /\ \A i \in DOMAIN sock[s].down : sock[s].down[i].type # "snapshot"

\* The client's confirmed state is the room's state at the version it names,
\* and the events on their way to it are exactly those that follow, in order: an
\* op is neither missed nor applied twice between a snapshot and the stream
\* (subscribe's boundary), across reconnects, resends and restarts.  A socket
\* the ring overran is excepted; Converged says what is expected there.
InStep ==
    \A s \in Socket : InUse(s) /\ ~ sock[s].overrun =>
        /\ {sock[s].down[i].version : i \in AppliedAt(s)} = confirmed.version + 1 .. sock[s].next - 1
        /\ \A i, j \in AppliedAt(s) : i < j => sock[s].down[i].version < sock[s].down[j].version
        /\ confirmed.version < sock[s].next
        /\ Unstamped(confirmed.playback) = Unstamped(StateAt[confirmed.version])

\* With nothing in flight, the client agrees with the room: apply.ts "keeps
\* the local SyncState convergent with the server".
Converged ==
    \A s \in Socket : InUse(s) /\ sock[s].down = << >> /\ sock[s].next = Len(log) + 1 =>
        Unstamped(confirmed.playback) = Unstamped(room.playback)

Mine(n) == log[n].op_id # NoOpId

\* The ops of this client that the log holds between two places of it, other
\* than the one at the first.
OthersBetween(i, j) ==
    {log[k].op_id : k \in {m \in DOMAIN log : i < m /\ m < j}} \ {NoOpId, log[i].op_id}

\* However often it is resent, and on however many sockets, an op is applied
\* to a room once, and a second time only when SEEN_OP_IDS other ops were
\* applied in between: the window evicts an id neither early nor out of turn,
\* and a resend does not make it younger or older.
AppliedOnce ==
    \A i, j \in DOMAIN log :
        i < j /\ Mine(i) /\ log[i].op_id = log[j].op_id =>
            Cardinality(OthersBetween(i, j)) >= SeenOpIds

\* An op leaves the ledger only when the gateway decided about it, or when
\* the setter submitted right after it took its place: no op is lost to a
\* dead socket, a reconnect, a restart or another op's acknowledgement.
LeavesLedgerDecided ==
    [][\A i \in DOMAIN pending :
         \/ \E j \in DOMAIN pending' : pending'[j] = pending[i]
         \/ fate[pending[i].op_id] # "undecided"
         \/ /\ pending' # << >> /\ Last(pending').op_id = Len(submitted')
            /\ Len(submitted') = Len(submitted) + 1
            /\ Last(pending').op.type = pending[i].op.type
            /\ pending[i].op.type \in Superseding]_vars

FirstTime(j) == \A k \in DOMAIN log : k < j => log[k].op_id # log[j].op_id

\* Ops that are not setters land in the order they were submitted, although
\* a written-off socket may still deliver after its successor, and although
\* the window forgets ids.  A second application is AppliedOnce's concern.
SubmissionOrder ==
    \A i, j \in DOMAIN log :
        /\ i < j /\ Mine(i) /\ Mine(j) /\ FirstTime(j)
        /\ {log[i].op.type, log[j].op.type} \cap Superseding = {}
        => log[i].op_id < log[j].op_id

\* Once faults stop, every op is decided and the client agrees with the room:
\* dead links are found by the heartbeat, redialled and the ledger resent.
EventuallySettled ==
    <>[](pending = << >> /\ Unstamped(confirmed.playback) = Unstamped(room.playback))
=============================================================================
