-------------------------- MODULE SyncStoreProofs --------------------------
(***************************************************************************)
(* SyncStore's invariants for any number of rooms, handlers, ids and ops.  *)
(*                                                                         *)
(* A queue is well typed after an op only if its cursor was in bounds      *)
(* before it, so TypeOK and CursorInBounds are proved together (Inv).      *)
(***************************************************************************)
EXTENDS SyncStore, PlaybackProofs

Inv == TypeOK /\ CursorInBounds

-----------------------------------------------------------------------------
(***************************************************************************)
(* Rooms.                                                                  *)
(***************************************************************************)
LEMMA FreshRoomSound ==
    FreshRoom \in Room /\ InBounds(FreshRoom.playback) /\ DistinctIds(FreshRoom.playback.items)
<1>1. << >> \in Seq(OpId)
  BY EmptySeq
<1> QED BY <1>1, DefaultSound DEF FreshRoom, Room

\* The window of seen ids stays a sequence of ids.
LEMMA SeenInsertType ==
    ASSUME NEW seen \in Seq(OpId), NEW id \in OpId
    PROVE  SeenInsert(seen, id) \in Seq(OpId)
<1>1. CASE \E i \in DOMAIN seen : seen[i] = id
  BY <1>1 DEF SeenInsert
<1>2. CASE ~ \E i \in DOMAIN seen : seen[i] = id
  <2>1. CASE Len(seen) < SeenOpIds
    BY <1>2, <2>1, AppendProperties DEF SeenInsert
  <2>2. CASE ~ (Len(seen) < SeenOpIds)
    <3>1. Len(seen) \in Nat
      BY LenProperties
    <3>2. seen # << >>
      BY <2>2, <3>1, RoomAssumption, EmptySeq
    <3>3. Tail(seen) \in Seq(OpId)
      BY <3>2, HeadTailProperties
    <3> QED BY <1>2, <2>2, <3>3, AppendProperties DEF SeenInsert
  <2> QED BY <2>1, <2>2
<1> QED BY <1>1, <1>2

\* apply_with_id keeps a room well typed and its cursor in bounds; its ids
\* stay distinct and its listener keeps the track under the same conditions
\* as with the op itself.
LEMMA ApplyWithIdSound ==
    ASSUME NEW room \in Room, InBounds(room.playback), NEW op \in SyncOp,
           NEW id \in OpId \cup {NoOpId}, NEW now_ms \in Nat
    PROVE  LET after == ApplyWithId(room, op, id, now_ms)
           IN  /\ after \in Room
               /\ InBounds(after.playback)
               /\ DistinctIds(room.playback.items) /\ CleanOp(op)
                    => DistinctIds(after.playback.items)
               /\ MovesCursor(room.playback, op) \/ SameItem(room.playback, after.playback)
<1> DEFINE after == ApplyWithId(room, op, id, now_ms)
<1>0. room.playback \in PlaybackState /\ room.version \in Nat /\ room.seen \in Seq(OpId)
  BY DEF Room
<1>1. CASE ~ Accepted(room, op, id)
  <2>1. after = room
    BY <1>1 DEF ApplyWithId
  <2> QED BY <2>1 DEF SameItem
<1>2. CASE Accepted(room, op, id)
  <2>1. after = Applied(room, op, id, now_ms)
    BY <1>2 DEF ApplyWithId
  <2>2. ~ Rejected(room.playback, op)
    BY <1>2 DEF Accepted
  <2>3. after.playback = Apply(room.playback, op, now_ms)
    BY <2>1 DEF Applied
  <2>4. /\ Apply(room.playback, op, now_ms) \in PlaybackState
        /\ InBounds(Apply(room.playback, op, now_ms))
        /\ DistinctIds(room.playback.items) /\ CleanOp(op)
             => DistinctIds(Apply(room.playback, op, now_ms).items)
        /\ \/ MovesCursor(room.playback, op)
           \/ SameItem(room.playback, Apply(room.playback, op, now_ms))
    BY <1>0, <2>2, ApplySound
  <2>5. after \in Room
    <3>1. (IF id = NoOpId THEN room.seen ELSE SeenInsert(room.seen, id)) \in Seq(OpId)
      <4>1. CASE id = NoOpId
        BY <1>0, <4>1
      <4>2. CASE id # NoOpId
        BY <1>0, <4>2, SeenInsertType
      <4> QED BY <4>1, <4>2
    <3> QED BY <1>0, <2>1, <2>4, <3>1 DEF Applied, Room
  <2> QED BY <2>3, <2>4, <2>5
<1> QED BY <1>1, <1>2

-----------------------------------------------------------------------------
(***************************************************************************)
(* Handlers and session rows.                                              *)
(***************************************************************************)
LEMMA ApplyingHandler ==
    ASSUME TypeOK, NEW h \in Handler, handler[h].pc = "apply"
    PROVE  /\ handler[h].room \in RoomId
           /\ handler[h].op \in Ops /\ handler[h].op \in SyncOp
           /\ handler[h].op_id \in OpId \cup {NoOpId}
           /\ handler[h].now_ms \in Nat
<1>1. handler[h] \in HandlerState
  BY DEF TypeOK
<1> QED BY <1>1, StoreAssumption DEF HandlerState, Idle

\* A handler about to mirror a session op has its session and its time.
LEMMA MirroringHandler ==
    ASSUME TypeOK, NEW h \in Handler, handler[h].pc \in {"start", "stop"}
    PROVE  handler[h].session_id \in SessionId /\ handler[h].now_ms \in Nat
<1>1. handler[h] \in HandlerState
  BY DEF TypeOK
<1> QED BY <1>1 DEF HandlerState, Idle

\* What a handler has to mirror after its op.
LEMMA MirrorOfType ==
    ASSUME NEW p \in PlaybackState, NEW op \in SyncOp, NEW now_ms \in Nat
    PROVE  MirrorOf(p, op, now_ms) \in HandlerState
<1>1. CASE op.type = "start_session"
  <2>1. op.session_id \in SessionId
    BY <1>1 DEF SyncOp, PushOp, RemoveOp, ReorderOp, SetNowPlayingOp, SetPositionOp,
                SetPlayingOp, ClearOp, StartSessionOp, ReplaceUpcomingOp, StopSessionOp
  <2> QED BY <1>1, <2>1 DEF MirrorOf, HandlerState
<1>2. CASE op.type \in {"stop_session", "clear"} /\ p.session_anchor # NoAnchor
  <2>1. p.session_anchor.session_id \in SessionId
    BY <1>2 DEF PlaybackState, SessionAnchor
  <2>2. MirrorOf(p, op, now_ms) =
          [pc |-> "stop", session_id |-> p.session_anchor.session_id, now_ms |-> now_ms]
    BY <1>2 DEF MirrorOf
  <2> QED BY <2>1, <2>2 DEF HandlerState
<1>3. CASE /\ op.type # "start_session"
           /\ ~ (op.type \in {"stop_session", "clear"} /\ p.session_anchor # NoAnchor)
  <2>1. MirrorOf(p, op, now_ms) = Idle
    BY <1>3 DEF MirrorOf
  <2> QED BY <2>1 DEF HandlerState
<1> QED BY <1>1, <1>2, <1>3

\* The session statements leave a table.
LEMMA SessionRowsType ==
    ASSUME NEW table \in [SessionId -> Row], NEW s \in SessionId, NEW now_ms \in Nat
    PROVE  /\ SessionStart(table, s, now_ms) \in [SessionId -> Row]
           /\ SessionStop(table, s, now_ms) \in [SessionId -> Row]
<1>1. SessionStop(table, s, now_ms) \in [SessionId -> Row]
  BY DEF SessionStop, Row
<1>2. SessionStart(table, s, now_ms) \in [SessionId -> Row]
  <2>1. \A x \in SessionId :
          /\ [state |-> "open", started_ms |-> now_ms, ended_ms |-> 0] \in Row
          /\ [table[x] EXCEPT !.state = "closed", !.ended_ms = now_ms] \in Row
          /\ table[x] \in Row
    BY DEF Row
  <2> QED BY <2>1 DEF SessionStart
<1> QED BY <1>1, <1>2

-----------------------------------------------------------------------------
(***************************************************************************)
(* The inductive invariant.                                                *)
(***************************************************************************)
LEMMA InitInv == Init => Inv
<1>1. << >> \in Seq(OpId)
  BY EmptySeq
<1>2. NoRow \in Row /\ Idle \in HandlerState
  BY DEF NoRow, Row, HandlerState
<1> QED BY <1>1, <1>2, FreshRoomSound DEF Init, Inv, TypeOK, CursorInBounds, InBounds

\* Every step of a handler, the clock and a restart keep it.
LEMMA NextInv == Inv /\ [Next]_vars => Inv'
<1>1. SUFFICES ASSUME Inv, [Next]_vars PROVE Inv'
  OBVIOUS
<1> USE <1>1 DEF Inv
<1>2. CASE UNCHANGED vars
  BY <1>2 DEF vars, TypeOK, CursorInBounds
<1>3. ASSUME NEW h \in Handler, NEW r \in RoomId, NEW op \in Ops,
             NEW id \in OpId \cup {NoOpId}, Receive(h, r, op, id)
      PROVE  Inv'
  <2>1. [pc |-> "apply", room |-> r, op |-> op, op_id |-> id, now_ms |-> clock] \in HandlerState
    BY DEF TypeOK, HandlerState
  <2>2. handler' \in [Handler -> HandlerState]
    BY <1>3, <2>1 DEF TypeOK, Receive
  <2> QED BY <1>3, <2>2 DEF Receive, TypeOK, CursorInBounds
<1>4. ASSUME NEW h \in Handler, Locked(h) PROVE Inv'
  <2> DEFINE r == handler[h].room
             op == handler[h].op
             id == handler[h].op_id
             now == handler[h].now_ms
  <2>1. /\ r \in RoomId /\ op \in SyncOp /\ id \in OpId \cup {NoOpId} /\ now \in Nat
    BY <1>4, ApplyingHandler DEF Locked
  <2>2. rooms[r] \in Room /\ rooms[r].playback \in PlaybackState /\ InBounds(rooms[r].playback)
    BY <2>1 DEF TypeOK, CursorInBounds, InBounds, Room
  <2>3. rooms' = [rooms EXCEPT ![r] = ApplyWithId(rooms[r], op, id, now)]
    BY <1>4 DEF Locked
  <2>4. /\ handler' = [handler EXCEPT ![h] = MirrorOf(rooms[r].playback, op, now)]
           \/ handler' = [handler EXCEPT ![h] = Idle]
        /\ landed' = landed \/ landed' = [landed EXCEPT ![r] = IF id = NoOpId THEN landed[r]
                                                               ELSE Append(landed[r], id)]
        /\ rows' = rows /\ clock' = clock /\ faults' = faults
    BY <1>4 DEF Locked
  <2> HIDE DEF r, op, id, now
  <2>5. /\ ApplyWithId(rooms[r], op, id, now) \in Room
        /\ InBounds(ApplyWithId(rooms[r], op, id, now).playback)
    BY <2>1, <2>2, ApplyWithIdSound
  <2>6. rooms' \in [RoomId -> Room]
    BY <2>1, <2>3, <2>5 DEF TypeOK
  <2>7. CursorInBounds'
    BY <2>1, <2>3, <2>5 DEF TypeOK, CursorInBounds, InBounds
  <2>8. handler' \in [Handler -> HandlerState]
    <3>1. MirrorOf(rooms[r].playback, op, now) \in HandlerState /\ Idle \in HandlerState
      BY <2>1, <2>2, MirrorOfType DEF HandlerState
    <3> QED BY <2>4, <3>1 DEF TypeOK
  <2>9. landed' \in [RoomId -> Seq(OpId)]
    <3>1. landed[r] \in Seq(OpId)
      BY <2>1 DEF TypeOK
    <3>2. (IF id = NoOpId THEN landed[r] ELSE Append(landed[r], id)) \in Seq(OpId)
      BY <2>1, <3>1, AppendProperties
    <3> QED BY <2>4, <3>2 DEF TypeOK
  <2> QED BY <2>4, <2>6, <2>7, <2>8, <2>9 DEF TypeOK
<1>5. ASSUME NEW h \in Handler, MirrorStart(h) PROVE Inv'
  <2>1. handler[h].session_id \in SessionId /\ handler[h].now_ms \in Nat
    BY <1>5, MirroringHandler DEF MirrorStart
  <2>2. rows' \in [SessionId -> Row]
    BY <1>5, <2>1, SessionRowsType DEF MirrorStart, TypeOK
  <2>3. handler' \in [Handler -> HandlerState]
    BY <1>5 DEF MirrorStart, TypeOK, HandlerState
  <2> QED BY <1>5, <2>2, <2>3 DEF MirrorStart, TypeOK, CursorInBounds
<1>6. ASSUME NEW h \in Handler, MirrorStop(h) PROVE Inv'
  <2>1. handler[h].session_id \in SessionId /\ handler[h].now_ms \in Nat
    BY <1>6, MirroringHandler DEF MirrorStop
  <2>2. rows' \in [SessionId -> Row]
    BY <1>6, <2>1, SessionRowsType DEF MirrorStop, TypeOK
  <2>3. handler' \in [Handler -> HandlerState]
    BY <1>6 DEF MirrorStop, TypeOK, HandlerState
  <2> QED BY <1>6, <2>2, <2>3 DEF MirrorStop, TypeOK, CursorInBounds
<1>7. ASSUME NEW h \in Handler, HandlerDropped(h) PROVE Inv'
  <2>1. handler' \in [Handler -> HandlerState]
    BY <1>7 DEF HandlerDropped, TypeOK, HandlerState
  <2> QED BY <1>7, <2>1 DEF HandlerDropped, TypeOK, CursorInBounds
<1>8. CASE Restart
  <2>1. << >> \in Seq(OpId) /\ Idle \in HandlerState
    BY EmptySeq DEF HandlerState
  <2> QED BY <1>8, <2>1, FreshRoomSound DEF Restart, TypeOK, CursorInBounds, InBounds
<1>9. CASE Tick
  BY <1>9 DEF Tick, TypeOK, CursorInBounds
<1> QED BY <1>1, <1>2, <1>3, <1>4, <1>5, <1>6, <1>7, <1>8, <1>9 DEF Next

\* So it holds at every moment.
LEMMA SpecInv == Spec => []Inv
BY InitInv, NextInv, PTL DEF Spec

\* Every reachable state of the store is well typed.
THEOREM TypeCorrect == Spec => []TypeOK
<1>1. Inv => TypeOK
  BY DEF Inv
<1> QED BY <1>1, SpecInv, PTL

\* The cursor of every room stays None or within the room's queue, whatever
\* ops clients submit and in whatever order their handlers get the lock.
THEOREM CursorStaysInBounds == Spec => []CursorInBounds
<1>1. Inv => CursorInBounds
  BY DEF Inv
<1> QED BY <1>1, SpecInv, PTL

-----------------------------------------------------------------------------
(***************************************************************************)
(* The queue.                                                              *)
(***************************************************************************)
\* A step either leaves every room alone, restarts the gateway, or applies
\* the op of one handler to that handler's room.
LEMMA RoomSteps ==
    ASSUME Inv, [Next]_vars
    PROVE  \/ rooms' = rooms
           \/ rooms' = [x \in RoomId |-> FreshRoom]
           \/ \E h \in Handler :
                /\ handler[h].pc = "apply"
                /\ rooms' = [rooms EXCEPT ![handler[h].room] =
                     ApplyWithId(rooms[handler[h].room], handler[h].op,
                                 handler[h].op_id, handler[h].now_ms)]
<1>1. CASE \E h \in Handler : Locked(h)
  BY <1>1 DEF Locked
<1>2. CASE Restart
  BY <1>2 DEF Restart
<1>3. CASE ~ (\E h \in Handler : Locked(h)) /\ ~ Restart
  BY <1>3 DEF Next, vars, Receive, MirrorStart, MirrorStop, HandlerDropped, Tick
<1> QED BY <1>1, <1>2, <1>3

\* The room an applying handler writes meets ApplyWithIdSound's hypotheses.
LEMMA LockedRoomSound ==
    ASSUME Inv, NEW h \in Handler, handler[h].pc = "apply"
    PROVE  LET r == handler[h].room
               after == ApplyWithId(rooms[r], handler[h].op, handler[h].op_id,
                                    handler[h].now_ms)
           IN  /\ r \in RoomId
               /\ DistinctIds(rooms[r].playback.items) /\ CleanOp(handler[h].op)
                    => DistinctIds(after.playback.items)
               /\ \/ MovesCursor(rooms[r].playback, handler[h].op)
                  \/ SameItem(rooms[r].playback, after.playback)
<1> DEFINE r == handler[h].room
           op == handler[h].op
           id == handler[h].op_id
           now == handler[h].now_ms
<1>1. r \in RoomId /\ op \in SyncOp /\ id \in OpId \cup {NoOpId} /\ now \in Nat
  BY ApplyingHandler DEF Inv
<1>2. rooms[r] \in Room /\ InBounds(rooms[r].playback)
  BY <1>1 DEF Inv, TypeOK, CursorInBounds, InBounds
<1> HIDE DEF r, op, id, now
<1>3. /\ DistinctIds(rooms[r].playback.items) /\ CleanOp(op)
           => DistinctIds(ApplyWithId(rooms[r], op, id, now).playback.items)
      /\ \/ MovesCursor(rooms[r].playback, op)
         \/ SameItem(rooms[r].playback, ApplyWithId(rooms[r], op, id, now).playback)
  BY <1>1, <1>2, ApplyWithIdSound
<1> QED BY <1>1, <1>3 DEF r, op, id, now

\* If no client starts a session with a list that repeats an id, no room's
\* queue ever holds an id twice.  (start_session keeps the list it is given,
\* so the hypothesis is needed: run "repeated".)
THEOREM IdsStayDistinct ==
    ASSUME \A op \in Ops : CleanOp(op)
    PROVE  Spec => []QueueIdsDistinct
<1>1. Init => QueueIdsDistinct
  BY FreshRoomSound DEF Init, QueueIdsDistinct
<1>2. Inv /\ QueueIdsDistinct /\ [Next]_vars => QueueIdsDistinct'
  <2>1. SUFFICES ASSUME Inv, QueueIdsDistinct, [Next]_vars
                 PROVE  QueueIdsDistinct'
    OBVIOUS
  <2>2. CASE rooms' = rooms
    BY <2>1, <2>2 DEF QueueIdsDistinct
  <2>3. CASE rooms' = [x \in RoomId |-> FreshRoom]
    BY <2>3, FreshRoomSound DEF QueueIdsDistinct
  <2>4. ASSUME NEW h \in Handler, handler[h].pc = "apply",
               rooms' = [rooms EXCEPT ![handler[h].room] =
                  ApplyWithId(rooms[handler[h].room], handler[h].op,
                              handler[h].op_id, handler[h].now_ms)]
        PROVE  QueueIdsDistinct'
    <3> DEFINE r == handler[h].room
               after == ApplyWithId(rooms[r], handler[h].op, handler[h].op_id,
                                    handler[h].now_ms)
    <3>1. handler[h].op \in Ops
      BY <2>1, <2>4, ApplyingHandler DEF Inv
    <3>2. r \in RoomId /\ DistinctIds(rooms[r].playback.items)
      BY <2>1, <2>4, LockedRoomSound DEF QueueIdsDistinct
    <3>3. DistinctIds(after.playback.items)
      BY <2>1, <2>4, <3>1, <3>2, LockedRoomSound
    <3>4. rooms' = [rooms EXCEPT ![r] = after]
      BY <2>4
    <3>5. rooms \in [RoomId -> Room]
      BY <2>1 DEF Inv, TypeOK
    <3> HIDE DEF r, after
    <3> QED BY <2>1, <3>2, <3>3, <3>4, <3>5 DEF QueueIdsDistinct
  <2> QED BY <2>1, <2>2, <2>3, <2>4, RoomSteps
<1> QED BY <1>1, <1>2, SpecInv, PTL DEF Spec

\* The item a room plays changes only by an op that moves the cursor, by the
\* removal of that very item, or by a restart of the gateway.
THEOREM ListenerKeepsTrack == Spec => NowPlayingKept
<1> DEFINE Kept ==
        \A r \in RoomId :
          NowPlaying(rooms'[r].playback) # NowPlaying(rooms[r].playback) =>
            \/ rooms' = [x \in RoomId |-> FreshRoom]
            \/ \E h \in Handler :
                 /\ handler[h].pc = "apply" /\ handler[h].room = r
                 /\ MovesCursor(rooms[r].playback, handler[h].op)
<1>1. Inv /\ [Next]_vars => [Kept]_vars
  <2>1. SUFFICES ASSUME Inv, [Next]_vars PROVE Kept
    OBVIOUS
  <2>2. CASE rooms' = rooms
    BY <2>2
  <2>3. CASE rooms' = [x \in RoomId |-> FreshRoom]
    BY <2>3
  <2>4. ASSUME NEW h \in Handler, handler[h].pc = "apply",
               rooms' = [rooms EXCEPT ![handler[h].room] =
                  ApplyWithId(rooms[handler[h].room], handler[h].op,
                              handler[h].op_id, handler[h].now_ms)]
        PROVE  Kept
    <3> DEFINE after == ApplyWithId(rooms[handler[h].room], handler[h].op,
                                    handler[h].op_id, handler[h].now_ms)
    <3>1. rooms \in [RoomId -> Room]
      BY <2>1 DEF Inv, TypeOK
    <3>2. \/ MovesCursor(rooms[handler[h].room].playback, handler[h].op)
          \/ SameItem(rooms[handler[h].room].playback, after.playback)
      BY <2>1, <2>4, LockedRoomSound
    <3>3. rooms' = [rooms EXCEPT ![handler[h].room] = after]
      BY <2>4
    <3> HIDE DEF after
    <3> QED BY <2>4, <3>1, <3>2, <3>3 DEF SameItem
  <2> HIDE DEF Kept
  <2> QED BY <2>1, <2>2, <2>3, <2>4, RoomSteps
<1> QED BY <1>1, SpecInv, PTL DEF Spec, NowPlayingKept

-----------------------------------------------------------------------------
(***************************************************************************)
(* The session rows.                                                       *)
(***************************************************************************)
\* A step leaves the table alone or writes one mirror into it.
LEMMA RowSteps ==
    ASSUME Inv, [Next]_vars
    PROVE  \/ rows' = rows
           \/ \E s \in SessionId, now_ms \in Nat :
                \/ rows' = SessionStart(rows, s, now_ms)
                \/ rows' = SessionStop(rows, s, now_ms)
<1>1. ASSUME NEW h \in Handler, MirrorStart(h) \/ MirrorStop(h)
      PROVE  \E s \in SessionId, now_ms \in Nat :
                \/ rows' = SessionStart(rows, s, now_ms)
                \/ rows' = SessionStop(rows, s, now_ms)
  <2>1. handler[h].session_id \in SessionId /\ handler[h].now_ms \in Nat
    BY <1>1, MirroringHandler DEF Inv, MirrorStart, MirrorStop
  <2> QED BY <1>1, <2>1 DEF MirrorStart, MirrorStop
<1>2. CASE \A h \in Handler : ~ MirrorStart(h) /\ ~ MirrorStop(h)
  BY <1>2 DEF Next, vars, Receive, Locked, HandlerDropped, Restart, Tick
<1> QED BY <1>1, <1>2

\* What a start and a stop leave of the rows: one that was not open is not
\* opened, except by a start of its own session, and then no other is open.
LEMMA SessionStartRows ==
    ASSUME NEW table \in [SessionId -> Row], NEW s \in SessionId, NEW now_ms \in Nat,
           NEW x \in SessionId
    PROVE  LET after == SessionStart(table, s, now_ms)
           IN  /\ after = table \/ (after[x].state = "open" => x = s)
               /\ table[x].state = "closed" => after[x] = table[x]
<1>1. CASE table[s].state # "none"
  BY <1>1 DEF SessionStart
<1>2. CASE table[s].state = "none"
  <2>1. SessionStart(table, s, now_ms)[x] =
          IF x = s
          THEN [state |-> "open", started_ms |-> now_ms, ended_ms |-> 0]
          ELSE IF table[x].state = "open"
          THEN [table[x] EXCEPT !.state = "closed", !.ended_ms = now_ms]
          ELSE table[x]
    BY <1>2 DEF SessionStart
  <2>2. table[x] \in Row
    OBVIOUS
  <2> QED BY <1>2, <2>1, <2>2 DEF Row
<1> QED BY <1>1, <1>2

\* What SessionStop does to a row: it opens none, and a closed one stays.
LEMMA SessionStopRows ==
    ASSUME NEW table \in [SessionId -> Row], NEW s \in SessionId, NEW now_ms \in Nat,
           NEW x \in SessionId
    PROVE  LET after == SessionStop(table, s, now_ms)
           IN  /\ after[x].state = "open" => table[x].state = "open"
               /\ table[x].state = "closed" => after[x] = table[x]
<1>1. table[x] \in Row /\ table[s] \in Row
  OBVIOUS
<1> QED BY <1>1 DEF SessionStop, Row

\* At most one row of recommend_sessions is open, however the mirrors of
\* concurrent starts and stops are ordered and whichever of them are lost.
THEOREM AtMostOneOpenRow == Spec => []OneOpenRow
<1>1. Init => OneOpenRow
  BY DEF Init, OneOpenRow, NoRow
<1>2. Inv /\ OneOpenRow /\ [Next]_vars => OneOpenRow'
  <2>1. SUFFICES ASSUME Inv, OneOpenRow, [Next]_vars, NEW x \in SessionId, NEW y \in SessionId,
                        rows'[x].state = "open", rows'[y].state = "open"
                 PROVE  x = y
    BY DEF OneOpenRow
  <2>2. rows \in [SessionId -> Row]
    BY <2>1 DEF Inv, TypeOK
  <2>3. CASE rows' = rows
    BY <2>1, <2>3 DEF OneOpenRow
  <2>4. ASSUME NEW s \in SessionId, NEW now_ms \in Nat, rows' = SessionStart(rows, s, now_ms)
        PROVE  x = y
    <3>1. CASE rows' = rows
      BY <2>3, <3>1
    <3>2. CASE rows' # rows
      <4>1. x = s
        BY <2>1, <2>2, <2>4, <3>2, SessionStartRows
      <4>2. y = s
        BY <2>1, <2>2, <2>4, <3>2, SessionStartRows
      <4> QED BY <4>1, <4>2
    <3> QED BY <3>1, <3>2
  <2>5. ASSUME NEW s \in SessionId, NEW now_ms \in Nat, rows' = SessionStop(rows, s, now_ms)
        PROVE  x = y
    <3>1. rows[x].state = "open"
      BY <2>1, <2>2, <2>5, SessionStopRows
    <3>2. rows[y].state = "open"
      BY <2>1, <2>2, <2>5, SessionStopRows
    <3> QED BY <2>1, <3>1, <3>2 DEF OneOpenRow
  <2> QED BY <2>1, <2>3, <2>4, <2>5, RowSteps
<1> QED BY <1>1, <1>2, SpecInv, PTL DEF Spec

\* A closed row is final: no later start or stop, however late it lands,
\* reopens it or moves its end.
THEOREM ClosedRowsStayFinal == Spec => ClosedRowsFinal
<1>1. Inv /\ [Next]_vars
        => [\A s \in SessionId : rows[s].state = "closed" => rows'[s] = rows[s]]_vars
  <2>1. SUFFICES ASSUME Inv, [Next]_vars, NEW x \in SessionId, rows[x].state = "closed"
                 PROVE  rows'[x] = rows[x]
    OBVIOUS
  <2>2. rows \in [SessionId -> Row]
    BY <2>1 DEF Inv, TypeOK
  <2>3. ASSUME NEW s \in SessionId, NEW now_ms \in Nat, rows' = SessionStart(rows, s, now_ms)
        PROVE  rows'[x] = rows[x]
    BY <2>1, <2>2, <2>3, SessionStartRows
  <2>4. ASSUME NEW s \in SessionId, NEW now_ms \in Nat, rows' = SessionStop(rows, s, now_ms)
        PROVE  rows'[x] = rows[x]
    BY <2>1, <2>2, <2>4, SessionStopRows
  <2> QED BY <2>1, <2>3, <2>4, RowSteps
<1> QED BY <1>1, SpecInv, PTL DEF Spec, ClosedRowsFinal

-----------------------------------------------------------------------------
(***************************************************************************)
(* Resends.                                                                *)
(***************************************************************************)
\* The window of remembered ids is the end of the history of applied ids.
IsWindow(seen, history) ==
    /\ Len(seen) = Least(SeenOpIds, Len(history))
    /\ \A k \in 1 .. Len(seen) : seen[k] = history[(Len(history) - Len(seen)) + k]

\* Two equal ids of the history are more than the window apart.
Spaced(history) ==
    \A i, j \in DOMAIN history : i < j /\ history[i] = history[j] => j - i > SeenOpIds

SeenIsWindow == \A r \in RoomId : IsWindow(rooms[r].seen, landed[r])

\* Recording an id the window does not hold slides the window by one, and
\* the new id is far from its last occurrence.
LEMMA WindowSlides ==
    ASSUME NEW seen \in Seq(OpId), NEW history \in Seq(OpId), NEW id \in OpId,
           IsWindow(seen, history), Spaced(history),
           ~ \E k \in DOMAIN seen : seen[k] = id
    PROVE  IsWindow(SeenInsert(seen, id), Append(history, id)) /\ Spaced(Append(history, id))
<1> DEFINE n == Len(history)
           w == Len(seen)
           H == Append(history, id)
           S == SeenInsert(seen, id)
<1>0. /\ n \in Nat /\ w \in Nat /\ SeenOpIds \in Nat \ {0}
      /\ DOMAIN history = 1 .. n /\ DOMAIN seen = 1 .. w
  BY LenProperties, RoomAssumption
<1>1. w = Least(SeenOpIds, n) /\ \A k \in 1 .. w : seen[k] = history[(n - w) + k]
  BY DEF IsWindow
<1>2. /\ H \in Seq(OpId) /\ Len(H) = n + 1 /\ H[n + 1] = id
      /\ \A k \in 1 .. n : H[k] = history[k]
  BY AppendProperties
<1> HIDE DEF H, n, w
<1>3. DOMAIN H = 1 .. n + 1
  BY <1>2, LenProperties
<1>4. IsWindow(S, H)
  <2>1. CASE w < SeenOpIds
    <3>1. w = n
      BY <1>0, <1>1, <2>1 DEF Least
    <3>2. S = Append(seen, id)
      BY <2>1 DEF SeenInsert, w
    <3>3. /\ Len(S) = w + 1 /\ S[w + 1] = id /\ \A k \in 1 .. w : S[k] = seen[k]
      BY <3>2, AppendProperties DEF w
    <3> HIDE DEF S
    <3>4. Len(S) = Least(SeenOpIds, Len(H))
      BY <1>0, <1>2, <2>1, <3>1, <3>3 DEF Least
    <3>5. ASSUME NEW k \in 1 .. Len(S) PROVE S[k] = H[(Len(H) - Len(S)) + k]
      <4>1. (Len(H) - Len(S)) + k = k /\ (n - w) + k = k
        BY <1>0, <1>2, <3>1, <3>3
      <4>2. CASE k = w + 1
        BY <1>2, <3>1, <3>3, <4>1, <4>2
      <4>3. CASE k # w + 1
        <5>1. k \in 1 .. w /\ k \in 1 .. n
          BY <1>0, <3>1, <3>3, <4>3
        <5> QED BY <1>1, <1>2, <3>3, <4>1, <5>1
      <4> QED BY <4>2, <4>3
    <3> QED BY <3>4, <3>5 DEF IsWindow
  <2>2. CASE ~ (w < SeenOpIds)
    <3>1. w = SeenOpIds /\ SeenOpIds <= n
      BY <1>0, <1>1, <2>2 DEF Least
    <3>2. S = Append(Tail(seen), id)
      BY <2>2 DEF SeenInsert, w
    <3> DEFINE T == Tail(seen)
    <3>3. seen # << >>
      BY <1>0, <3>1, EmptySeq DEF w
    <3>4. T \in Seq(OpId) /\ Len(T) = w - 1 /\ \A k \in 1 .. w - 1 : T[k] = seen[k + 1]
      BY <3>3, HeadTailProperties DEF w
    <3> HIDE DEF T
    <3>5. S = Append(T, id)
      BY <3>2 DEF T
    <3> HIDE DEF S
    <3>6. /\ Len(S) = w /\ S[w] = id /\ \A k \in 1 .. w - 1 : S[k] = T[k]
      <4>1. /\ Len(S) = Len(T) + 1 /\ S[Len(T) + 1] = id
            /\ \A k \in 1 .. Len(T) : S[k] = T[k]
        BY <3>4, <3>5, AppendProperties
      <4> QED BY <1>0, <3>4, <4>1
    <3>7. Len(S) = Least(SeenOpIds, Len(H))
      BY <1>0, <1>2, <3>1, <3>6 DEF Least
    <3>8. ASSUME NEW k \in 1 .. Len(S) PROVE S[k] = H[(Len(H) - Len(S)) + k]
      <4>1. CASE k = w
        <5>1. (Len(H) - Len(S)) + k = n + 1
          BY <1>0, <1>2, <3>6, <4>1
        <5> QED BY <1>2, <3>6, <4>1, <5>1
      <4>2. CASE k # w
        <5>1. k \in 1 .. w - 1 /\ k + 1 \in 1 .. w
          BY <1>0, <3>6, <4>2
        <5>2. (n - w) + (k + 1) \in 1 .. n
          BY <1>0, <3>1, <5>1
        <5>3. (Len(H) - Len(S)) + k = (n - w) + (k + 1)
          BY <1>0, <1>2, <3>6
        <5>4. S[k] = seen[k + 1]
          BY <3>4, <3>6, <5>1
        <5>5. seen[k + 1] = history[(n - w) + (k + 1)]
          BY <1>1, <5>1
        <5> QED BY <1>2, <5>2, <5>3, <5>4, <5>5
      <4> QED BY <4>1, <4>2
    <3> QED BY <3>7, <3>8 DEF IsWindow
  <2> QED BY <2>1, <2>2
<1>5. Spaced(H)
  <2>1. SUFFICES ASSUME NEW i \in DOMAIN H, NEW j \in DOMAIN H, i < j, H[i] = H[j]
                 PROVE  j - i > SeenOpIds
    BY DEF Spaced
  <2>2. i \in 1 .. n
    BY <1>0, <1>3, <2>1
  <2>3. CASE j # n + 1
    <3>1. j \in 1 .. n
      BY <1>0, <1>3, <2>3
    <3> QED BY <1>0, <1>2, <2>1, <2>2, <3>1 DEF Spaced
  <2>4. CASE j = n + 1
    <3>1. history[i] = id
      BY <1>2, <2>1, <2>2, <2>4
    <3>2. SUFFICES ASSUME ~ (j - i > SeenOpIds) PROVE FALSE
      OBVIOUS
    <3>3. i - (n - w) \in 1 .. w /\ (n - w) + (i - (n - w)) = i
      BY <1>0, <1>1, <2>2, <2>4, <3>2 DEF Least
    <3>4. seen[i - (n - w)] = id
      BY <1>1, <3>1, <3>3
    <3> QED BY <1>0, <3>3, <3>4
  <2> QED BY <2>3, <2>4
<1> QED BY <1>4, <1>5 DEF H, S

\* Nothing was seen and nothing happened.
LEMMA EmptyWindow == IsWindow(<< >>, << >>) /\ Spaced(<< >>)
<1>1. Len(<< >>) = 0 /\ DOMAIN << >> = {}
  BY EmptySeq
<1>2. Least(SeenOpIds, 0) = 0
  BY RoomAssumption DEF Least
<1> QED BY <1>1, <1>2 DEF IsWindow, Spaced

\* What Locked does to one room's window and history: nothing, unless the op
\* carries an id the window does not hold and is accepted; then both take it.
LEMMA LockedWindow ==
    ASSUME Inv, NEW h \in Handler, Locked(h), NEW r \in RoomId
    PROVE  \/ rooms'[r].seen = rooms[r].seen /\ landed'[r] = landed[r]
           \/ \E id \in OpId :
                /\ ~ \E k \in DOMAIN rooms[r].seen : rooms[r].seen[k] = id
                /\ rooms'[r].seen = SeenInsert(rooms[r].seen, id)
                /\ landed'[r] = Append(landed[r], id)
<1> DEFINE room == rooms[r]
           op == handler[h].op
           id == handler[h].op_id
           now == handler[h].now_ms
<1>1. handler[h].room \in RoomId /\ id \in OpId \cup {NoOpId}
  BY ApplyingHandler DEF Locked, Inv
<1>2. rooms \in [RoomId -> Room] /\ landed \in [RoomId -> Seq(OpId)]
  BY DEF Inv, TypeOK
<1>3. CASE r # handler[h].room
  <2>1. rooms'[r] = rooms[r] /\ landed'[r] = landed[r]
    BY <1>1, <1>2, <1>3 DEF Locked
  <2> QED BY <2>1
<1>4. CASE r = handler[h].room
  <2>1. rooms'[r] = ApplyWithId(room, op, id, now)
    BY <1>1, <1>2, <1>4 DEF Locked
  <2>2. CASE ~ Accepted(room, op, id)
    <3>1. rooms'[r] = rooms[r]
      BY <2>1, <2>2 DEF ApplyWithId
    <3>2. landed'[r] = landed[r]
      BY <1>4, <2>2 DEF Locked
    <3> QED BY <3>1, <3>2
  <2>3. CASE Accepted(room, op, id)
    <3>1. rooms'[r].seen = IF id = NoOpId THEN room.seen ELSE SeenInsert(room.seen, id)
      BY <2>1, <2>3 DEF ApplyWithId, Applied
    <3>2. landed'[r] = IF id = NoOpId THEN landed[r] ELSE Append(landed[r], id)
      BY <1>2, <1>4, <2>3 DEF Locked
    <3>3. CASE id = NoOpId
      BY <3>1, <3>2, <3>3
    <3>4. CASE id # NoOpId
      <4>1. id \in OpId
        BY <1>1, <3>4
      <4>2. ~ \E k \in DOMAIN room.seen : room.seen[k] = id
        BY <2>3, <3>4 DEF Accepted, Duplicate, Remembers
      <4> HIDE DEF id
      <4> QED BY <3>1, <3>2, <3>4, <4>1, <4>2
    <3> QED BY <3>3, <3>4
  <2> QED BY <2>2, <2>3
<1> QED BY <1>3, <1>4

\* Within a window of SEEN_OP_IDS applied ids a resend is always recognised,
\* whatever other clients' ops land between the two copies: an id is applied
\* twice only when at least SEEN_OP_IDS other ids were applied since.
THEOREM ResendsAreRecognised == Spec => []ResendsRecognised
<1> DEFINE AllSpaced == \A r \in RoomId : Spaced(landed[r])
           WInv == SeenIsWindow /\ AllSpaced
<1>1. Init => WInv
  BY EmptyWindow DEF Init, SeenIsWindow, FreshRoom
<1>2. Inv /\ WInv /\ [Next]_vars => WInv'
  <2>1. SUFFICES ASSUME Inv, WInv, [Next]_vars, NEW r \in RoomId
                 PROVE  IsWindow(rooms'[r].seen, landed'[r]) /\ Spaced(landed'[r])
    BY DEF SeenIsWindow
  <2>2. /\ rooms[r].seen \in Seq(OpId) /\ landed[r] \in Seq(OpId)
        /\ IsWindow(rooms[r].seen, landed[r]) /\ Spaced(landed[r])
    BY <2>1 DEF Inv, TypeOK, Room, SeenIsWindow
  <2>3. ASSUME NEW h \in Handler, Locked(h)
        PROVE  IsWindow(rooms'[r].seen, landed'[r]) /\ Spaced(landed'[r])
    <3>1. CASE rooms'[r].seen = rooms[r].seen /\ landed'[r] = landed[r]
      BY <2>2, <3>1
    <3>2. ASSUME NEW id \in OpId,
                 ~ \E k \in DOMAIN rooms[r].seen : rooms[r].seen[k] = id,
                 rooms'[r].seen = SeenInsert(rooms[r].seen, id),
                 landed'[r] = Append(landed[r], id)
          PROVE  IsWindow(rooms'[r].seen, landed'[r]) /\ Spaced(landed'[r])
      <4>1. /\ IsWindow(SeenInsert(rooms[r].seen, id), Append(landed[r], id))
            /\ Spaced(Append(landed[r], id))
        BY <2>2, <3>2, WindowSlides
      <4> QED BY <3>2, <4>1
    <3> QED BY <2>1, <2>3, <3>1, <3>2, LockedWindow
  <2>4. CASE Restart
    BY <2>4, EmptyWindow DEF Restart, FreshRoom
  <2>5. CASE ~ (\E h \in Handler : Locked(h)) /\ ~ Restart
    <3>1. rooms' = rooms /\ landed' = landed
      BY <2>1, <2>5 DEF Next, vars, Receive, MirrorStart, MirrorStop, HandlerDropped, Tick
    <3> QED BY <2>2, <3>1
  <2> QED BY <2>3, <2>4, <2>5
<1>3. WInv => ResendsRecognised
  BY DEF Spaced, ResendsRecognised
<1> QED BY <1>1, <1>2, <1>3, SpecInv, PTL DEF Spec
=============================================================================
