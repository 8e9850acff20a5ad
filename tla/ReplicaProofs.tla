--------------------------- MODULE ReplicaProofs ---------------------------
(***************************************************************************)
(* The terminal's replica of a room is a past state of it, for any ops,    *)
(* any ring, any number of faults, restarts and late HTTP answers.         *)
(***************************************************************************)
EXTENDS TuiReplica, PlaybackProofs, CommonLemmas

-----------------------------------------------------------------------------
(***************************************************************************)
(* What is known of a state or an event that the gateway sent, and of the  *)
(* replica: accepted is the log of the running gateway, life its number.   *)
(***************************************************************************)
Sent == {state \in SyncState : InBounds(state.playback)}

Event ==
    [type : {"snapshot"}, state : Sent]
      \cup [type : {"applied"}, op : SyncOp, version : Nat, life : Nat]
      \cup [type : {"down", "op_error"}]

\* A state of this life is one the log leads through.
Past(state, accepted, life) ==
    /\ state.life <= life
    /\ state.life = life =>
         /\ state.version <= Len(accepted)
         /\ Alike(state.playback, StatesOf(accepted, ServerNow)[state.version])

\* So is what a snapshot carries, and an event of this life is in the log.
Told(e, accepted, life) ==
    /\ e.type = "snapshot" => Past(e.state, accepted, life)
    /\ e.type = "applied" =>
         /\ e.life <= life
         /\ e.life = life => e.version \in 1 .. Len(accepted) /\ e.op = accepted[e.version]

Renews(e, life) == e.type = "snapshot" /\ e.state.life = life
Outdated(e, life) == e.type = "applied" /\ e.life # life

\* The channel is in order: what an earlier process announced comes before the
\* first snapshot of the running one.
Channel(events, accepted, life) ==
    /\ events \in Seq(Event)
    /\ \A i \in DOMAIN events : Told(events[i], accepted, life)
    /\ \A i, j \in DOMAIN events :
         i < j /\ Renews(events[i], life) => ~ Outdated(events[j], life)

Replies(answers, accepted, life) ==
    answers \in Seq(Sent) /\ \A i \in DOMAIN answers : Past(answers[i], accepted, life)

\* A replica of this life has no event of an earlier one before it.
Follows(state, events, accepted, life) ==
    /\ state \in Sent /\ Past(state, accepted, life)
    /\ state.life = life => \A i \in DOMAIN events : ~ Outdated(events[i], life)

ReplicaInv ==
    /\ HistoryOK(log, ServerNow)
    /\ room \in Room /\ room.version = Len(log) /\ room.playback = StatesOf(log, ServerNow)[Len(log)]
    /\ ops \in Seq(SyncOp) /\ asked \in Nat /\ restarts \in Nat
    /\ Replies(replies, log, restarts)
    /\ Channel(inbox, log, restarts)
    /\ Follows(replica, inbox, log, restarts)

\* The invariant says what the property asks.
LEMMA PastIsEnough == ReplicaInv => ReplicaIsPast
<1> SUFFICES ASSUME ReplicaInv, replica.life = restarts
             PROVE  /\ replica.version <= Len(log)
                    /\ Unstamped(replica.playback) = Unstamped(StateAt[replica.version])
  BY DEF ReplicaIsPast
<1>1. /\ replica.version \in Nat /\ replica.playback \in PlaybackState
      /\ replica.version <= Len(log) /\ Alike(replica.playback, StateAt[replica.version])
  BY DEF ReplicaInv, Follows, Past, Sent, SyncState, StateAt
<1>2. StateAt[replica.version] \in PlaybackState
  <2>1. Len(log) \in Nat
    BY LenProperties DEF ReplicaInv, HistoryOK
  <2> QED BY <1>1, <2>1 DEF ReplicaInv, HistoryOK, StateAt
<1> QED BY <1>1, <1>2, UnstampedAlike

\* What the room would answer now.
LEMMA SnapshotIsPast ==
    ASSUME ReplicaInv
    PROVE  Snapshot \in Sent /\ Past(Snapshot, log, restarts)
<1>1. Len(log) \in Nat
  BY LenProperties DEF ReplicaInv, HistoryOK
<1>2. /\ room.playback = StatesOf(log, ServerNow)[Len(log)] /\ room.version = Len(log)
      /\ StatesOf(log, ServerNow)[Len(log)] \in PlaybackState /\ InBounds(StatesOf(log, ServerNow)[Len(log)])
  BY <1>1 DEF ReplicaInv, HistoryOK
<1> QED BY <1>1, <1>2 DEF Snapshot, ReplicaInv, Sent, SyncState, Past, Alike

\* An event behind the others.
LEMMA ChannelAppends ==
    ASSUME NEW events, NEW accepted, NEW life \in Nat, NEW state, NEW e \in Event,
           Channel(events, accepted, life), Follows(state, events, accepted, life),
           Told(e, accepted, life), ~ Outdated(e, life)
    PROVE  /\ Channel(Append(events, e), accepted, life)
           /\ Follows(state, Append(events, e), accepted, life)
<1> DEFINE more == Append(events, e)
<1>1. /\ events \in Seq(Event) /\ more \in Seq(Event) /\ Len(events) \in Nat
      /\ DOMAIN events = 1 .. Len(events) /\ DOMAIN more = 1 .. Len(events) + 1
      /\ \A i \in 1 .. Len(events) + 1 : more[i] = IF i = Len(events) + 1 THEN e ELSE events[i]
  BY AppendFacts, SeqFacts DEF Channel
<1> HIDE DEF more
<1>2. \A i \in DOMAIN more : more[i] = e \/ (i \in DOMAIN events /\ more[i] = events[i])
  BY <1>1
<1>3. \A i, j \in DOMAIN more : i < j => i \in DOMAIN events /\ more[i] = events[i]
  BY <1>1
<1>4. Channel(more, accepted, life)
  BY <1>1, <1>2, <1>3 DEF Channel
<1>5. Follows(state, more, accepted, life)
  BY <1>2 DEF Follows
<1> QED BY <1>4, <1>5 DEF more

\* The longer log still says of a state, and of an event, what the log said.
LEMMA PastGrows ==
    ASSUME NEW accepted, HistoryOK(accepted, ServerNow), NEW op \in SyncOp,
           ~ Rejected(StatesOf(accepted, ServerNow)[Len(accepted)], op), ServerNow \in Nat, NEW life \in Nat
    PROVE  LET more == Append(accepted, op)
           IN  /\ \A s \in Sent : Past(s, accepted, life) => Past(s, more, life)
               /\ \A e \in Event : Told(e, accepted, life) => Told(e, more, life)
<1> DEFINE more == Append(accepted, op)
<1>1. /\ Len(accepted) \in Nat /\ Len(more) = Len(accepted) + 1
      /\ \A n \in 1 .. Len(accepted) : more[n] = accepted[n]
      /\ \A n \in 0 .. Len(accepted) : StatesOf(more, ServerNow)[n] = StatesOf(accepted, ServerNow)[n]
  BY HistoryGrows
<1> HIDE DEF more
<1>2. ASSUME NEW s \in Sent, Past(s, accepted, life)
      PROVE  Past(s, more, life)
  <2>1. s.version \in Nat
    BY DEF Sent, SyncState
  <2> QED BY <1>1, <1>2, <2>1 DEF Past
<1>3. ASSUME NEW e \in Event, Told(e, accepted, life)
      PROVE  Told(e, more, life)
  <2>1. e.type = "snapshot" => e.state \in Sent
    BY DEF Event
  <2> QED BY <1>1, <1>2, <1>3, <2>1 DEF Told
<1> QED BY <1>2, <1>3 DEF more

-----------------------------------------------------------------------------
(***************************************************************************)
(* The invariant, action by action.                                        *)
(***************************************************************************)
\* What the actions of the gateway's room preserve.
RoomInv ==
    /\ HistoryOK(log, ServerNow)
    /\ room \in Room /\ room.version = Len(log) /\ room.playback = StatesOf(log, ServerNow)[Len(log)]
    /\ restarts \in Nat

ChannelInv ==
    /\ Replies(replies, log, restarts)
    /\ Channel(inbox, log, restarts)
    /\ Follows(replica, inbox, log, restarts)

CountsInv == ops \in Seq(SyncOp) /\ asked \in Nat

LEMMA Parts == ReplicaInv <=> RoomInv /\ ChannelInv /\ CountsInv
BY DEF ReplicaInv, RoomInv, ChannelInv, CountsInv

LEMMA ReplicaInit == Init => ReplicaInv
<1> SUFFICES ASSUME Init
             PROVE  ReplicaInv
  OBVIOUS
<1>1. << >> \in Seq(SyncOp) /\ << >> \in Seq(Event) /\ << >> \in Seq(Sent) /\ << >> \in Seq(OpId)
      /\ Len(<< >>) = 0 /\ DOMAIN << >> = {}
  BY EmptySeq
<1>2. RoomInv
  BY <1>1, EmptyHistory, DefaultSound DEF Init, RoomInv, FreshRoom, Room
<1>3. Replies(replies, log, restarts) /\ Channel(inbox, log, restarts)
  BY <1>1 DEF Init, Replies, Channel
<1>4. replica \in Sent
  BY DefaultSound DEF Init, Sent, SyncState
<1>5. Past(replica, log, restarts)
  BY <1>1, EmptyHistory DEF Init, Past, Alike
<1>6. ChannelInv
  BY <1>1, <1>3, <1>4, <1>5 DEF Init, ChannelInv, Follows
<1> QED BY <1>1, <1>2, <1>6, Parts DEF Init, CountsInv

\* An event behind the others, told by the running gateway.
LEMMA Announces ==
    ASSUME ReplicaInv, NEW e \in Event, Told(e, log, restarts), ~ Outdated(e, restarts),
           inbox' = Append(inbox, e), UNCHANGED <<log, restarts, replica>>
    PROVE  Channel(inbox', log', restarts') /\ Follows(replica', inbox', log', restarts')
BY ChannelAppends DEF ReplicaInv

LEMMA PlainEvents ==
    /\ DownEvent \in Event /\ Told(DownEvent, log, restarts) /\ ~ Outdated(DownEvent, restarts)
    /\ OpErrorEvent \in Event /\ Told(OpErrorEvent, log, restarts) /\ ~ Outdated(OpErrorEvent, restarts)
BY DEF DownEvent, OpErrorEvent, Event, Told, Outdated

LEMMA SnapshotEvents ==
    ASSUME NEW state \in Sent, Past(state, log, restarts)
    PROVE  /\ SnapshotEvent(state) \in Event /\ Told(SnapshotEvent(state), log, restarts)
           /\ ~ Outdated(SnapshotEvent(state), restarts)
BY DEF SnapshotEvent, Event, Told, Outdated

\* Steps that leave the room alone and announce nothing.
LEMMA QuietSteps ==
    ASSUME ReplicaInv,
           \/ \E op \in Gestures : Gesture(op)
           \/ SnapshotRead \/ FrameUnparsed \/ Lagged \/ LinkStalls \/ UNCHANGED vars
    PROVE  ReplicaInv'
<1>1. /\ UNCHANGED <<room, log, inbox, replica, restarts>>
      /\ ops' \in Seq(SyncOp) /\ asked' \in Nat /\ Replies(replies', log, restarts)
  <2>1. CASE \E op \in Gestures : Gesture(op)
    <3>1. PICK op \in SyncOp : Gesture(op)
      BY <2>1, TuiAssumption
    <3>2. ops' \in Seq(SyncOp)
      BY <3>1, AppendProperties DEF Gesture, ReplicaInv
    <3> QED BY <3>1, <3>2 DEF Gesture, ReplicaInv, gatewayRoom, session, http, reducer
  <2>2. CASE SnapshotRead
    <3> DEFINE more == Append(replies, Snapshot)
    <3>1. /\ replies \in Seq(Sent) /\ DOMAIN more = 1 .. Len(replies) + 1 /\ more \in Seq(Sent)
          /\ \A i \in 1 .. Len(replies) + 1 :
               more[i] = IF i = Len(replies) + 1 THEN Snapshot ELSE replies[i]
          /\ Len(replies) \in Nat /\ DOMAIN replies = 1 .. Len(replies)
      <4>1. replies \in Seq(Sent) /\ Snapshot \in Sent
        BY SnapshotIsPast DEF ReplicaInv, Replies
      <4> QED BY <4>1, AppendFacts, SeqFacts
    <3> HIDE DEF more
    <3>2. \A i \in DOMAIN more : more[i] = Snapshot \/ (i \in DOMAIN replies /\ more[i] = replies[i])
      BY <3>1
    <3>3. Replies(more, log, restarts)
      BY <3>1, <3>2, SnapshotIsPast DEF ReplicaInv, Replies
    <3> QED BY <2>2, <3>3 DEF SnapshotRead, ReplicaInv, gatewayRoom, session, reducer, budgets, more
  <2>3. CASE FrameUnparsed \/ Lagged \/ LinkStalls \/ UNCHANGED vars
    BY <2>3 DEF FrameUnparsed, Lagged, LinkStalls, vars, ReplicaInv, gatewayRoom, session, http,
               reducer, budgets
  <2> QED BY <2>1, <2>2, <2>3
<1> QED BY <1>1 DEF ReplicaInv

\* An answer leaves the bag of replies for the channel.
LEMMA AnswerSteps ==
    ASSUME ReplicaInv, ResyncAnswered
    PROVE  ReplicaInv'
<1>1. PICK i \in DOMAIN replies :
        inbox' = Append(inbox, SnapshotEvent(replies[i])) /\ replies' = RemoveAt(replies, i)
  BY DEF ResyncAnswered
<1>2. /\ UNCHANGED <<room, log, replica, restarts, ops, asked>>
  BY DEF ResyncAnswered, gatewayRoom, session, reducer, budgets
<1>3. /\ replies \in Seq(Sent) /\ i \in 1 .. Len(replies) /\ Len(replies) \in Nat
      /\ DOMAIN replies = 1 .. Len(replies)
      /\ replies[i] \in Sent /\ Past(replies[i], log, restarts)
  BY SeqFacts DEF ReplicaInv, Replies
<1>4. Channel(inbox', log', restarts') /\ Follows(replica', inbox', log', restarts')
  BY <1>1, <1>2, <1>3, SnapshotEvents, Announces
<1>5. Replies(replies', log', restarts')
  <2> DEFINE fewer == WithoutIndex(replies, i)
  <2>1. /\ fewer \in Seq(Sent) /\ Len(fewer) = Len(replies) - 1
        /\ \A k \in 1 .. Len(replies) - 1 : fewer[k] = IF k < i THEN replies[k] ELSE replies[k + 1]
    BY <1>3, WithoutIndexProperties
  <2>2. DOMAIN fewer = 1 .. Len(replies) - 1
    BY <2>1, SeqFacts
  <2>3. replies' = fewer
    BY <1>1 DEF WithoutIndex, RemoveAt
  <2> HIDE DEF fewer
  <2>4. ASSUME NEW k \in DOMAIN fewer
        PROVE  \E j \in DOMAIN replies : fewer[k] = replies[j]
    <3>1. CASE k < i
      BY <1>3, <2>1, <2>2, <3>1
    <3>2. CASE ~ (k < i)
      <4>1. k + 1 \in DOMAIN replies /\ fewer[k] = replies[k + 1]
        BY <1>3, <2>1, <2>2, <3>2
      <4> QED BY <4>1
    <3> QED BY <3>1, <3>2
  <2> QED BY <1>2, <2>1, <2>3, <2>4 DEF ReplicaInv, Replies
<1> QED BY <1>2, <1>4, <1>5 DEF ReplicaInv

\* Steps that announce one event and leave the room alone.
LEMMA AnnouncingSteps ==
    ASSUME ReplicaInv,
           ResyncFailed \/ Connects \/ ConnectFails \/ EventArrives \/ LaggedSnapshot \/ SessionEnds
    PROVE  ReplicaInv'
<1>1. /\ UNCHANGED <<room, log, replica, restarts, ops, replies>> /\ asked' \in Nat
      /\ \E e \in Event : /\ Told(e, log, restarts) /\ ~ Outdated(e, restarts)
                          /\ inbox' = Append(inbox, e)
  <2>1. CASE ResyncFailed
    BY <2>1, PlainEvents DEF ResyncFailed, ReplicaInv, gatewayRoom, session, reducer
  <2>2. CASE Connects
    BY <2>2, SnapshotIsPast, SnapshotEvents DEF Connects, ReplicaInv, gatewayRoom, http, reducer, budgets
  <2>3. CASE ConnectFails
    BY <2>3, PlainEvents DEF ConnectFails, ReplicaInv, gatewayRoom, session, http, reducer
  <2>4. CASE EventArrives
    <3>1. next \in 1 .. Len(log) /\ log \in Seq(SyncOp) /\ DOMAIN log = 1 .. Len(log)
      <4>1. log \in Seq(SyncOp) /\ Len(log) \in Nat
        BY LenProperties DEF ReplicaInv, HistoryOK
      <4>2. OldestRetained \in Nat \ {0}
        BY <4>1, TuiAssumption DEF OldestRetained
      <4> QED BY <2>4, <4>1, <4>2, LenProperties DEF EventArrives
    <3>2. log[next] \in SyncOp
      BY <3>1, SeqFacts
    <3>3. /\ AppliedEvent(next) \in Event /\ Told(AppliedEvent(next), log, restarts)
          /\ ~ Outdated(AppliedEvent(next), restarts)
      BY <3>1, <3>2 DEF AppliedEvent, Event, Told, Outdated, ReplicaInv
    <3> QED BY <2>4, <3>3 DEF EventArrives, ReplicaInv, gatewayRoom, http, reducer, budgets
  <2>5. CASE LaggedSnapshot
    BY <2>5, SnapshotIsPast, SnapshotEvents DEF LaggedSnapshot, ReplicaInv, gatewayRoom, http, reducer,
                                              budgets
  <2>6. CASE SessionEnds
    BY <2>6, PlainEvents DEF SessionEnds, ReplicaInv, gatewayRoom, http, reducer, budgets
  <2> QED BY <2>1, <2>2, <2>3, <2>4, <2>5, <2>6
<1>2. Channel(inbox', log', restarts') /\ Follows(replica', inbox', log', restarts')
  BY <1>1, Announces
<1> QED BY <1>1, <1>2 DEF ReplicaInv

\* An op reaches the room, from this client or another.
LEMMA RoomGrows ==
    ASSUME ReplicaInv, NEW op \in SyncOp, Broadcast(op), UNCHANGED restarts
    PROVE  /\ RoomInv'
           /\ \A s \in Sent : Past(s, log, restarts) => Past(s, log', restarts')
           /\ \A e \in Event : Told(e, log, restarts) => Told(e, log', restarts')
<1>1. Accepted(room, op, NoOpId) <=> ~ Rejected(room.playback, op)
  BY DEF Accepted, Duplicate
<1>2. CASE ~ Accepted(room, op, NoOpId)
  BY <1>2 DEF Broadcast, ApplyWithId, ReplicaInv, RoomInv
<1>3. CASE Accepted(room, op, NoOpId)
  <2>1. /\ HistoryOK(log, ServerNow) /\ room \in Room /\ room.version = Len(log)
        /\ room.playback = StatesOf(log, ServerNow)[Len(log)] /\ restarts \in Nat /\ ServerNow \in Nat
    BY TuiAssumption DEF ReplicaInv
  <2>2. ~ Rejected(StatesOf(log, ServerNow)[Len(log)], op)
    BY <1>1, <1>3, <2>1
  <2>3. /\ log' = Append(log, op) /\ room' = Applied(room, op, NoOpId, ServerNow)
    BY <1>3 DEF Broadcast, ApplyWithId
  <2>4. /\ HistoryOK(Append(log, op), ServerNow) /\ Len(log) \in Nat /\ Len(Append(log, op)) = Len(log) + 1
        /\ StatesOf(Append(log, op), ServerNow)[Len(log) + 1] = Apply(StatesOf(log, ServerNow)[Len(log)], op, ServerNow)
    BY <2>1, <2>2, HistoryGrows
  <2> DEFINE more == Append(log, op)
  <2>5. room'.version = Len(more) /\ room'.playback = StatesOf(more, ServerNow)[Len(more)] /\ room'.seen = room.seen
    BY <2>1, <2>3, <2>4 DEF Applied
  <2>6. room' = [playback |-> room'.playback, version |-> room'.version, seen |-> room'.seen]
    BY <2>3 DEF Applied
  <2>7. StatesOf(more, ServerNow)[Len(more)] \in PlaybackState /\ Len(more) \in Nat
    BY <2>4 DEF HistoryOK
  <2>8. \A s \in Sent : Past(s, log, restarts) => Past(s, more, restarts)
    BY <2>1, <2>2, PastGrows
  <2>9. \A e \in Event : Told(e, log, restarts) => Told(e, more, restarts)
    BY <2>1, <2>2, PastGrows
  <2> HIDE DEF more
  <2>10. room' \in Room
    BY <2>1, <2>5, <2>6, <2>7 DEF Room
  <2>11. log' = more
    BY <2>3 DEF more
  <2>12. HistoryOK(more, ServerNow)
    BY <2>4 DEF more
  <2> QED BY <2>1, <2>5, <2>8, <2>9, <2>10, <2>11, <2>12 DEF RoomInv
<1> QED BY <1>2, <1>3

\* What was known of the channel and the replica is known with the longer log.
LEMMA ChannelKeeps ==
    ASSUME ReplicaInv, UNCHANGED <<restarts, replica, replies>>,
           \A s \in Sent : Past(s, log, restarts) => Past(s, log', restarts'),
           \A e \in Event : Told(e, log, restarts) => Told(e, log', restarts')
    PROVE  /\ Replies(replies', log', restarts')
           /\ Channel(inbox, log', restarts')
           /\ Follows(replica', inbox, log', restarts')
<1>1. /\ replies \in Seq(Sent) /\ inbox \in Seq(Event) /\ replica \in Sent
      /\ \A i \in DOMAIN replies : replies[i] \in Sent
      /\ \A i \in DOMAIN inbox : inbox[i] \in Event
  BY SeqFacts DEF ReplicaInv, Replies, Channel, Follows
<1>2. Replies(replies', log', restarts')
  BY <1>1 DEF ReplicaInv, Replies
<1>3. Channel(inbox, log', restarts')
  BY <1>1 DEF ReplicaInv, Channel
<1>4. Follows(replica', inbox, log', restarts')
  BY <1>1 DEF ReplicaInv, Follows
<1> QED BY <1>2, <1>3, <1>4

LEMMA RoomSteps ==
    ASSUME ReplicaInv, TaskTakesOp \/ \E op \in OtherOps : OtherDevice(op)
    PROVE  ReplicaInv'
<1>1. CASE \E op \in OtherOps : OtherDevice(op)
  <2>1. PICK op \in SyncOp : OtherDevice(op)
    BY <1>1, TuiAssumption
  <2>2. Broadcast(op) /\ UNCHANGED <<restarts, replica, replies, inbox, ops, asked>>
    BY <2>1 DEF OtherDevice, session, http, reducer
  <2>3. RoomInv' /\ ChannelInv'
    BY <2>2, RoomGrows, ChannelKeeps DEF ChannelInv
  <2> QED BY <2>2, <2>3 DEF ReplicaInv, RoomInv, ChannelInv
<1>2. CASE TaskTakesOp
  <2>1. ops # << >> /\ ops \in Seq(SyncOp) /\ ops' = Tail(ops)
    BY <1>2 DEF TaskTakesOp, ReplicaInv
  <2>2. Head(ops) \in SyncOp /\ ops' \in Seq(SyncOp)
    BY <2>1, HeadTailProperties
  <2>3. UNCHANGED <<restarts, replica, replies, asked>>
    BY <1>2 DEF TaskTakesOp, session, http, reducer, budgets
  <2>4. CASE link # "up"
    BY <1>2, <2>2, <2>3, <2>4 DEF TaskTakesOp, gatewayRoom, ReplicaInv
  <2>5. CASE link = "up"
    <3>1. PICK op \in SyncOp : op = Head(ops)
      BY <2>2
    <3>2. Broadcast(op)
      BY <1>2, <2>5, <3>1 DEF TaskTakesOp
    <3>3. RoomInv' /\ Replies(replies', log', restarts')
          /\ Channel(inbox, log', restarts') /\ Follows(replica', inbox, log', restarts')
      BY <2>3, <3>2, RoomGrows, ChannelKeeps
    <3>4. inbox' = inbox \/ inbox' = Append(inbox, OpErrorEvent)
      BY <1>2, <2>5 DEF TaskTakesOp
    <3>5. /\ OpErrorEvent \in Event /\ Told(OpErrorEvent, log', restarts')
          /\ ~ Outdated(OpErrorEvent, restarts')
      BY DEF OpErrorEvent, Event, Told, Outdated
    <3>6. restarts' \in Nat
      BY <3>3 DEF RoomInv
    <3>7. Channel(inbox', log', restarts') /\ Follows(replica', inbox', log', restarts')
      BY <3>3, <3>4, <3>5, <3>6, ChannelAppends
    <3> QED BY <2>2, <2>3, <3>3, <3>7 DEF ReplicaInv, RoomInv
  <2> QED BY <2>4, <2>5
<1> QED BY <1>1, <1>2

\* The channel without its first event.
LEMMA ChannelDrains ==
    ASSUME NEW events, NEW accepted, NEW life, Channel(events, accepted, life), events # << >>
    PROVE  /\ Channel(Tail(events), accepted, life)
           /\ Head(events) \in Event /\ Told(Head(events), accepted, life)
           /\ \A j \in DOMAIN Tail(events) :
                /\ \E i \in DOMAIN events : Tail(events)[j] = events[i]
                /\ Renews(Head(events), life) => ~ Outdated(Tail(events)[j], life)
<1> DEFINE rest == Tail(events)
<1>1. /\ events \in Seq(Event) /\ rest \in Seq(Event) /\ Head(events) \in Event
      /\ Len(events) \in Nat \ {0} /\ Len(rest) = Len(events) - 1
      /\ DOMAIN events = 1 .. Len(events) /\ DOMAIN rest = 1 .. Len(events) - 1
      /\ \A i \in 1 .. Len(rest) : rest[i] = events[i + 1]
  <2>1. events \in Seq(Event)
    BY DEF Channel
  <2>2. Len(events) \in Nat \ {0}
    BY <2>1, LenProperties, EmptySeq
  <2>3. Head(events) \in Event /\ rest \in Seq(Event) /\ Len(rest) = Len(events) - 1
        /\ \A i \in 1 .. Len(rest) : rest[i] = events[i + 1]
    BY <2>1, HeadTailProperties
  <2> HIDE DEF rest
  <2> QED BY <2>1, <2>2, <2>3, LenProperties
<1>2. Head(events) = events[1] /\ 1 \in DOMAIN events
  BY <1>1
<1> HIDE DEF rest
<1>3. \A j \in DOMAIN rest : j + 1 \in DOMAIN events /\ 1 < j + 1 /\ rest[j] = events[j + 1]
  BY <1>1
<1>4. Channel(rest, accepted, life)
  <2>1. \A i \in DOMAIN rest : Told(rest[i], accepted, life)
    BY <1>3 DEF Channel
  <2>2. ASSUME NEW i \in DOMAIN rest, NEW j \in DOMAIN rest, i < j, Renews(rest[i], life)
        PROVE  ~ Outdated(rest[j], life)
    <3>1. i + 1 \in DOMAIN events /\ j + 1 \in DOMAIN events /\ i + 1 < j + 1
      BY <1>1, <1>3, <2>2
    <3> QED BY <1>3, <2>2, <3>1 DEF Channel
  <2> QED BY <1>1, <2>1, <2>2 DEF Channel
<1>5. Told(Head(events), accepted, life)
  BY <1>2 DEF Channel
<1>6. ASSUME NEW j \in DOMAIN rest, Renews(Head(events), life)
      PROVE  ~ Outdated(rest[j], life)
  BY <1>2, <1>3, <1>6 DEF Channel
<1> QED BY <1>1, <1>3, <1>4, <1>5, <1>6 DEF rest

\* Folding the next event of its own life keeps a replica in the past.
LEMMA FoldIsPast ==
    ASSUME NEW state \in Sent, NEW e \in Event, NEW accepted, HistoryOK(accepted, ServerNow), NEW life \in Nat,
           Past(state, accepted, life), Told(e, accepted, life), e.type = "applied",
           e.version = state.version + 1, ~ Rejected(state.playback, e.op),
           state.life = life => ~ Outdated(e, life),
           ServerNow \in Nat, ReplicaNow \in Nat
    PROVE  LET next_ == [state EXCEPT !.playback = Apply(@, e.op, ReplicaNow),
                                      !.version  = e.version]
           IN  next_ \in Sent /\ Past(next_, accepted, life) /\ next_.life = state.life
<1> DEFINE to == [state EXCEPT !.playback = Apply(@, e.op, ReplicaNow), !.version = e.version]
<1>1. /\ state.playback \in PlaybackState /\ state.version \in Nat /\ state.life \in Nat
      /\ InBounds(state.playback) /\ e.op \in SyncOp /\ e.version \in Nat /\ e.life \in Nat
  BY DEF Sent, SyncState, Event
<1>2. /\ to.playback = Apply(state.playback, e.op, ReplicaNow) /\ to.version = e.version
      /\ to.life = state.life
  BY DEF Sent, SyncState
<1>3. to.playback \in PlaybackState /\ InBounds(to.playback)
  BY <1>1, <1>2, ApplySound
<1>4. to \in Sent
  <2>1. to \in SyncState
    BY <1>1, <1>2, <1>3 DEF Sent, SyncState
  <2> HIDE DEF to
  <2> QED BY <1>3, <2>1 DEF Sent
<1> HIDE DEF to
<1>5. ASSUME state.life = life
      PROVE  to.version <= Len(accepted) /\ Alike(to.playback, StatesOf(accepted, ServerNow)[to.version])
  <2>1. e.version \in 1 .. Len(accepted) /\ e.op = accepted[e.version]
    BY <1>5 DEF Outdated, Told
  <2>2. Alike(state.playback, StatesOf(accepted, ServerNow)[state.version])
    BY <1>5 DEF Past
  <2>3. /\ Len(accepted) \in Nat /\ state.version \in 0 .. Len(accepted)
        /\ e.version - 1 = state.version /\ e.version # 0 /\ e.version \in 0 .. Len(accepted)
    BY <1>1, <2>1, LenProperties DEF HistoryOK
  <2>4. StatesOf(accepted, ServerNow)[e.version] = Apply(StatesOf(accepted, ServerNow)[state.version], e.op, ServerNow)
    <3>1. Solves(StatesOf(accepted, ServerNow), accepted, ServerNow)
      BY HistoryExists DEF HistoryOK
    <3>2. StatesOf(accepted, ServerNow)[e.version] = StateStep(StatesOf(accepted, ServerNow), accepted, e.version, ServerNow)
      BY <2>3, <3>1, SolvesAt
    <3> QED BY <2>1, <2>3, <3>2 DEF StateStep
  <2>5. StatesOf(accepted, ServerNow)[state.version] \in PlaybackState
    BY <2>3 DEF HistoryOK
  <2>6. Alike(Apply(state.playback, e.op, ReplicaNow),
              Apply(StatesOf(accepted, ServerNow)[state.version], e.op, ServerNow))
    BY <1>1, <2>2, <2>5, ApplyAlike
  <2> QED BY <1>2, <2>1, <2>3, <2>4, <2>6
<1>6. Past(to, accepted, life)
  BY <1>2, <1>5 DEF Past
<1> QED BY <1>2, <1>4, <1>6 DEF to

\* The reducer takes an event.
LEMMA HandleStep ==
    ASSUME ReplicaInv, Handle
    PROVE  ReplicaInv'
<1> DEFINE msg == Head(inbox)
<1>1. /\ inbox # << >> /\ inbox' = Tail(inbox)
      /\ UNCHANGED <<room, log, ops, replies, restarts>>
      /\ HandleApplied(msg) \/ AdoptSnapshot(msg) \/ GoOffline(msg) \/ ShowOpError(msg)
  BY DEF Handle, gatewayRoom, session, budgets
<1>2. /\ Channel(Tail(inbox), log, restarts) /\ msg \in Event /\ Told(msg, log, restarts)
      /\ \A j \in DOMAIN Tail(inbox) :
           /\ \E i \in DOMAIN inbox : Tail(inbox)[j] = inbox[i]
           /\ Renews(msg, restarts) => ~ Outdated(Tail(inbox)[j], restarts)
  BY <1>1, ChannelDrains DEF ReplicaInv
<1>3. replica.life = restarts => ~ Outdated(msg, restarts)
  <2>1. inbox \in Seq(Event)
    BY DEF ReplicaInv, Channel
  <2>2. 1 \in DOMAIN inbox /\ msg = inbox[1]
    BY <1>1, <2>1, LenProperties, EmptySeq
  <2> QED BY <2>2 DEF ReplicaInv, Follows
<1> HIDE DEF msg
<1>4. /\ asked' \in Nat /\ replica' \in Sent /\ Past(replica', log, restarts)
      /\ \/ replica'.life = replica.life
         \/ replica'.life = restarts => Renews(msg, restarts)
  <2>1. CASE UNCHANGED <<replica, asked>>
    BY <2>1 DEF ReplicaInv, Follows
  <2>2. CASE HandleApplied(msg)
    <3>1. CASE NeedsResync(msg)
      BY <2>2, <3>1 DEF HandleApplied, ReplicaInv, Follows
    <3>2. CASE ~ NeedsResync(msg) /\ Stale(msg)
      BY <2>1, <2>2, <3>2 DEF HandleApplied
    <3>3. CASE ~ NeedsResync(msg) /\ ~ Stale(msg)
      <4>1. /\ UNCHANGED asked
            /\ replica' = [replica EXCEPT !.playback = Apply(@, msg.op, ReplicaNow),
                                          !.version  = msg.version]
        BY <2>2, <3>3 DEF HandleApplied
      <4>2. msg.type = "applied" /\ ~ Rejected(replica.playback, msg.op)
        BY <2>2, <3>3 DEF HandleApplied, NeedsResync, Diverged
      <4>3. msg.version = replica.version + 1
        <5>1. msg.version \in Nat /\ replica.version \in Nat
          BY <1>2, <4>2 DEF Event, ReplicaInv, Follows, Sent, SyncState
        <5> QED BY <3>3, <5>1 DEF NeedsResync, Gap, Stale
      <4>4. /\ replica \in Sent /\ Past(replica, log, restarts) /\ HistoryOK(log, ServerNow) /\ restarts \in Nat
            /\ ServerNow \in Nat /\ ReplicaNow \in Nat /\ asked \in Nat
        BY TuiAssumption DEF ReplicaInv, Follows
      <4>5. replica' \in Sent /\ Past(replica', log, restarts) /\ replica'.life = replica.life
        BY <1>2, <1>3, <4>1, <4>2, <4>3, <4>4, FoldIsPast
      <4> QED BY <4>1, <4>4, <4>5
    <3> QED BY <3>1, <3>2, <3>3
  <2>3. CASE AdoptSnapshot(msg)
    <3>1. replica' = msg.state /\ msg.type = "snapshot" /\ UNCHANGED asked
      BY <2>3 DEF AdoptSnapshot
    <3>2. msg.state \in Sent /\ Past(msg.state, log, restarts)
      BY <1>2, <3>1 DEF Event, Told
    <3> QED BY <3>1, <3>2 DEF ReplicaInv, Renews
  <2>4. CASE GoOffline(msg) \/ ShowOpError(msg)
    BY <2>1, <2>4 DEF GoOffline, ShowOpError
  <2> QED BY <1>1, <2>2, <2>3, <2>4
<1>5. Follows(replica', inbox', log', restarts')
  BY <1>1, <1>2, <1>4 DEF Follows, ReplicaInv
<1> QED BY <1>1, <1>2, <1>4, <1>5 DEF ReplicaInv

\* The gateway starts again: whatever is under way is of an earlier life.
LEMMA RestartStep ==
    ASSUME ReplicaInv, GatewayRestarts
    PROVE  ReplicaInv'
<1> DEFINE downs == [i \in 1 .. asked |-> DownEvent]
<1>1. /\ restarts' = restarts + 1 /\ restarts \in Nat /\ room' = FreshRoom /\ log' = << >>
      /\ inbox' = inbox \o downs /\ asked' = 0 /\ asked \in Nat
      /\ UNCHANGED <<ops, replies, replica>>
  BY DEF GatewayRestarts, ReplicaInv, reducer
<1>2. RoomInv'
  <2>1. << >> \in Seq(OpId) /\ Len(<< >>) = 0
    BY EmptySeq
  <2> QED BY <1>1, <2>1, EmptyHistory, DefaultSound DEF RoomInv, FreshRoom, Room
<1>3. ASSUME NEW state \in Sent, Past(state, log, restarts)
      PROVE  Past(state, log', restarts') /\ state.life # restarts'
  BY <1>1, <1>3 DEF Past, Sent, SyncState
<1>4. ASSUME NEW e \in Event, Told(e, log, restarts)
      PROVE  Told(e, log', restarts') /\ ~ Renews(e, restarts')
  <2>1. e.type = "snapshot" => e.state \in Sent
    BY DEF Event
  <2>2. e.type = "applied" => e.life \in Nat
    BY DEF Event
  <2> QED BY <1>1, <1>3, <1>4, <2>1, <2>2 DEF Told, Renews
<1>5. Replies(replies', log', restarts')
  BY <1>1, <1>3, SeqFacts DEF ReplicaInv, Replies
<1>6. /\ inbox' \in Seq(Event)
      /\ \A i \in DOMAIN inbox' : inbox'[i] \in Event /\ Told(inbox'[i], log, restarts)
  <2>1. downs \in Seq(Event) /\ Len(downs) = asked /\ \A i \in 1 .. asked : downs[i] = DownEvent
    <3>1. downs \in [1 .. asked -> Event]
      BY PlainEvents
    <3> QED BY <1>1, <3>1, SeqDef, LenProperties
  <2>2. inbox \in Seq(Event) /\ Len(inbox) \in Nat /\ DOMAIN inbox = 1 .. Len(inbox)
        /\ \A i \in 1 .. Len(inbox) : inbox[i] \in Event /\ Told(inbox[i], log, restarts)
    BY SeqFacts DEF ReplicaInv, Channel
  <2> DEFINE all == inbox \o downs
  <2>3. /\ all \in Seq(Event) /\ Len(all) = Len(inbox) + asked
        /\ \A i \in 1 .. Len(inbox) + asked :
             all[i] = IF i <= Len(inbox) THEN inbox[i] ELSE downs[i - Len(inbox)]
    <3> HIDE DEF downs
    <3> QED BY <2>1, <2>2, ConcatProperties
  <2>4. DOMAIN all = 1 .. Len(inbox) + asked
    BY <2>3, LenProperties
  <2> HIDE DEF all, downs
  <2>5. ASSUME NEW i \in DOMAIN all
        PROVE  all[i] \in Event /\ Told(all[i], log, restarts)
    <3>1. CASE i <= Len(inbox)
      BY <2>2, <2>3, <2>4, <3>1
    <3>2. CASE ~ (i <= Len(inbox))
      <4>1. i - Len(inbox) \in 1 .. asked
        BY <1>1, <2>2, <2>4, <3>2
      <4> QED BY <2>1, <2>3, <2>4, <3>2, <4>1, PlainEvents
    <3> QED BY <3>1, <3>2
  <2> QED BY <1>1, <2>3, <2>5 DEF all
<1>7. Channel(inbox', log', restarts')
  BY <1>4, <1>6 DEF Channel
<1>8. Follows(replica', inbox', log', restarts')
  BY <1>1, <1>3 DEF Follows, ReplicaInv
<1> QED BY <1>1, <1>2, <1>5, <1>7, <1>8 DEF ReplicaInv, RoomInv

LEMMA ReplicaNext == ReplicaInv /\ [Next]_vars => ReplicaInv'
BY QuietSteps, AnswerSteps, AnnouncingSteps, RoomSteps, HandleStep, RestartStep DEF Next

\* update/room.rs, sync_ws.rs and ws.rs: whatever the link, the ring, the HTTP
\* effects and the restarts of the gateway do, a replica that was adopted from
\* the running gateway is a state that gateway's room was in, at the version
\* the replica names.
THEOREM ReplicaIsAlwaysPast == Spec => []ReplicaIsPast
<1>1. Spec => []ReplicaInv
  BY ReplicaInit, ReplicaNext, PTL DEF Spec
<1> QED BY <1>1, PastIsEnough, PTL
=============================================================================
