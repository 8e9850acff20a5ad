------------------------------ MODULE Playback ------------------------------
(***************************************************************************)
(* The pure playback state machine of crate music-sync: the shared queue,  *)
(* its cursor, and the function that applies one sync op to them.  The     *)
(* gateway, the web client's mirror and the TUI's replica all run this     *)
(* function, so it is a module of operators that the other modules share.  *)
(*                                                                         *)
(* Indices.  The code's cursor is an Option<usize> counting from 0.  Here  *)
(* an index counts from 1, as TLA+ sequences do, and 0 stands for None.    *)
(***************************************************************************)
EXTENDS Integers, Sequences, FiniteSets, Selections

CONSTANTS
    ItemId,     \* client-minted ids of queue items
    TrackId,    \* catalogue ids
    SessionId,  \* client-minted recommend-session ids
    NoAnchor    \* the absent session anchor

QueueItem == [item_id : ItemId, track_id : TrackId]

SessionAnchor == [session_id : SessionId, track_id : TrackId, started_ms : Nat]

ASSUME NoAnchorAssumption == NoAnchor \notin SessionAnchor

PlaybackState ==
    [ items             : Seq(QueueItem),
      now_playing_index : Nat,
      position_ms       : Nat,
      is_playing        : BOOLEAN,
      session_anchor    : SessionAnchor \cup {NoAnchor} ]

\* PlaybackState::default(), what a room holds before its first op.
DefaultPlayback ==
    [ items             |-> << >>,
      now_playing_index |-> 0,
      position_ms       |-> 0,
      is_playing        |-> FALSE,
      session_anchor    |-> NoAnchor ]

-----------------------------------------------------------------------------
(***************************************************************************)
(* The ops a client may submit.  An op is well typed, nothing more: an     *)
(* index may lie outside the queue, a list may repeat an id.               *)
(***************************************************************************)
PushOp            == [type : {"push"}, item : QueueItem]
RemoveOp          == [type : {"remove"}, item_id : ItemId]
ReorderOp         == [type : {"reorder"}, item_id : ItemId, new_index : Nat \ {0}]
SetNowPlayingOp   == [type : {"set_now_playing"}, index : Nat]
SetPositionOp     == [type : {"set_position"}, position_ms : Nat]
SetPlayingOp      == [type : {"set_playing"}, is_playing : BOOLEAN]
ClearOp           == [type : {"clear"}]
StartSessionOp    == [type : {"start_session"}, items : Seq(QueueItem),
                      anchor_index : Nat \ {0}, session_id : SessionId]
ReplaceUpcomingOp == [type : {"replace_upcoming"}, items : Seq(QueueItem)]
StopSessionOp     == [type : {"stop_session"}]

SyncOp ==
    PushOp \cup RemoveOp \cup ReorderOp \cup SetNowPlayingOp \cup SetPositionOp
      \cup SetPlayingOp \cup ClearOp \cup StartSessionOp \cup ReplaceUpcomingOp
      \cup StopSessionOp

-----------------------------------------------------------------------------
(***************************************************************************)
(* Helpers on item lists.                                                  *)
(***************************************************************************)
Holds(items, id) == \E i \in DOMAIN items : items[i].item_id = id

\* Queue::position_of: the first index that carries id, 0 when there is none.
PositionOf(items, id) ==
    IF Holds(items, id)
    THEN CHOOSE i \in DOMAIN items :
           /\ items[i].item_id = id
           /\ \A j \in 1 .. (i - 1) : items[j].item_id # id
    ELSE 0

WithoutIndex(s, i) == SubSeq(s, 1, i - 1) \o SubSeq(s, i + 1, Len(s))

WithInserted(s, i, e) == SubSeq(s, 1, i - 1) \o <<e>> \o SubSeq(s, i, Len(s))

Least(a, b) == IF a <= b THEN a ELSE b

\* No id occurs at two places: remove and reorder then name one item.
DistinctIds(items) ==
    \A i, j \in DOMAIN items : items[i].item_id = items[j].item_id => i = j

\* The places of items whose id is new: neither kept nor met earlier in items.
FreshIndices(kept, items) ==
    {k \in DOMAIN items :
        /\ ~ Holds(kept, items[k].item_id)
        /\ \A j \in 1 .. (k - 1) : items[j].item_id # items[k].item_id}

FreshItems(kept, items) == AtPlaces(items, FreshIndices(kept, items))

-----------------------------------------------------------------------------
(***************************************************************************)
(* One operator per arm of SyncState::apply.                               *)
(***************************************************************************)
\* Mutant: a retried push appends the item again.
PushTwice(p, item) == [p EXCEPT !.items = Append(@, item)]

ApplyPush(p, item) ==
    IF Holds(p.items, item.item_id) THEN p
    ELSE [p EXCEPT !.items = Append(@, item)]

\* Mutant: the comparison with the length is off by one.
NormalizeLate(p) ==
    IF p.now_playing_index > Len(p.items) + 1
    THEN [p EXCEPT !.now_playing_index = 0]
    ELSE p

\* A cursor past the end of a shortened queue is dropped.
NormalizeCursor(p) ==
    IF p.now_playing_index > Len(p.items)
    THEN [p EXCEPT !.now_playing_index = 0]
    ELSE p

\* Mutant: the cursor is shifted without looking where the item was.
RemoveShifting(p, id) ==
    LET pos == PositionOf(p.items, id)
    IN  IF pos = 0 THEN p
        ELSE NormalizeCursor([p EXCEPT !.items = WithoutIndex(@, pos),
                                       !.now_playing_index = @ - 1])

ApplyRemove(p, id) ==
    LET pos == PositionOf(p.items, id)
    IN  IF pos = 0 THEN p
        ELSE NormalizeCursor(
               [p EXCEPT !.items = WithoutIndex(@, pos),
                         !.now_playing_index = IF pos < @ THEN @ - 1 ELSE @])

\* Mutant: the cursor stays on its index while the items move under it.
ReorderUnderCursor(p, id, new_index) ==
    LET old    == PositionOf(p.items, id)
        rest   == WithoutIndex(p.items, old)
        target == Least(new_index, Len(rest) + 1)
    IN  IF old = 0 THEN p
        ELSE [p EXCEPT !.items = WithInserted(rest, target, p.items[old])]

\* The moved item lands at new_index of the queue it was taken out of; the
\* cursor is located again by the id of the item it was on.
ApplyReorder(p, id, new_index) ==
    LET old    == PositionOf(p.items, id)
        rest   == WithoutIndex(p.items, old)
        target == Least(new_index, Len(rest) + 1)
        moved  == WithInserted(rest, target, p.items[old])
        cursor == p.now_playing_index
    IN  IF old = 0 THEN p
        ELSE [p EXCEPT !.items = moved,
                       !.now_playing_index =
                          IF cursor \in DOMAIN p.items
                          THEN PositionOf(moved, p.items[cursor].item_id)
                          ELSE cursor]

ApplyReplaceUpcoming(p, items) ==
    LET kept == SubSeq(p.items, 1, Least(p.now_playing_index, Len(p.items)))
    IN  [p EXCEPT !.items = kept \o FreshItems(kept, items)]

StartedSession(op, now_ms) ==
    [ items             |-> op.items,
      now_playing_index |-> op.anchor_index,
      position_ms       |-> 0,
      is_playing        |-> TRUE,
      session_anchor    |-> [session_id |-> op.session_id,
                             track_id   |-> op.items[op.anchor_index].track_id,
                             started_ms |-> now_ms] ]

\* ApplyError: the two hard rejects, which leave the state as it was.
Rejected(p, op) ==
    \/ op.type = "set_now_playing" /\ op.index > Len(p.items)
    \/ op.type = "start_session" /\ op.anchor_index > Len(op.items)

\* What an accepted op makes of the playback state.
Apply(p, op, now_ms) ==
    CASE op.type = "push"             -> ApplyPush(p, op.item)
      [] op.type = "remove"           -> ApplyRemove(p, op.item_id)
      [] op.type = "reorder"          -> ApplyReorder(p, op.item_id, op.new_index)
      [] op.type = "set_now_playing"  -> [p EXCEPT !.now_playing_index = op.index]
      [] op.type = "set_position"     -> [p EXCEPT !.position_ms = op.position_ms]
      [] op.type = "set_playing"      -> [p EXCEPT !.is_playing = op.is_playing]
      [] op.type = "clear"            -> DefaultPlayback
      [] op.type = "start_session"    -> StartedSession(op, now_ms)
      [] op.type = "replace_upcoming" -> ApplyReplaceUpcoming(p, op.items)
      [] op.type = "stop_session"     -> [p EXCEPT !.session_anchor = NoAnchor]

\* The item under the cursor, as the one-element or empty set of its id.
NowPlaying(p) ==
    {p.items[i].item_id : i \in DOMAIN p.items \cap {p.now_playing_index}}

\* The ops that may change which item is playing.
MovesCursor(p, op) ==
    \/ op.type \in {"set_now_playing", "clear", "start_session"}
    \/ op.type = "remove" /\ op.item_id \in NowPlaying(p)

-----------------------------------------------------------------------------
(***************************************************************************)
(* What the properties of a replica speak of.                              *)
(***************************************************************************)
\* The states a sequence of accepted ops leads through, from the empty queue on.
StatesOf(accepted, now_ms) ==
    LET f[n \in 0 .. Len(accepted)] ==
          IF n = 0 THEN DefaultPlayback ELSE Apply(f[n - 1], accepted[n], now_ms)
    IN  f

\* A playback state but for the time stamped on its session: every replica
\* stamps its own clock.
Unstamped(p) ==
    IF p.session_anchor = NoAnchor THEN p
    ELSE [p EXCEPT !.session_anchor.started_ms = 0]
=============================================================================
