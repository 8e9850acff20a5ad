------------------------------ MODULE SyncRoom ------------------------------
(***************************************************************************)
(* One room of the gateway's SyncStore: the authoritative playback state,  *)
(* its version counter and the window of client op ids it remembers.  The  *)
(* code touches the three only while it holds the room's write lock, so a  *)
(* room is one record and an application of an op is one operator on it.   *)
(***************************************************************************)
EXTENDS Playback

CONSTANTS
    OpId,        \* client-chosen op ids
    NoOpId,      \* an op submitted without an id (REST, the TUI)
    SeenOpIds    \* SEEN_OP_IDS, the size of the window of remembered ids

ASSUME RoomAssumption ==
    /\ NoOpId \notin OpId
    /\ SeenOpIds \in Nat \ {0}

Room == [playback : PlaybackState, version : Nat, seen : Seq(OpId)]

FreshRoom == [playback |-> DefaultPlayback, version |-> 0, seen |-> << >>]

Remembers(room, id) == \E i \in DOMAIN room.seen : room.seen[i] = id

\* Mutant: the window evicts one id too early.
SeenInsertEarly(seen, id) ==
    IF \E i \in DOMAIN seen : seen[i] = id THEN seen
    ELSE IF Len(seen) < SeenOpIds - 1 THEN Append(seen, id)
    ELSE Append(Tail(seen), id)

\* SeenOps::insert: append, and evict the oldest id past the capacity.
SeenInsert(seen, id) ==
    IF \E i \in DOMAIN seen : seen[i] = id THEN seen
    ELSE IF Len(seen) < SeenOpIds THEN Append(seen, id)
    ELSE Append(Tail(seen), id)

\* The three ways SyncStore::apply_with_id ends.  A remembered id is looked
\* up before the op is judged, so a duplicate is never rejected.
Duplicate(room, id) == id # NoOpId /\ Remembers(room, id)

Refused(room, op, id) == ~ Duplicate(room, id) /\ Rejected(room.playback, op)

Accepted(room, op, id) == ~ Duplicate(room, id) /\ ~ Rejected(room.playback, op)

\* Mutant: the id of an applied op is not recorded.
AppliedForgetting(room, op, id, now_ms) ==
    [room EXCEPT !.playback = Apply(room.playback, op, now_ms), !.version = @ + 1]

\* The room after an accepted op.  Only a success records the id.
Applied(room, op, id, now_ms) ==
    [ playback |-> Apply(room.playback, op, now_ms),
      version  |-> room.version + 1,
      seen     |-> IF id = NoOpId THEN room.seen ELSE SeenInsert(room.seen, id) ]

\* The room after apply_with_id, whatever the outcome.
ApplyWithId(room, op, id, now_ms) ==
    IF Accepted(room, op, id) THEN Applied(room, op, id, now_ms) ELSE room
=============================================================================
