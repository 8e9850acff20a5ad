------------------------------ MODULE PlayQueue ------------------------------
(***************************************************************************)
(* The local transport queue of crate music-player: a list of tracks and a *)
(* cursor, 0 when nothing is current.  The terminal owns one; while it is  *)
(* in a room the queue is overwritten by the room's projection.            *)
(***************************************************************************)
EXTENDS Playback

CONSTANTS NoTrack

Queue(items, current) == [items |-> items, current |-> current]

Current(q) == IF q.current \in DOMAIN q.items THEN q.items[q.current] ELSE NoTrack
NextUp(q) == IF q.current # 0 /\ q.current + 1 \in DOMAIN q.items
             THEN q.items[q.current + 1] ELSE NoTrack

Replace(items, start) == Queue(items, Least(start, Len(items)))
Enqueue(q, tracks) == [q EXCEPT !.items = @ \o tracks]
EnqueueNext(q, tracks) ==
    [q EXCEPT !.items = SubSeq(@, 1, q.current) \o tracks \o SubSeq(@, q.current + 1, Len(@))]

\* The cursor keeps its track when an earlier row goes; when its own row goes,
\* the next one slides in.
Remove(q, i) ==
    LET rest == WithoutIndex(q.items, i)
    IN  Queue(rest, IF i < q.current THEN q.current - 1 ELSE Least(q.current, Len(rest)))

SetItems(items, cursor) == Queue(items, IF cursor \in DOMAIN items THEN cursor ELSE 0)

\* Running off the end clears the cursor.
Advance(q) ==
    [q EXCEPT !.current = IF @ # 0 /\ @ < Len(q.items) THEN @ + 1 ELSE 0]

Jump(q, i) == IF i \in DOMAIN q.items THEN [q EXCEPT !.current = i] ELSE q

\* The cursor follows the track it was on, by arithmetic on the two indices.
MoveItem(q, from, to) ==
    LET rest   == WithoutIndex(q.items, from)
        target == Least(to, Len(rest) + 1)
        left   == IF from < q.current THEN q.current - 1 ELSE q.current
    IN  IF from \notin DOMAIN q.items THEN q
        ELSE Queue(WithInserted(rest, target, q.items[from]),
                   CASE q.current = 0    -> 0
                     [] q.current = from -> target
                     [] OTHER            -> IF target <= left THEN left + 1 ELSE left)

\* move_target: where a queue key sends the row at sel, 0 for nowhere.
MoveTarget(sel, len, cursor, kind) ==
    IF sel > len THEN 0
    ELSE CASE kind = "down"         -> IF sel < len THEN sel + 1 ELSE 0
           [] kind = "up"           -> sel - 1
           [] kind = "top"          -> IF sel > 1 THEN 1 ELSE 0
           [] kind = "after_cursor" -> IF cursor = 0 \/ sel = cursor THEN 0
                                       ELSE IF sel < cursor THEN cursor ELSE cursor + 1
MoveKind == {"down", "up", "top", "after_cursor"}
=============================================================================
