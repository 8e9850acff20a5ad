------------------------------ MODULE MCSubmits ------------------------------
(***************************************************************************)
(* One play-next gesture in a room nobody else touches.  Each of its ops   *)
(* is handed to the socket by a task of its own.                           *)
(***************************************************************************)
EXTENDS TuiPlayback

VARIABLE promised    \* the queue the local form of the gesture would leave

MCStarts ==
    LET room == [DefaultPlayback EXCEPT !.items = <<[item_id |-> 1, track_id |-> "t1"]>>, !.now_playing_index = 1]
    IN  {[app |-> Project([Idle EXCEPT !.phase = "Online", !.room = room, !.minted = 1, !.meta = TrackId,
                                       !.last_classified = "t1"]),
          left |-> [gestures |-> 1, others |-> 0, faults |-> 0, drops |-> 0, drains |-> 0, stretches |-> 0]]}
MCLists == {<<"t2", "t3">>}

vars == <<a, sink, ended, left, promised>>
Init == PlayInit /\ promised = a.queue
Next ==
    \/ \E l \in Lists : EnqueueList(l, TRUE) /\ promised' = EnqueueNext(a.queue, l)
    \/ (SubmitStep \/ Echo) /\ UNCHANGED promised
Spec == Init /\ [][Next]_vars

\* Tracks played next end up where the local form puts them, once nothing is under
\* way: "play_next reorders each to directly after the cursor, preserving their
\* order" (room.rs).
PlayNextLandsNext == a.submits = EmptyBag /\ a.wire = << >> => a.queue = promised
=============================================================================
