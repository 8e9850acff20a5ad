---------------------------- MODULE MCSyncStore ----------------------------
(***************************************************************************)
(* Instances of SyncStore for TLC.  An item id stands for one minted item, *)
(* so its track is fixed; clients mint the ids of a list afresh, so a list *)
(* repeats no id unless the instance says so.                              *)
(***************************************************************************)
EXTENDS SyncStore, TLC

Item(i) == [item_id |-> i, track_id |-> IF i = "i1" THEN "t1" ELSE "t2"]

Start(items, anchor, sid) ==
    [type |-> "start_session", items |-> items, anchor_index |-> anchor,
     session_id |-> sid]

\* Every op type; indices from None to one past the longest queue.
QueueOps ==
    {[type |-> "push", item |-> Item(i)] : i \in ItemId}
      \cup {[type |-> "remove", item_id |-> i] : i \in ItemId}
      \cup [type : {"reorder"}, item_id : ItemId, new_index : 1 .. 4]
      \cup [type : {"set_now_playing"}, index : 0 .. 4]
      \cup [type : {"set_position"}, position_ms : {1}]
      \cup [type : {"set_playing"}, is_playing : {TRUE}]
      \cup {[type |-> "clear"], [type |-> "stop_session"]}
      \cup {Start(<<Item("i2"), Item("i1"), Item("i3")>>, a, "s1") : a \in 1 .. 4}
      \cup {Start(<< >>, 1, "s1")}
      \cup {[type |-> "replace_upcoming", items |-> l] :
              l \in {<< >>, <<Item("i3"), Item("i1")>>,
                     <<Item("i2"), Item("i3"), Item("i2")>>}}

\* The ops of the session lifecycle, and one that is neither start nor stop.
SessionOps ==
    {Start(<<Item("i1")>>, 1, s) : s \in SessionId}
      \cup {[type |-> "stop_session"], [type |-> "clear"]}

VARIABLE scene

\* "queue": one request at a time and none resent, so that every sequence of ops
\* runs.  "sessions": requests interleave and are resent under any of the op ids.
MCInit == Init /\ scene \in {"queue", "sessions"}
Asks(h) ==
    \E r \in RoomId :
        \/ /\ scene = "queue"
           /\ \A g \in Handler : handler[g] = Idle
           /\ \E op \in QueueOps : Receive(h, r, op, NoOpId)
        \/ /\ scene = "sessions" /\ rooms[r].version < MaxVersion - 1
           /\ \E op \in SessionOps, id \in OpId \cup {NoOpId} : Receive(h, r, op, id)
MCNext ==
    /\ \/ \E h \in Handler :
            \/ Asks(h)
            \/ Locked(h)
            \/ MirrorStart(h)
            \/ MirrorStop(h)
            \/ HandlerDropped(h)
       \/ Restart
       \/ scene = "sessions" /\ Tick
    /\ UNCHANGED scene
MCSpec == MCInit /\ [][MCNext]_<<vars, scene>>

AllOps == QueueOps \cup SessionOps

\* Handlers and op ids are interchangeable.
Symmetry == Permutations(Handler) \cup Permutations(OpId)
=============================================================================
