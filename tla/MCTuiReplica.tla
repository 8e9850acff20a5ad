---------------------------- MODULE MCTuiReplica ----------------------------
(***************************************************************************)
(* Instances of TuiReplica for TLC.                                        *)
(***************************************************************************)
EXTENDS TuiReplica

Item(i) == [item_id |-> i, track_id |-> "t1"]
Push(i) == [type |-> "push", item |-> Item(i)]
Drop(i) == [type |-> "remove", item_id |-> i]
SetNowPlaying(n) == [type |-> "set_now_playing", index |-> n]
StartSession(items) ==
    [type |-> "start_session", items |-> items, anchor_index |-> 1, session_id |-> "s1"]

\* Ops that tell a state from its neighbours: folded twice, or over the wrong
\* state, they leave the cursor elsewhere.
GestureOps == {SetNowPlaying(2)}
DeviceOps == {StartSession(<<Item("i1"), Item("i2"), Item("i3")>>), Drop("i1")}
=============================================================================
