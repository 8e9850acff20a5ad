----------------------------- MODULE MCWebSync -----------------------------
(***************************************************************************)
(* Instances of WebSync for TLC.                                           *)
(***************************************************************************)
EXTENDS WebSync

Item(i) == [item_id |-> i, track_id |-> "t1"]
Push(i) == [type |-> "push", item |-> Item(i)]
Drop(i) == [type |-> "remove", item_id |-> i]
SetNowPlaying(n) == [type |-> "set_now_playing", index |-> n]
StartSession(items) ==
    [type |-> "start_session", items |-> items, anchor_index |-> 1, session_id |-> "s1"]

\* Ops whose effect depends on the order in which they land.
ListenerOps == {Push("i1"), SetNowPlaying(1)}
HouseholdOps == {Drop("i1")}

CursorOps == {StartSession(<<Item("i1"), Item("i2")>>), SetNowPlaying(2), Drop("i1")}
NoOps == {}
=============================================================================
