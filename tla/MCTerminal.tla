----------------------------- MODULE MCTerminal -----------------------------
(***************************************************************************)
(* The terminal client on small instances.  A behaviour starts from one of *)
(* a few states the reducer can be in, each with its own bounds.           *)
(***************************************************************************)
EXTENDS TuiPlayback, TuiAutoplay, TuiViews

Rooms(tracks, cursor, playing) ==
    [DefaultPlayback EXCEPT !.items = [i \in DOMAIN tracks |-> [item_id |-> i, track_id |-> tracks[i]]],
                            !.now_playing_index = cursor, !.is_playing = playing]
Bounds == [gestures |-> 0, others |-> 0, faults |-> 0, drops |-> 0, drains |-> 0, stretches |-> 0]

Loaded(load) == [track |-> "t1", load |-> load, playing |-> TRUE, position |-> NotStarted]

\* In a room: two tracks, the first one current, this device a remote or not.
Joined(playing, out, disliked) ==
    Project([Idle EXCEPT !.phase = "Online", !.room = Rooms(<<"t1", "t2">>, 1, playing),
                         !.minted = 2, !.meta = TrackId, !.output_on = out, !.disliked = disliked,
                         !.last_classified = "t1", !.seen = IF out THEN Loaded(0) ELSE Silence])

MCStarts ==
    { \* without a gateway
      [app |-> [Idle EXCEPT !.queue = Queue(<<"t1", "t2">>, 0), !.disliked = {"t2"}],
       left |-> [Bounds EXCEPT !.gestures = 2, !.faults = 1, !.drains = 1, !.stretches = 2]],
      \* gestures in a room, with fetches under way
      [app |-> [Joined(TRUE, TRUE, {}) EXCEPT !.minted = 3], left |-> [Bounds EXCEPT !.gestures = 2]],
      \* a track that ends while the room moves
      [app |-> [Joined(TRUE, TRUE, {"t2"}) EXCEPT !.minted = 4], left |-> [Bounds EXCEPT !.gestures = 1, !.drains = 1]],
      \* the current track was disliked while it played, and the room moves
      [app |-> [Project([Joined(TRUE, TRUE, {"t2"}) EXCEPT !.room.now_playing_index = 2])
                  EXCEPT !.last_classified = "t2", !.seen.track = "t2"],
       left |-> [Bounds EXCEPT !.gestures = 1, !.others = 1]],
      \* reconnects, a gateway that restarted
      [app |-> [Joined(TRUE, TRUE, {"t2"}) EXCEPT !.minted = 4],
       left |-> [Bounds EXCEPT !.gestures = 1, !.drops = 2]],
      \* metadata that is missing
      [app |-> [Joined(FALSE, FALSE, {}) EXCEPT !.phase = "Offline", !.minted = 4, !.meta = {}, !.disliked_parents = {"t2"}],
       left |-> [Bounds EXCEPT !.gestures = 1, !.faults = 1]],
      \* the listening signal
      [app |-> [Idle EXCEPT !.queue = Queue(<<"t1", "t2">>, 1), !.signalled = {"t1"}, !.events_enabled = TRUE,
                            !.loads = 1, !.seen = [Loaded(1) EXCEPT !.position = Deep]],
       left |-> [Bounds EXCEPT !.gestures = 2, !.stretches = 1]] }

\* A start that has minted four ids takes the short list only.
MCLists == {<<"t2">>, <<"t2", "t1">>}
MCOtherOps == {SetNowPlaying(2), SetPlaying(FALSE), [type |-> "remove", item_id |-> 1]}

\* Autoplay over a queue of one, and over one with a pick of its own under the cursor.
AutoBounds == [refills |-> 0, toggles |-> 0, edits |-> 0, votes |-> 0, faults |-> 0]
OneTrack == [Quiescent(Queue(<<"t1">>, 1), "s") EXCEPT !.enabled = TRUE, !.generation = 1]
MCAutoStarts ==
    { [app |-> Quiescent(Queue(<<"t1">>, 1), "s"), left |-> [AutoBounds EXCEPT !.toggles = 3, !.refills = 3]],
      [app |-> OneTrack, left |-> [AutoBounds EXCEPT !.edits = 2, !.refills = 3]],
      [app |-> [OneTrack EXCEPT !.recommended = {"t1"}, !.enabled = FALSE],
       left |-> [AutoBounds EXCEPT !.votes = 3, !.faults = 2, !.edits = 2]] }

\* The sections: browsing, reading and editing, each from a screen it is done on.
ViewBounds == [gestures |-> 0, refreshes |-> 0, faults |-> 0]
Ready(id) == [state |-> "Ready", of |-> id, by |-> 0]
MCViewStarts ==
    { [view |-> FirstView, left |-> [ViewBounds EXCEPT !.gestures = 3, !.faults = 1]],
      [view |-> [FirstView EXCEPT !.slot["albums"] = Ready(FirstView.kind)],
       left |-> [ViewBounds EXCEPT !.gestures = 3, !.faults = 1]],
      [view |-> [FirstView EXCEPT !.section = "Search", !.query["search"] = "x", !.slot["search"] = Ready("x")],
       left |-> [ViewBounds EXCEPT !.gestures = 3]],
      [view |-> [FirstView EXCEPT !.section = "Playlists", !.slot["playlists"] = Ready(NoId)],
       left |-> [ViewBounds EXCEPT !.gestures = 4]],
      [view |-> [FirstView EXCEPT !.section = "Diagnostics", !.tab = "latent", !.slot["latent"] = Ready("24h")],
       left |-> [ViewBounds EXCEPT !.gestures = 2, !.refreshes = 1]] }

VARIABLE part

PlayIdle == a = Idle /\ sink = Silence /\ ended = 0 /\ left = Bounds
AutoIdle == ap = OneTrack /\ autoLeft = AutoBounds
ViewIdle == v = FirstView /\ viewsLeft = ViewBounds

vars == <<part, a, sink, ended, left, ap, autoLeft, v, viewsLeft>>
Init ==
    \/ part = "playback" /\ PlayInit /\ AutoIdle /\ ViewIdle
    \/ part = "autoplay" /\ AutoInit /\ PlayIdle /\ ViewIdle
    \/ part = "views" /\ ViewInit /\ PlayIdle /\ AutoIdle
Next ==
    /\ \/ part = "playback" /\ PlayNext /\ UNCHANGED <<autoVars, viewVars>>
       \/ part = "autoplay" /\ AutoNext /\ UNCHANGED <<tuiVars, viewVars>>
       \/ part = "views" /\ ViewNext /\ UNCHANGED <<tuiVars, autoVars>>
    /\ UNCHANGED part
Spec == Init /\ [][Next]_vars /\ PlayFairness
=============================================================================
