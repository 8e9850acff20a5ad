----------------------------- MODULE TuiPlayback -----------------------------
(***************************************************************************)
(* How the terminal turns gestures, room events and finished fetches into  *)
(* sound: the playback and room halves of its reducer, the effects it      *)
(* spawns, and the audio thread behind the player handle.                  *)
(*                                                                         *)
(* A handler is an operator from the reducer's state to the next one.  The *)
(* state a also holds what the handler leaves behind for others: ops on    *)
(* the wire, fetches in flight, commands for the audio thread.  The loop   *)
(* takes a snapshot of the player before it waits for a message, so a      *)
(* handler judges by seen, which may lag behind the audio thread.          *)
(*                                                                         *)
(* Every op is handed to the socket task by a detached task of its own, so *)
(* the ops of one gesture come to the wire in any order.                   *)
(*                                                                         *)
(* The gateway's order of ops is the order of its echoes, so the room as   *)
(* this client knows it is the only copy the model needs; an op on the     *)
(* wire is one not yet echoed.  A row chosen by a gesture is any row: the  *)
(* queue view's selection is browse state that a projection only clamps.   *)
(***************************************************************************)
EXTENDS TuiSignal, Bags

CONSTANTS
    Starts,      \* reducer states a behaviour may start from, the player as it is seen, with its bounds
    Lists,       \* track lists a gesture may play or enqueue
    OtherOps     \* ops other devices may submit

VARIABLES a, sink, ended, left

tuiVars == <<a, sink, ended, left>>

Silence == [track |-> NoTrack, load |-> 0, playing |-> FALSE, position |-> NotStarted]
Idle ==
    [ phase |-> "Disabled", room |-> DefaultPlayback, version |-> 0, queue |-> Queue(<< >>, 0), seen |-> Silence,
      pending |-> 0, prefetched |-> NoTrack, device |-> TRUE,
      output_on |-> FALSE, direct_play |-> NoTrack, last_classified |-> NoTrack, advance_dir |-> 1,
      disliked |-> {}, disliked_parents |-> {}, bare |-> {},
      meta |-> {}, hydrating |-> {}, hydrate_failed |-> {}, hydrations |-> {},
      submits |-> EmptyBag, wire |-> << >>, minted |-> 0, fetches |-> EmptyBag, cmds |-> << >>, loads |-> 0,
      signalled |-> {}, events_enabled |-> FALSE, signal |-> NewSignal(NoTrack),
      outbox |-> << >>, flushing |-> << >>, reports |-> << >> ]

PlayInit ==
    /\ \E s \in Starts : a = s.app /\ sink = s.app.seen /\ left = s.left
    /\ ended = 0

Online == a.phase = "Online"

-----------------------------------------------------------------------------
(***************************************************************************)
(* The room as this device sees it.                                        *)
(***************************************************************************)
Range(f) == {f[i] : i \in DOMAIN f}
Tracks(p) == [i \in DOMAIN p.items |-> p.items[i].track_id]
CursorTrack(s) == Current(Queue(Tracks(s.room), s.room.now_playing_index))

\* A start has said and commanded nothing yet, and what is heard was loaded before.
ASSUME PlayAssumption ==
    \A s \in Starts :
        /\ DOMAIN s.app = DOMAIN Idle /\ DOMAIN s.app.seen = DOMAIN Silence
        /\ s.app.cmds = << >> /\ s.app.reports = << >> /\ s.app.submits = EmptyBag
        /\ s.app.loads \in Nat /\ s.app.seen.load \in 0 .. s.app.loads
        /\ s.app.output_on \in BOOLEAN /\ \E t \in TrackId \cup {NoTrack} : s.app.signal = NewSignal(t)
        /\ s.app.phase = "Online" => s.app.queue = SetItems(Tracks(s.app.room), s.app.room.now_playing_index)

\* Ops whose tasks have not run; the ops of one gesture differ.
Submit(s, ops) == [s EXCEPT !.submits = @ (+) SetToBag(Range(ops))]

SetNowPlaying(i) == [type |-> "set_now_playing", index |-> i]
SetPlaying(on) == [type |-> "set_playing", is_playing |-> on]

\* A row of an unhydrated track is bare: it names no album and no artist.
Project(s) ==
    [s EXCEPT !.queue = SetItems(Tracks(s.room), s.room.now_playing_index),
              !.bare = Range(Tracks(s.room)) \ s.meta]

\* Disliked itself, or by a verdict on its album or artist where those are known.
TrackDisliked(s, t) == t \in s.disliked \/ (t \in s.disliked_parents /\ t \in s.meta)
RowDisliked(s, t) == t \in s.disliked \/ (t \in s.disliked_parents /\ t \notin s.bare)

\* The nearest row in the direction of travel that is not disliked.
NextPlayable(s) ==
    LET from == s.room.now_playing_index
        dir  == s.advance_dir
        ok   == {i \in DOMAIN s.room.items :
                    (i - from) * dir > 0 /\ ~TrackDisliked(s, s.room.items[i].track_id)}
    IN  IF ok = {} THEN 0 ELSE CHOOSE i \in ok : \A j \in ok : (i - from) * dir <= (j - from) * dir

Missing(s) == Range(Tracks(s.room)) \ (s.meta \cup s.hydrating \cup s.hydrate_failed)
HydrateMissing(s) ==
    IF Missing(s) = {} THEN s
    ELSE [s EXCEPT !.hydrating = @ \cup Missing(s), !.hydrations = @ \cup {Missing(s)}]

-----------------------------------------------------------------------------
(***************************************************************************)
(* Loading the current track.                                              *)
(***************************************************************************)
Command(s, c) == IF s.device THEN [s EXCEPT !.cmds = Append(@, c)] ELSE s
Do(what) == [do |-> what, track |-> NoTrack, load |-> 0]
Stopped(s) == [Command(s, Do("stop")) EXCEPT !.pending = 0]
\* Loads are numbered where the listening signal tells them apart.
Load(s, t) ==
    LET n == IF s.signalled = {} THEN 0 ELSE s.loads + 1
    IN  [Command(s, [do |-> "load", track |-> t, load |-> n]) EXCEPT !.loads = n, !.pending = 0]

Fetch(s, f) == [s EXCEPT !.fetches = @ (+) SetToBag({f})]
PrefetchNext(s) ==
    IF NextUp(s.queue) \in {NoTrack, s.prefetched} THEN s
    ELSE Fetch(s, [what |-> "prefetch", index |-> 0, track |-> NextUp(s.queue)])

StartCurrent(s) ==
    LET t == Current(s.queue)
    IN  IF ~s.device \/ t = NoTrack THEN s
        ELSE IF s.prefetched = t THEN PrefetchNext(Load([s EXCEPT !.prefetched = NoTrack], t))
        ELSE Fetch([s EXCEPT !.pending = s.queue.current],
                   [what |-> "resolve", index |-> s.queue.current, track |-> t])

\* auto_skip_forward and what follows it; only a direct pick plays a dislike.
StartCurrentPlayable(s) ==
    LET rest == {i \in DOMAIN s.queue.items :
                    i >= s.queue.current /\ ~RowDisliked(s, s.queue.items[i])}
        at   == IF s.queue.current = 0 \/ rest = {} THEN 0
                ELSE CHOOSE i \in rest : \A j \in rest : i <= j
        s2   == [s EXCEPT !.queue.current = at]
    IN  IF at = 0 THEN Stopped(s2) ELSE StartCurrent(s2)

-----------------------------------------------------------------------------
(***************************************************************************)
(* follow: what this device does after the room changed.                   *)
(***************************************************************************)
AutoSkip(s) ==
    Submit(HydrateMissing(s),
           <<IF NextPlayable(s) = 0 THEN SetPlaying(FALSE) ELSE SetNowPlaying(NextPlayable(s))>>)

DriveAudio(s, t) ==
    LET playing == s.room.is_playing
        loading == s.pending \in DOMAIN s.queue.items /\ s.queue.items[s.pending] = t
    IN  IF ~s.output_on \/ ~s.device THEN s
        ELSE CASE s.seen.track = t /\ playing /\ ~s.seen.playing             -> Command(s, Do("play"))
               [] s.seen.track = t /\ ~playing /\ s.seen.playing             -> Command(s, Do("pause"))
               [] s.seen.track # t /\ ~loading /\ playing                    -> StartCurrent(s)
               [] s.seen.track \notin {t, NoTrack} /\ ~loading /\ ~playing   -> Stopped(s)
               [] OTHER                                                      -> s

\* Mutant: the verdict on the current track is not latched.
FollowUnlatched(s) ==
    LET t == CursorTrack(s)
    IN  IF t # NoTrack /\ s.direct_play # t /\ s.output_on /\ TrackDisliked(s, t) THEN AutoSkip(s)
        ELSE HydrateMissing(IF t = NoTrack THEN s ELSE DriveAudio(s, t))

Follow(s) ==
    LET t        == CursorTrack(s)
        advanced == s.last_classified # t
        s2       == [s EXCEPT !.last_classified = t,
                              !.direct_play = IF @ = t THEN NoTrack ELSE @]
    IN  CASE t = NoTrack ->
               LET idle == [s EXCEPT !.last_classified = NoTrack]
               IN  HydrateMissing(IF s.seen.track # NoTrack /\ s.output_on THEN Stopped(idle) ELSE idle)
          [] t # NoTrack /\ s.direct_play # t /\ s.output_on /\ advanced /\ TrackDisliked(s, t) ->
               AutoSkip(s2)
          [] OTHER -> HydrateMissing(DriveAudio(s2, t))

FollowIfOnline(s) == IF s.phase = "Online" THEN Follow(s) ELSE s

-----------------------------------------------------------------------------
(***************************************************************************)
(* The transport and the queue view.  Each gesture has a local form and a  *)
(* room form, which only submits ops.                                      *)
(***************************************************************************)
LocalToggle(s) ==
    LET s2 == IF s.queue.current = 0 THEN [s EXCEPT !.queue = Jump(@, 1)] ELSE s
    IN  IF s.seen.track # NoTrack \/ s.pending # 0 THEN Command(s, Do("toggle"))
        ELSE IF s2.queue.current # 0 THEN StartCurrentPlayable(s2) ELSE s2

RoomToggle(s) ==
    IF s.room.items = << >> THEN s
    ELSE IF s.room.now_playing_index = 0
         THEN Submit([s EXCEPT !.advance_dir = 1], <<SetNowPlaying(1), SetPlaying(TRUE)>>)
         ELSE Submit(s, <<SetPlaying(~s.room.is_playing)>>)

LocalNext(s) ==
    LET s2 == [s EXCEPT !.queue = Advance(@)]
    IN  IF s2.queue.current = 0 THEN Stopped(s2) ELSE StartCurrentPlayable(s2)

\* Bounded at the tail, where only a drained track pauses the room.
RoomAdvance(s, manual) ==
    LET i  == s.room.now_playing_index
        s2 == [s EXCEPT !.advance_dir = 1]
    IN  CASE i = 0                                -> s
          [] i # 0 /\ i < Len(s.room.items)       ->
               Submit(IF manual THEN NoteAbandonment(s2, Tracks(s.room)[i + 1]) ELSE s2,
                      <<SetNowPlaying(i + 1)>>)
          [] OTHER                                ->
               IF ~manual /\ s.room.is_playing THEN Submit(s2, <<SetPlaying(FALSE)>>) ELSE s2

NextTrack(s, manual) ==
    IF s.phase = "Online" THEN RoomAdvance(s, manual)
    ELSE LocalNext(IF manual THEN NoteAbandonment(s, NoTrack) ELSE s)

\* The nearest playable row behind the cursor, or behind the end of a finished queue.
Behind(s) ==
    LET rows == {i \in DOMAIN s.queue.items : /\ s.queue.current = 0 \/ i < s.queue.current
                                              /\ ~RowDisliked(s, s.queue.items[i])}
    IN  IF rows = {} THEN 0 ELSE CHOOSE i \in rows : \A j \in rows : j <= i

LocalPrev(s) ==
    IF s.seen.position >= Deep THEN Command(s, Do("restart"))
    ELSE IF Behind(s) # 0
         THEN StartCurrent([NoteAbandonment(s, NoTrack) EXCEPT !.queue = Jump(@, Behind(s))])
    ELSE IF Current(s.queue) = NoTrack THEN s
    ELSE IF Current(s.queue) = s.seen.track THEN Command(s, Do("restart")) ELSE StartCurrent(s)

RoomPrev(s) ==
    LET i      == s.room.now_playing_index
        loaded == i # 0 /\ s.seen.track = CursorTrack(s)
    IN  CASE loaded /\ (s.seen.position >= Deep \/ i = 1) -> Command(s, Do("restart"))
          [] i = 0                                        -> s
          [] i = 1 /\ ~loaded                             ->
               IF s.output_on /\ s.room.is_playing THEN StartCurrent(s) ELSE s
          [] OTHER ->
               Submit([NoteAbandonment(s, Tracks(s.room)[i - 1]) EXCEPT !.advance_dir = -1],
                      <<SetNowPlaying(i - 1)>>)

LocalRemove(s, sel) ==
    LET was == s.queue.current = sel
        s2  == [IF was THEN NoteAbandonment(s, NoTrack) ELSE s EXCEPT !.queue = Remove(@, sel)]
    IN  CASE ~was                             -> s2
          [] was /\ s2.queue.items = << >>    -> Stopped(s2)
          [] was /\ s2.queue.items # << >>    -> StartCurrentPlayable(s2)

RoomRemove(s, sel) ==
    Submit(IF s.room.now_playing_index = sel THEN NoteAbandonment(s, NoTrack) ELSE s,
           <<[type |-> "remove", item_id |-> s.room.items[sel].item_id]>>)

LocalClear(s) ==
    [s EXCEPT !.queue = IF Current(@) = NoTrack THEN Queue(<< >>, 0) ELSE Queue(<<Current(@)>>, 1),
              !.prefetched = NoTrack]

ClearOps(p) ==
    LET others == SelectSeq(p.items, LAMBDA it : it.item_id \notin NowPlaying(p))
    IN  [i \in DOMAIN others |-> [type |-> "remove", item_id |-> others[i].item_id]]

MoveOps(p, sel, kind) ==
    LET to == MoveTarget(sel, Len(p.items), p.now_playing_index, kind)
    IN  IF to = 0 THEN << >>
        ELSE <<[type |-> "reorder", item_id |-> p.items[sel].item_id, new_index |-> to]>>

LocalMove(q, sel, kind) ==
    LET to == MoveTarget(sel, Len(q.items), q.current, kind)
    IN  IF to = 0 THEN q ELSE MoveItem(q, sel, to)

LocalJump(s, sel) ==
    StartCurrent([NoteAbandonment(s, s.queue.items[sel]) EXCEPT !.queue = Jump(@, sel)])

\* A direct pick: exempt from auto-skip once, and heard on this device.
Picked(s, t) == [NoteAbandonment(s, t) EXCEPT !.direct_play = t, !.advance_dir = 1, !.output_on = TRUE]
RoomJump(s, sel) ==
    Submit(Picked(s, Tracks(s.room)[sel]),
           <<SetNowPlaying(sel)>> \o IF s.room.is_playing THEN << >> ELSE <<SetPlaying(TRUE)>>)

Mint(s, tracks) == [i \in DOMAIN tracks |-> [item_id |-> s.minted + i, track_id |-> tracks[i]]]
Learn(s, tracks) == [s EXCEPT !.meta = @ \cup Range(tracks), !.minted = @ + Len(tracks)]

PlayNewQueue(s, tracks, start) ==
    IF s.phase = "Online"
    THEN Submit(Learn(Picked(s, tracks[start]), tracks),
                <<[type |-> "start_session", items |-> Mint(s, tracks), anchor_index |-> start,
                   session_id |-> "s"]>>)
    ELSE StartCurrent([NoteAbandonment(s, tracks[start]) EXCEPT
                         !.queue = Replace(tracks, start), !.prefetched = NoTrack, !.bare = {}])

\* Mutant: every pushed track is moved to the same place.
PushOpsReversed(p, items, play_next) ==
    LET move(k) == [type |-> "reorder", item_id |-> items[k].item_id, new_index |-> p.now_playing_index + 1]
    IN  IF play_next
        THEN [n \in 1 .. 2 * Len(items) |->
                IF n % 2 = 1 THEN [type |-> "push", item |-> items[(n + 1) \div 2]] ELSE move(n \div 2)]
        ELSE [k \in DOMAIN items |-> [type |-> "push", item |-> items[k]]]

\* push_tracks: each item to the tail and, to play next, then moved behind the
\* cursor this client sees and the items pushed before it.
PushOps(p, items, play_next) ==
    LET move(k) == [type |-> "reorder", item_id |-> items[k].item_id,
                    new_index |-> p.now_playing_index + k]
    IN  IF play_next
        THEN [n \in 1 .. 2 * Len(items) |->
                IF n % 2 = 1 THEN [type |-> "push", item |-> items[(n + 1) \div 2]] ELSE move(n \div 2)]
        ELSE [k \in DOMAIN items |-> [type |-> "push", item |-> items[k]]]

EnqueueTracks(s, tracks, play_next) ==
    IF s.phase = "Online"
    THEN Submit(Learn(s, tracks), PushOps(s.room, Mint(s, tracks), play_next))
    ELSE [s EXCEPT !.queue = IF play_next THEN EnqueueNext(@, tracks) ELSE Enqueue(@, tracks),
                   !.bare = @ \ Range(tracks)]

ToggleOutput(s) ==
    CASE s.phase # "Online"                  -> s
      [] s.phase = "Online" /\ ~s.output_on  -> Follow([s EXCEPT !.output_on = TRUE])
      [] s.phase = "Online" /\ s.output_on   -> Stopped([s EXCEPT !.output_on = FALSE])

-----------------------------------------------------------------------------
(***************************************************************************)
(* Finished fetches.                                                       *)
(***************************************************************************)
\* The queue moved on, or was projected anew, while the fetch was in flight.
StaleFetch(s, f) == s.queue.current # f.index \/ Current(s.queue) # f.track
Disown(s, f) == FollowIfOnline([s EXCEPT !.pending = IF @ = f.index THEN 0 ELSE @])

\* Mutant: bytes that arrive after the output was turned off are played.
AudioReadyAnyway(s, f) == IF StaleFetch(s, f) THEN Disown(s, f) ELSE PrefetchNext(Load(s, f.track))

AudioReady(s, f) ==
    CASE StaleFetch(s, f)                                                 -> Disown(s, f)
      [] ~StaleFetch(s, f) /\ s.phase = "Online" /\ ~s.output_on          -> [s EXCEPT !.pending = 0]
      [] OTHER                                                            -> PrefetchNext(Load(s, f.track))

AudioFailed(s, f) ==
    IF StaleFetch(s, f) THEN Disown(s, f) ELSE NextTrack([s EXCEPT !.pending = 0], FALSE)

PrefetchReady(s, f) == IF NextUp(s.queue) = f.track THEN [s EXCEPT !.prefetched = f.track] ELSE s

TracksHydrated(s, ids, resolved) ==
    LET s2 == [s EXCEPT !.hydrating = @ \ ids, !.hydrations = @ \ {ids}, !.meta = @ \cup resolved,
                        !.hydrate_failed = @ \cup (ids \ resolved)]
        s3 == IF CursorTrack(s) \in ids THEN [s2 EXCEPT !.last_classified = NoTrack] ELSE s2
    IN  IF s.phase = "Online" THEN Follow(Project(s3)) ELSE s2

HydrationFailed(s, ids) ==
    [s EXCEPT !.hydrating = @ \ ids, !.hydrations = @ \ {ids}, !.hydrate_failed = @ \cup ids]

-----------------------------------------------------------------------------
(***************************************************************************)
(* Server frames.                                                          *)
(***************************************************************************)
\* Mutant: the echo reaches the replica and not the queue.
AppliedUnprojected(s, op) ==
    IF Rejected(s.room, op) THEN s ELSE Follow([s EXCEPT !.room = Apply(@, op, 0), !.version = 1 - @])

\* applied, for an op the gateway accepted; a refused op changes nothing.  Of the
\* version only its parity is kept: that it moved.
Applied(s, op) ==
    IF Rejected(s.room, op) THEN s
    ELSE Follow(Project([s EXCEPT !.room = Apply(@, op, 0), !.version = 1 - @,
                                  !.hydrate_failed = IF op.type \in {"push", "start_session", "replace_upcoming"}
                                                     THEN {} ELSE @]))

Adopt(s, state) == Follow(Project([s EXCEPT !.phase = "Online", !.room = state, !.hydrate_failed = {}]))

\* The room after the first n ops on the wire.
RoomAfter(s, n) ==
    LET after[k \in 0 .. n] ==
          IF k = 0 THEN s.room
          ELSE IF Rejected(after[k - 1], s.wire[k]) THEN after[k - 1]
               ELSE Apply(after[k - 1], s.wire[k], 0)
    IN  after[n]

-----------------------------------------------------------------------------
(***************************************************************************)
(* The reducer's steps.  The loop then takes a new snapshot of the player. *)
(***************************************************************************)
Reduce(s) == a' = [s EXCEPT !.seen = sink] /\ UNCHANGED sink

Spend(budget) == left[budget] > 0 /\ left' = [left EXCEPT ![budget] = @ - 1]

Gesture(s) == Spend("gestures") /\ Reduce(s) /\ UNCHANGED ended

TransportToggle == Gesture(IF Online THEN RoomToggle(a) ELSE LocalToggle(a))
TransportNext == Gesture(NextTrack(a, TRUE))
TransportPrev == Gesture(IF Online THEN RoomPrev(a) ELSE LocalPrev(a))
QueueRemove(sel) == Gesture(IF Online THEN RoomRemove(a, sel) ELSE LocalRemove(a, sel))
QueueClear == Gesture(IF Online THEN Submit(a, ClearOps(a.room)) ELSE LocalClear(a))
QueueMove(sel, kind) ==
    Gesture(IF Online THEN Submit(a, MoveOps(a.room, sel, kind))
            ELSE [a EXCEPT !.queue = LocalMove(@, sel, kind)])
QueueJump(sel) == Gesture(IF Online THEN RoomJump(a, sel) ELSE LocalJump(a, sel))
PlayList(tracks, start) ==
    a.minted + Len(tracks) \in ItemId /\ Gesture(PlayNewQueue(a, tracks, start))
EnqueueList(tracks, play_next) ==
    a.minted + Len(tracks) \in ItemId /\ Gesture(EnqueueTracks(a, tracks, play_next))
OutputKey == Gesture(ToggleOutput(a))
\* A rating key, a rolled back rating or a loaded list of ratings.
Rate(t, verdicts) == Gesture(IF verdicts = "track" THEN [a EXCEPT !.disliked = {t} \ @]
                             ELSE [a EXCEPT !.disliked_parents = {t} \ @])

UserStep ==
    \/ TransportToggle \/ TransportNext \/ TransportPrev \/ QueueClear \/ OutputKey
    \/ \E sel \in DOMAIN a.queue.items : \/ QueueRemove(sel) \/ QueueJump(sel)
                                          \/ \E kind \in MoveKind : QueueMove(sel, kind)
    \/ \E l \in Lists : \/ \E start \in DOMAIN l : PlayList(l, start)
                        \/ \E play_next \in BOOLEAN : EnqueueList(l, play_next)
    \/ \E t \in TrackId, v \in {"track", "parents"} : Rate(t, v)

\* A loop turn that handles nothing of this module, and the tick.
Redraw == Reduce(a) /\ UNCHANGED <<ended, left>>
Tick == \E s \in {Scrobble(a)} \cup (IF FlushDue(a) THEN {Flushed(Scrobble(a))} ELSE {}) :
            Reduce(s) /\ UNCHANGED <<ended, left>>

Take(f) == [a EXCEPT !.fetches = @ (-) SetToBag({f})]
FetchDone(f) ==
    /\ Reduce(IF f.what = "resolve" THEN AudioReady(Take(f), f) ELSE PrefetchReady(Take(f), f))
    /\ UNCHANGED <<ended, left>>
\* A failed prefetch is only logged.
FetchFails(f) ==
    /\ Spend("faults") /\ UNCHANGED ended
    /\ Reduce(IF f.what = "resolve" THEN AudioFailed(Take(f), f) ELSE Take(f))

Hydrated(ids) == (\E resolved \in SUBSET ids : Reduce(TracksHydrated(a, ids, resolved))) /\ UNCHANGED <<ended, left>>
HydrateFails(ids) == Spend("faults") /\ Reduce(HydrationFailed(a, ids)) /\ UNCHANGED ended

FlushAnswered == a.flushing # << >> /\ (\E ok \in BOOLEAN : Reduce(EventsFlushed(a, ok))) /\ UNCHANGED <<ended, left>>

TrackEnded == ended > 0 /\ ended' = ended - 1 /\ Reduce(NextTrack(a, FALSE)) /\ UNCHANGED left

Echo ==
    /\ Online /\ a.wire # << >>
    /\ Reduce(Applied([a EXCEPT !.wire = Tail(@)], Head(a.wire)))
    /\ UNCHANGED <<ended, left>>
OtherDevice(op) == Online /\ Spend("others") /\ Reduce(Applied(a, op)) /\ UNCHANGED ended
\* The connection drops; of the ops on the wire a prefix reached the gateway.
Down ==
    /\ Online /\ Spend("drops") /\ UNCHANGED ended
    /\ \E n \in 0 .. Len(a.wire) : Reduce([a EXCEPT !.phase = "Offline", !.wire = SubSeq(@, 1, n)])
\* The snapshot of a reconnect, or one the gateway sends to a receiver it lagged.
SnapshotArrives ==
    /\ a.phase = "Offline" \/ (Online /\ a.wire # << >>)
    /\ \E n \in (IF Online THEN 1 ELSE Len(a.wire)) .. Len(a.wire) :
         Reduce(Adopt([a EXCEPT !.wire = SubSeq(@, n + 1, Len(@))], RoomAfter(a, n)))
    /\ UNCHANGED <<ended, left>>
\* The gateway lost its rooms: the snapshot is of an empty one.
SnapshotOfNewRoom ==
    /\ a.phase = "Offline" /\ Spend("drops") /\ UNCHANGED ended
    /\ Reduce(Adopt([a EXCEPT !.wire = << >>], DefaultPlayback))

\* The task of an op runs: it joins the ops of the live socket, or is dropped while
\* the socket task waits out its backoff.  One that comes while it connects waits in
\* the channel: it is as if its task ran after the connection, or within the backoff.
HandOver(op) ==
    /\ a' = [a EXCEPT !.submits = @ (-) SetToBag({op}),
                      !.wire = IF a.phase = "Online" THEN Append(@, op) ELSE @]
    /\ UNCHANGED <<sink, ended, left>>
SubmitStep == \E op \in BagToSet(a.submits) : HandOver(op)

Flights == BagToSet(a.fetches)
LoopStep ==
    \/ \E f \in Flights : FetchDone(f) \/ FetchFails(f)
    \/ \E ids \in a.hydrations : Hydrated(ids) \/ HydrateFails(ids)
    \/ Redraw \/ Tick \/ FlushAnswered \/ TrackEnded
    \/ Echo \/ (\E op \in OtherOps : OtherDevice(op)) \/ Down \/ SnapshotArrives \/ SnapshotOfNewRoom

-----------------------------------------------------------------------------
(***************************************************************************)
(* The audio thread.                                                       *)
(***************************************************************************)
Obeyed(c) ==
    CASE c.do = "load"    -> [track |-> c.track, load |-> c.load, playing |-> TRUE, position |-> NotStarted]
      [] c.do = "stop"    -> Silence
      [] c.do = "play"    -> [sink EXCEPT !.playing = sink.track # NoTrack]
      [] c.do = "pause"   -> [sink EXCEPT !.playing = FALSE]
      [] c.do = "toggle"  -> [sink EXCEPT !.playing = sink.track # NoTrack /\ ~@]
      [] c.do = "restart" -> [sink EXCEPT !.position = NotStarted]

TakeCommand ==
    /\ a.cmds # << >>
    /\ a' = [a EXCEPT !.cmds = Tail(@)]
    /\ \/ sink' = Obeyed(Head(a.cmds)) /\ UNCHANGED left
       \/ Head(a.cmds).do = "load" /\ Spend("faults") /\ sink' = Silence   \* undecodable
    /\ UNCHANGED ended
\* A played stretch, and the natural end of the track (whether the idle sink
\* still reports the last position is rodio's business).
PlayOn ==
    /\ sink.playing /\ sink.position < Counted /\ Spend("stretches")
    /\ sink' = [sink EXCEPT !.position = @ + 1]
    /\ UNCHANGED <<a, ended>>
Drain ==
    /\ sink.playing /\ Spend("drains")
    /\ \E p \in {sink.position, NotStarted} : sink' = [Silence EXCEPT !.position = p]
    /\ ended' = ended + 1
    /\ UNCHANGED a

AudioStep == TakeCommand \/ PlayOn \/ Drain

PlayNext == UserStep \/ SubmitStep \/ LoopStep \/ AudioStep

\* Weak fairness, with the guard of the step in the place of its ENABLED.
PlayFairness ==
    /\ []<>(a.submits = EmptyBag) \/ []<><<SubmitStep>>_tuiVars
    /\ []<>~(Online /\ a.wire # << >>) \/ []<><<Echo \/ SnapshotArrives>>_tuiVars
    /\ []<>(a.phase # "Offline") \/ []<><<SnapshotArrives \/ SnapshotOfNewRoom>>_tuiVars

-----------------------------------------------------------------------------
(***************************************************************************)
(* Properties.                                                             *)
(***************************************************************************)
\* While online the queue on screen and in the load path is the room's, however
\* gestures, echoes, hydrations and reconnects are interleaved (room.rs: a gesture
\* "mutates nothing locally").
EchoDriven == Online => a.queue = SetItems(Tracks(a.room), a.room.now_playing_index)

\* The local and the room form of a queue key leave the same queue behind ("both
\* modes reorder identically", "the same landing spots"): a clear in whatever order
\* its ops reach the gateway, tracks played next in the order they are emitted,
\* which nothing holds their tasks to (see PlayNextLandsNext in MCSubmits).
Landing(p, ops) ==
    LET p2 == RoomAfter([room |-> p, wire |-> ops], Len(ops))
    IN  SetItems(Tracks(p2), p2.now_playing_index)
Shuffles(ops) ==
    {ops} \cup {[i \in DOMAIN ops |-> ops[f[i]]] :
                   f \in {g \in [DOMAIN ops -> DOMAIN ops] : \A i, j \in DOMAIN ops : g[i] = g[j] => i = j}}
LocalMatchesShared ==
    Online =>
        /\ \A sel \in DOMAIN a.queue.items, kind \in MoveKind :
             Landing(a.room, MoveOps(a.room, sel, kind)) = LocalMove(a.queue, sel, kind)
        /\ \A l \in Lists :
             Landing(a.room, PushOps(a.room, Mint(a, l), TRUE)) = EnqueueNext(a.queue, l)
        /\ \A ops \in Shuffles(ClearOps(a.room)) : Landing(a.room, ops) = LocalClear(a).queue

\* While this device is a silent remote nothing makes its player sound, not even a
\* fetch that was under way when the output was turned off.
Remote == Online /\ ~a.output_on
SilentRemote ==
    [][Remote /\ Remote' =>
         \A i \in Len(a.cmds) + 1 .. Len(a'.cmds) : a'.cmds[i].do \notin {"load", "play", "toggle"}]_tuiVars

\* A load is scrobbled at most once at each stage, skipped at most once, and never
\* scrobbled again after the skip, though the snapshot lags behind the gestures.
OneVerdictPerLoad ==
    \A i, j \in DOMAIN a.reports :
        i < j /\ a.reports[i].load = a.reports[j].load =>
            a.reports[i].what \notin {"skip", a.reports[j].what}

\* The auto-skip of disliked tracks ends: once the users rest, no op is under way.
AutoSkipSettles == <>[](a.submits = EmptyBag /\ a.wire = << >>)

=============================================================================
