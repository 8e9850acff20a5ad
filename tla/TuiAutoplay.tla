----------------------------- MODULE TuiAutoplay -----------------------------
(***************************************************************************)
(* The terminal's autoplay: refills of a queue about to drain, the record  *)
(* of which tracks autoplay added, and the optimistic votes and ratings.   *)
(*                                                                         *)
(* Ticks are not counted: a cooldown is a flag that a later tick clears.   *)
(* The gateway's answers come in any order, or are lost; what this         *)
(* device's votes leave there is part of the state, one row for each track *)
(* and session, so that the thumb, kept for the track alone, can be        *)
(* compared with it.  Votes of other devices and of guests are left out.   *)
(***************************************************************************)
EXTENDS PlayQueue

CONSTANTS
    MinUpcoming,     \* [tui.autoplay] min_upcoming
    AutoStarts,      \* states a behaviour may start from, with its bounds
    Window,          \* frontier_window
    Sessions         \* session ids a vote is filed under

Opinion == {"none", "up", "down"}
\* A behaviour starts with nothing under way.
ASSUME AutoAssumption ==
    \A s \in AutoStarts :
        /\ DOMAIN s.app = {"enabled", "inflight", "generation", "cooling", "online", "queue", "recommended",
                           "pending_push", "wire", "refills", "votes", "feedback_inflight", "writes",
                           "session", "stored", "filed", "doubtful"}
        /\ s.app.generation \in Nat /\ s.app.inflight = FALSE /\ s.app.refills = {} /\ s.app.writes = {}
        /\ s.app.session \in Sessions /\ s.app.filed \in [TrackId -> Sessions]
        /\ s.app.votes \in [TrackId -> Opinion] /\ s.app.stored \in [TrackId \X Sessions -> Opinion]
        /\ \A t \in TrackId : s.app.votes[t] = s.app.stored[<<t, s.app.filed[t]>>]

VARIABLES ap, autoLeft

autoVars == <<ap, autoLeft>>

\* filed: the session a track was last voted in; doubtful: tracks with a vote that
\* was stored and its answer lost, until a later one lands.
Quiescent(queue, session) ==
    [ enabled |-> FALSE, inflight |-> FALSE, generation |-> 0, cooling |-> FALSE,
      online |-> TRUE, queue |-> queue, recommended |-> {}, pending_push |-> {},
      wire |-> << >>, refills |-> {},
      votes |-> [t \in TrackId |-> "none"], feedback_inflight |-> {}, writes |-> {},
      session |-> session, stored |-> [t \in TrackId \X Sessions |-> "none"],
      filed |-> [t \in TrackId |-> session], doubtful |-> {} ]

AutoInit == \E s \in AutoStarts : ap = s.app /\ autoLeft = s.left
AutoSpend(budget) == autoLeft[budget] > 0 /\ autoLeft' = [autoLeft EXCEPT ![budget] = @ - 1]
Kept == UNCHANGED autoLeft

QueueTracks(s) == {s.queue.items[i] : i \in DOMAIN s.queue.items}
Upcoming(s) == IF s.queue.current = 0 THEN 0 ELSE Len(s.queue.items) - s.queue.current

-----------------------------------------------------------------------------
(***************************************************************************)
(* build_seeds: the weight of each seed, by the strongest of its claims,   *)
(* and the anchors that leash the drift.  Weights are scaled: an anchor 6, *)
(* a pick 4, a scrobble 2, the frontier 1.                                 *)
(***************************************************************************)
Picks(items, recommended) == {i \in DOMAIN items : items[i] \notin recommended}
Frontier(items, cursor) == {i \in DOMAIN items : i <= cursor /\ i > cursor - Window}
Claims(items, cursor, recommended, anchor, t) ==
    (IF t = anchor THEN {6} ELSE {})
      \cup {IF i < cursor THEN 2 ELSE 4 : i \in {i \in Picks(items, recommended) : items[i] = t}}
      \cup {1 : i \in {i \in Frontier(items, cursor) : items[i] = t}}
Strongest(W) == CHOOSE w \in W : \A v \in W : v <= w
BuildSeeds(items, cursor, recommended, anchor) ==
    LET claims(t) == Claims(items, cursor, recommended, anchor, t)
    IN  [seeds   |-> {<<t, Strongest(claims(t))>> : t \in {t \in TrackId : claims(t) # {}}},
         anchors |-> {items[i] : i \in Picks(items, recommended)} \cup ({anchor} \ {NoTrack})]

-----------------------------------------------------------------------------
(***************************************************************************)
(* Refills.                                                                *)
(***************************************************************************)
Reconcile(s) ==
    [s EXCEPT !.recommended = @ \cap QueueTracks(s), !.pending_push = @ \ QueueTracks(s)]

\* Tracks on their way count as upcoming.
Shortfall(s) == MinUpcoming - (Upcoming(s) + Cardinality(s.pending_push))

MaybeRefill(s) ==
    LET s2 == Reconcile(s)
    IN  IF ~s.enabled \/ s.inflight \/ s.cooling \/ s.queue.current = 0 THEN s
        ELSE IF Shortfall(s2) <= 0 THEN s2
        ELSE [s2 EXCEPT !.inflight = TRUE,
                        !.refills = @ \cup {[generation |-> s.generation, need |-> Shortfall(s2),
                                             seeds |-> BuildSeeds(s.queue.items, s.queue.current,
                                                                  s2.recommended, NoTrack)]}]

\* Mutant: the key leaves the lock of the refill under way in place.
ToggledLocked(s) == [s EXCEPT !.enabled = ~@, !.generation = @ + 1, !.cooling = FALSE, !.pending_push = {}]

Toggled(s) ==
    LET s2 == [s EXCEPT !.enabled = ~@, !.generation = @ + 1, !.inflight = FALSE,
                        !.cooling = FALSE, !.pending_push = {}]
    IN  IF s2.enabled THEN MaybeRefill(s2) ELSE s2

\* enqueue_tracks, as far as the queue goes.
Pushed(s, tracks) ==
    IF s.online THEN [s EXCEPT !.wire = @ \o tracks] ELSE [s EXCEPT !.queue = Enqueue(@, tracks)]

\* on_refilled: new tracks only, no more than are missing now.
Refilled(s, r, tracks) ==
    LET s2    == [s EXCEPT !.inflight = FALSE, !.cooling = TRUE]
        new   == {k \in DOMAIN tracks : /\ tracks[k] \notin QueueTracks(s)
                                        /\ \A j \in 1 .. k - 1 : tracks[j] # tracks[k]}
        order == Increasing(new)
        room  == MinUpcoming - Upcoming(s)
        fresh == [n \in 1 .. Least(Cardinality(new), IF room > 0 THEN room ELSE 0) |-> tracks[order[n]]]
        added == {fresh[n] : n \in DOMAIN fresh}
    IN  IF r.generation # s.generation THEN s
        ELSE Pushed([s2 EXCEPT !.recommended = @ \cup added,
                               !.pending_push = IF s.online THEN @ \cup added ELSE @], fresh)

ToggleAutoplay == AutoSpend("toggles") /\ ap' = Toggled(ap)
AutoTick == Kept /\ \E cooling \in {FALSE, ap.cooling} : ap' = MaybeRefill([ap EXCEPT !.cooling = cooling])
\* The recommender gives at most as many as were asked for, or none when it is unavailable.
RefillAnswered(r) ==
    /\ AutoSpend("refills")
    /\ \E tracks \in UNION {[1 .. n -> TrackId] : n \in 0 .. r.need} :
         ap' = Refilled([ap EXCEPT !.refills = @ \ {r}], r, tracks)

\* The room: the next push is echoed; a listener moves on, enqueues, or clears
\* what autoplay added; the connection goes and comes back.
PushEchoed ==
    /\ Kept /\ ap.online /\ ap.wire # << >>
    /\ ap' = [ap EXCEPT !.wire = Tail(@), !.queue = Enqueue(@, <<Head(ap.wire)>>)]
CursorMoves == AutoSpend("edits") /\ ap.queue.current < Len(ap.queue.items) /\ ap' = [ap EXCEPT !.queue.current = @ + 1]
ListenerRemoves(i) ==
    /\ AutoSpend("edits") /\ i # ap.queue.current
    /\ ap' = [ap EXCEPT !.queue = Remove(@, i)]
ConnectionTurns ==
    /\ AutoSpend("edits")
    /\ ap' = [ap EXCEPT !.online = ~@, !.wire = << >>]

\* Someone starts another session, on tracks that may be picks of autoplay.
SessionMoves(session) ==
    /\ AutoSpend("edits") /\ session # ap.session
    /\ \E t \in TrackId : ap' = [ap EXCEPT !.session = session, !.queue = Replace(<<t>>, 1)]

-----------------------------------------------------------------------------
(***************************************************************************)
(* Thumbs on the current pick: one write for a track at a time, filed      *)
(* under the session of the moment.                                        *)
(***************************************************************************)
Thumb(vote) ==
    LET t      == Current(ap.queue)
        target == IF ap.votes[t] = vote THEN "none" ELSE vote
    IN  /\ t # NoTrack /\ t \in ap.recommended /\ t \notin ap.feedback_inflight
        /\ AutoSpend("votes")
        /\ ap' = [ap EXCEPT !.votes[t] = target, !.feedback_inflight = @ \cup {t},
                            !.writes = @ \cup {[track |-> t, vote |-> target, previous |-> ap.votes[t],
                                                 session |-> ap.session]}]

\* on_feedback_done: the write landed, or an error comes back and it is rolled back,
\* though the gateway may have stored it and only its answer is lost.
FeedbackDone(w) ==
    /\ Kept
    /\ ap' = [ap EXCEPT !.writes = @ \ {w}, !.feedback_inflight = @ \ {w.track},
                        !.stored[<<w.track, w.session>>] = w.vote, !.filed[w.track] = w.session,
                        !.doubtful = @ \ {w.track}]
RolledBack(w) ==
    [ap EXCEPT !.writes = @ \ {w}, !.feedback_inflight = @ \ {w.track}, !.votes[w.track] = w.previous]
FeedbackFails(w) == AutoSpend("faults") /\ ap' = RolledBack(w)
FeedbackAnswerLost(w) ==
    /\ AutoSpend("faults")
    /\ ap' = [RolledBack(w) EXCEPT !.stored[<<w.track, w.session>>] = w.vote, !.doubtful = @ \cup {w.track}]

AutoNext ==
    \/ ToggleAutoplay \/ AutoTick \/ (\E r \in ap.refills : RefillAnswered(r))
    \/ PushEchoed \/ CursorMoves \/ ConnectionTurns \/ (\E x \in Sessions : SessionMoves(x))
    \/ (\E i \in DOMAIN ap.queue.items : ListenerRemoves(i))
    \/ (\E vote \in {"up", "down"} : Thumb(vote))
    \/ (\E w \in ap.writes : FeedbackDone(w) \/ FeedbackFails(w) \/ FeedbackAnswerLost(w))

-----------------------------------------------------------------------------
(***************************************************************************)
(* Properties.                                                             *)
(***************************************************************************)
\* What autoplay shows and waits for is backed by what is under way.  The lock is held
\* exactly while one refill of this generation is out: toggling can neither strand it
\* nor let two refills run ("the sole re-entrancy guard").  With no write out for it, a
\* track's thumb is the vote this device left at the gateway in the session it was last
\* voted in, whatever failed and was rolled back; unless an answer was lost after the
\* vote was stored: then the rollback shows a thumb the gateway does not have, until
\* another vote on the track lands.
AutoplayBacked ==
    /\ ap.inflight <=> \E r \in ap.refills : r.generation = ap.generation
    /\ \A r, q \in ap.refills : r.generation = q.generation => r = q
    /\ \A t \in TrackId \ (ap.doubtful \cup {w.track : w \in ap.writes}) : ap.votes[t] = ap.stored[<<t, ap.filed[t]>>]

=============================================================================
