------------------------------ MODULE TuiSignal ------------------------------
(***************************************************************************)
(* The terminal's listening signal: what it scrobbles about the track the  *)
(* player reports, when leaving a track is a skip, and the outbox of skip  *)
(* events.  Operators on the reducer's state a, shared by its handlers.    *)
(*                                                                         *)
(* A position is one of four stretches of a track: not started, the first  *)
(* three seconds, before and after the point where a play counts.          *)
(***************************************************************************)
EXTENDS PlayQueue

CONSTANT MaxAttempts    \* MAX_EVENT_ATTEMPTS

NotStarted == 0
Deep == 2               \* beyond three seconds: "previous" restarts the track
Counted == 3

NewSignal(track) ==
    [track |-> track, now_playing |-> FALSE, submission |-> FALSE, abandoned |-> FALSE]
NewEvent(track) == [track |-> track, attempts |-> 0]

\* What the services were told about each load, oldest first (history).
Report(a, what) == [a EXCEPT !.reports = Append(@, [load |-> a.seen.load, what |-> what])]

\* evaluate_scrobble; a track of unknown or short duration is never signalled.
EvaluateScrobble(a, sig) ==
    IF sig.abandoned \/ a.seen.track \notin a.signalled THEN "none"
    ELSE IF ~sig.now_playing THEN "now_playing"
    ELSE IF ~sig.submission /\ a.seen.position >= Counted THEN "submission" ELSE "none"

\* evaluate_skip
Skips(a) == a.seen.track \in a.signalled /\ a.seen.position # NotStarted
WithSkip(a) ==
    IF Skips(a) THEN [Report(a, "skip") EXCEPT !.outbox = Append(@, NewEvent(a.seen.track))] ELSE a

\* Mutant: the verdict is not remembered.
AbandonUnmarked(a, next) == IF a.seen.track \in {NoTrack, next} THEN a ELSE WithSkip(a)

\* note_abandonment: one verdict for each load, reported or gated out.
NoteAbandonment(a, next) ==
    LET sig == IF a.signal.track = a.seen.track THEN a.signal ELSE NewSignal(a.seen.track)
    IN  IF ~a.events_enabled \/ a.seen.track \in {NoTrack, next} \/ sig.abandoned THEN a
        ELSE [WithSkip(a) EXCEPT !.signal = [sig EXCEPT !.abandoned = TRUE]]

\* The first half of signal_tick: follow the reported track, fire a due scrobble.
\* Where no track is ever signalled the record of what was said is left alone.
Scrobble(a) ==
    LET sig  == IF a.seen.track = a.signal.track THEN a.signal ELSE NewSignal(a.seen.track)
        said == EvaluateScrobble(a, sig)
        told == IF said = "none" THEN a ELSE Report(a, said)
    IN  IF a.seen.track = NoTrack \/ a.signalled = {} THEN a
        ELSE [told EXCEPT !.signal = [sig EXCEPT !.now_playing = @ \/ said = "now_playing",
                                                 !.submission = @ \/ said = "submission"]]

\* The second half: the outbox goes out when its cadence comes round.
FlushDue(a) == a.outbox # << >> /\ a.flushing = << >>
Flushed(a) == [a EXCEPT !.flushing = a.outbox, !.outbox = << >>]

\* requeue_failed_events: back to the front, but for those out of attempts.
Requeued(events) ==
    SelectSeq([i \in DOMAIN events |-> [events[i] EXCEPT !.attempts = @ + 1]],
              LAMBDA e : e.attempts < MaxAttempts)
EventsFlushed(a, ok) ==
    [a EXCEPT !.flushing = << >>, !.outbox = IF ok THEN @ ELSE Requeued(a.flushing) \o @]
=============================================================================
