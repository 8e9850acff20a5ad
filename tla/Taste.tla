------------------------------- MODULE Taste -------------------------------
(***************************************************************************)
(* What the gateway keeps of one listener's behaviour, and the handlers     *)
(* that write it: POST /v1/events, /rest/scrobble, POST                     *)
(* /v1/recommend/feedback and PUT /v1/library/rating.  The tables are those *)
(* of music-recommend (event log, recency clock, decayed affinity counter,  *)
(* votes, ratings); the open listening session is in memory only.           *)
(*                                                                          *)
(* Each handler is a process, its awaits are its steps.  The counter is     *)
(* read and written back in a deferred transaction of a WAL database: a     *)
(* write of anyone else in between makes the write-back fail at once.       *)
(* Time is counted in half-lives, scores in 64ths.                          *)
(***************************************************************************)
EXTENDS Integers, Sequences, FiniteSetsExt, Selections, TLC

CONSTANTS
    Handlers,       \* requests that may be under way at once
    Signals,        \* the requests the listener's clients make
    Measured,       \* tracks whose duration is in the metadata cache
    Gap,            \* LISTEN_SESSION_GAP_MS
    NoId,           \* an event without a client id
    Nothing         \* no row, no open session, no position

VARIABLES
    unsent,         \* how often each request may still be sent (resends included)
    handler,        \* what each request under way is about to do
    events,         \* the event log: sequence of event and listening session
    listen,         \* ListenSessions: the open session, or Nothing after a boot
    history,        \* play_history: track -> last_played_ms
    votes,          \* recommend_feedback: track and session -> "up" or "down"
    affinity,       \* track_affinity: track -> decayed counter and tallies
    rating,         \* entity_rating: entity -> "like" or "dislike"
    faults,         \* store errors and boots still allowed
    folded,         \* history: what was folded into the counters
    submitted,      \* history: plays the recency clock was told of
    severed         \* history: the log lacks a stamped event, or could not be asked for the session

\* The events the requests carry: an id stands for one moment, however often it is sent.
Sent == UNION {{r.batch[i] : i \in DOMAIN r.batch} : r \in {r \in Signals : r.kind # "vote"}}
ASSUME TasteAssumption ==
    /\ Gap \in Nat /\ Nothing \notin [id : Int, last : Nat]
    /\ \A r \in Signals : r.kind # "vote" => r.batch \in Seq(Sent) /\ r.batch # <<>>
    /\ \A e \in Sent : e.at \in Nat /\ e.heard \in Nat
    /\ \A d, e \in Sent : d.id = e.id => d.at = e.at \/ d.id = NoId

tables == <<events, history, votes, affinity, rating>>
tasteVars == <<unsent, handler, listen, tables, faults, folded, submitted, severed>>

NoRequest == [step |-> "idle"]

\* program: the requests that will be made, each at most times times.
TasteInit(program, times, f, verdicts) ==
    /\ unsent = [r \in Signals |-> IF r \in program THEN times ELSE 0]
    /\ faults = f
    /\ handler = [h \in Handlers |-> NoRequest]
    /\ events = <<>>
    /\ listen = Nothing
    /\ history = <<>> /\ votes = <<>> /\ affinity = <<>> /\ rating = verdicts
    /\ folded = {} /\ submitted = {} /\ severed = FALSE

-----------------------------------------------------------------------------
(* The decayed counter *)

\* Decay over dt half-lives; an earlier instant is a no-op.
Decay(score, dt) == IF dt <= 0 THEN score ELSE score \div 2 ^ dt

\* A skip counts by how early it came: completion in halves, clamped.
EventWeight(kind, completion) ==
    CASE kind = "up" -> 64
      [] kind = "down" -> -64
      [] kind = "scrobble" -> 16
      [] kind = "skip" -> -16 * (2 - Min({completion, 2}))

\* Mutant: the counter is dragged to the time of the event, however late it comes.
FoldAtEvent(row, at, w) ==
    [row EXCEPT !.score = Decay(row.score, at - row.updated) + w, !.updated = at]

\* The counter and the weight are both aged to the later of the two instants.
FoldEvent(row, at, w) ==
    LET anchor == Max({row.updated, at})
    IN  [row EXCEPT !.score = Decay(row.score, anchor - row.updated) + Decay(w, anchor - at),
                    !.updated = anchor]

Tally(kind) == CASE kind = "up" -> "likes" [] kind = "down" -> "dislikes"
                 [] kind = "scrobble" -> "plays" [] kind = "skip" -> "skips"

NewRow(at) ==
    [score |-> 0, updated |-> at, plays |-> 0, skips |-> 0, likes |-> 0, dislikes |-> 0]

\* apply_event: what is written back for the row that was read.
Applied(row, f) ==
    LET prev == IF row = Nothing THEN NewRow(f.at) ELSE row
        next == FoldEvent(prev, f.at, f.weight)
    IN  [next EXCEPT ![Tally(f.kind)] = @ + 1]

Fold(kind, track, at, completion, tag) ==
    [kind |-> kind, track |-> track, at |-> at, weight |-> EventWeight(kind, completion), tag |-> tag]

-----------------------------------------------------------------------------
(* Listening sessions *)

\* Mutant: the end of the latest activity follows the events as they arrive.
AdvanceRewinds(cur, start, end) ==
    IF cur # Nothing /\ start - cur.last <= Gap
    THEN [cur EXCEPT !.last = end] ELSE [id |-> start, last |-> end]

\* A late event joins the open session and never moves its end backwards.
Advance(cur, start, end) ==
    IF cur # Nothing /\ start - cur.last <= Gap
    THEN [cur EXCEPT !.last = Max({cur.last, end})]
    ELSE [id |-> start, last |-> end]

\* last_listen_session: the newest event by its own time, then by its row.
LastListenSession ==
    IF events = <<>> THEN Nothing
    ELSE LET newest == CHOOSE i \in DOMAIN events : \A j \in DOMAIN events :
                           \/ events[i].event.at > events[j].event.at
                           \/ events[i].event.at = events[j].event.at /\ i >= j
         IN  [id |-> events[newest].session, last |-> events[newest].event.at]

Resumed == IF listen = Nothing THEN LastListenSession ELSE listen

-----------------------------------------------------------------------------
(* The handlers *)

\* h goes on; a write of its own leaves no other transaction a fresh snapshot.
Proceeds(h, to) == handler' = [handler EXCEPT ![h] = to]
Writes(h, to) ==
    handler' = [g \in Handlers |->
        IF g = h THEN to
        ELSE IF handler[g].step = "write" THEN [handler[g] EXCEPT !.stale = TRUE]
        ELSE handler[g]]

\* A write outside the handlers outdates the same way.
Outdated ==
    handler' = [g \in Handlers |-> IF handler[g].step = "write"
                                   THEN [handler[g] EXCEPT !.stale = TRUE] ELSE handler[g]]

Folding(todo, r) == IF todo = <<>> THEN NoRequest ELSE [step |-> "read", todo |-> todo, req |-> r]

Stamping(r) == [step |-> "stamp", req |-> r, sessions |-> <<>>]

Admit(h, r) ==
    /\ handler[h] = NoRequest /\ unsent[r] > 0
    /\ unsent' = [unsent EXCEPT ![r] = @ - 1]

\* A guest's signals are accepted and dropped.
DropGuest(h, r) ==
    /\ Admit(h, r) /\ r.guest
    /\ UNCHANGED <<handler, listen, tables, faults, folded, submitted, severed>>

Submit(h, r) ==
    /\ Admit(h, r) /\ ~r.guest /\ r.kind = "events"
    /\ Proceeds(h, Stamping(r))
    /\ UNCHANGED <<listen, tables, faults, folded, submitted, severed>>

\* record_submission merges by MAX.
HistoryMerged(t, at) ==
    (t :> IF t \in DOMAIN history THEN Max({history[t], at}) ELSE at) @@ history

\* The recency clock is written first, and a failure only logged.
Scrobble(h, r) ==
    /\ Admit(h, r) /\ ~r.guest /\ r.kind = "scrobble"
    /\ LET e == r.batch[1] IN
       \/ /\ history' = HistoryMerged(e.track, e.at)
          /\ submitted' = submitted \cup {<<e.track, e.at>>}
          /\ Writes(h, Stamping(r))
          /\ UNCHANGED faults
       \/ /\ faults > 0 /\ faults' = faults - 1
          /\ Proceeds(h, Stamping(r))
          /\ UNCHANGED <<history, submitted>>
    /\ UNCHANGED <<listen, events, votes, affinity, rating, folded, severed>>

\* The next event of a batch is stamped with the session it belongs to, under
\* the mutex; others' events may be stamped, or logged, in between.
StampNext(h) ==
    LET now == handler[h]
        e == now.req.batch[Len(now.sessions) + 1]
        last == Len(now.sessions) + 1 = Len(now.req.batch)
        Joins(cur) ==
            LET next == Advance(cur, e.at - e.heard, e.at) IN
            /\ listen' = next
            /\ Proceeds(h, [now EXCEPT !.step = IF last THEN "append" ELSE "stamp",
                                      !.sessions = Append(@, next.id)]) IN
    /\ now.step = "stamp"
    /\ \/ Joins(Resumed) /\ UNCHANGED <<faults, severed>>
       \/ /\ listen = Nothing /\ faults > 0   \* the log cannot be asked: a fresh session
          /\ faults' = faults - 1 /\ severed' = TRUE
          /\ Joins(Nothing)
    /\ UNCHANGED <<unsent, tables, folded, submitted>>

Logged(id) == id # NoId /\ \E i \in DOMAIN events : events[i].event.id = id

\* Mutant: every event of a batch is folded, resent ones included.
FreshAll(batch) == DOMAIN batch

\* append_keyed: an id already on record, or earlier in the batch, is skipped.
FreshIn(batch) ==
    {i \in DOMAIN batch : /\ ~Logged(batch[i].id)
                          /\ \A j \in 1..(i - 1) : batch[i].id = NoId \/ batch[j].id # batch[i].id}

NewIn(batch) == {i \in FreshIn(batch) : ~Logged(batch[i].id)}

\* fold_skip_affinity: only a skip with a position, of a track of known length.
Foldable(e) == e.type = "skip" /\ e.completion # Nothing /\ e.track \in Measured
SkipFolds(batch, S) ==
    LET skips == AtPlaces(batch, {i \in S : Foldable(batch[i])})
    IN  [k \in DOMAIN skips |-> Fold("skip", skips[k].track, skips[k].at, skips[k].completion, skips[k].id)]

PlayFold(e) == Fold("scrobble", e.track, e.at, 2, NoId)

\* The rows a batch would add to the log, one for each event.
LogRows(batch, sessions) == [i \in DOMAIN batch |-> [event |-> batch[i], session |-> sessions[i]]]

\* The batch is logged in one transaction, all or nothing.
AppendBatch(h) ==
    LET req == handler[h].req
        batch == req.batch IN
    /\ handler[h].step = "append"
    /\ events' = events \o AtPlaces(LogRows(batch, handler[h].sessions), NewIn(batch))
    /\ Writes(h, Folding(IF req.kind = "scrobble" THEN <<PlayFold(batch[1])>>
                         ELSE SkipFolds(batch, FreshIn(batch)), req))
    /\ UNCHANGED <<unsent, listen, history, votes, affinity, rating, faults, folded,
                   submitted, severed>>

\* A failed append: 500 to the events client, a warning to the scrobbler.
AppendFails(h) ==
    LET req == handler[h].req IN
    /\ handler[h].step = "append" /\ faults > 0
    /\ faults' = faults - 1
    /\ severed' = TRUE
    /\ Proceeds(h, IF req.kind = "scrobble" THEN Folding(<<PlayFold(req.batch[1])>>, req) ELSE NoRequest)
    /\ UNCHANGED <<unsent, listen, tables, folded, submitted>>

\* FeedbackStore::record and clear: one row for a track in a session, whoever votes.
Voted(key, dir) ==
    IF dir = "none" THEN [k \in DOMAIN votes \ {key} |-> votes[k]] ELSE (key :> dir) @@ votes

\* POST /v1/recommend/feedback: a vote upserts its row, no vote deletes it.
Vote(h, r) ==
    /\ Admit(h, r) /\ ~r.guest /\ r.kind = "vote"
    /\ votes' = Voted(<<r.track, r.session>>, r.dir)
    /\ Writes(h, Folding(IF r.dir = "none" THEN <<>>
                         ELSE <<Fold(r.dir, r.track, r.at, 2, NoId)>>, r))
    /\ UNCHANGED <<listen, events, history, affinity, rating, faults, folded,
                   submitted, severed>>

\* apply_event reads the row in a deferred transaction ...
FoldRead(h) ==
    /\ handler[h].step = "read"
    /\ LET f == Head(handler[h].todo) IN
       Proceeds(h, [step |-> "write", todo |-> handler[h].todo, req |-> handler[h].req, stale |-> FALSE,
                row |-> IF f.track \in DOMAIN affinity THEN affinity[f.track] ELSE Nothing])
    /\ UNCHANGED <<unsent, listen, tables, faults, folded, submitted, severed>>

\* A store error: the fold is logged as lost, and the next event's turn comes.
FoldFails(h) ==
    /\ handler[h].step \in {"read", "write"} /\ faults > 0
    /\ faults' = faults - 1
    /\ Proceeds(h, Folding(Tail(handler[h].todo), handler[h].req))
    /\ UNCHANGED <<unsent, listen, tables, folded, submitted, severed>>

\* ... and writes it back, which SQLite refuses when anyone wrote in between:
\* the callers log the error and go on to the next event.
FoldWrite(h) ==
    LET now == handler[h]
        f == Head(now.todo)
        after == Folding(Tail(now.todo), now.req) IN
    /\ now.step = "write"
    /\ \/ /\ ~now.stale
          /\ affinity' = (f.track :> Applied(now.row, f)) @@ affinity
          /\ folded' = folded \cup {[f |-> f, req |-> now.req, nth |-> Cardinality(folded)]}
          /\ Writes(h, after)
       \/ /\ now.stale
          /\ Proceeds(h, after)
          /\ UNCHANGED <<affinity, folded>>
    /\ UNCHANGED <<unsent, listen, events, history, votes, rating, faults, submitted, severed>>

\* RatingStore::set and clear.
Rated(entity, verdict) ==
    IF verdict = "none" THEN [e \in DOMAIN rating \ {entity} |-> rating[e]]
    ELSE (entity :> verdict) @@ rating

\* PUT /v1/library/rating: the verdict is upserted, or its row deleted.
Rate(entity, verdict) ==
    /\ rating' = Rated(entity, verdict)
    /\ Outdated
    /\ UNCHANGED <<unsent, listen, events, history, votes, affinity, faults, folded,
                   submitted, severed>>

\* The gateway restarts: what was under way and the open session are gone.
Restart ==
    /\ faults > 0 /\ faults' = faults - 1
    /\ handler' = [h \in Handlers |-> NoRequest]
    /\ listen' = Nothing
    /\ UNCHANGED <<unsent, tables, folded, submitted, severed>>

TasteNext ==
    \/ \E h \in Handlers, r \in Signals :
          DropGuest(h, r) \/ Submit(h, r) \/ Scrobble(h, r) \/ Vote(h, r)
    \/ \E h \in Handlers :
          StampNext(h) \/ AppendBatch(h) \/ AppendFails(h) \/ FoldRead(h) \/ FoldFails(h) \/ FoldWrite(h)
    \/ Restart

-----------------------------------------------------------------------------
\* However late and in whatever order signals come (offline batches, resends),
\* a counter is the sum of what was folded into it, each weight aged from its
\* own time to the newest one, and the recency clock is the newest play.
LateSignalsAgeRight ==
    /\ \A t \in DOMAIN affinity :
          LET mine == {x \in folded : x.f.track = t} IN
          /\ affinity[t].updated = Max({x.f.at : x \in mine})
          /\ affinity[t].score =
                MapThenSumSet(LAMBDA x : Decay(x.f.weight, affinity[t].updated - x.f.at), mine)
    /\ \A t \in DOMAIN history : history[t] = Max({s[2] : s \in {s \in submitted : s[1] = t}})

\* A batch sent again because its answer was lost moves no counter twice: an
\* event with a client id is logged once and folded at most once.
ResendsCountOnce ==
    /\ \A i, j \in DOMAIN events :
          events[i].event.id = events[j].event.id => i = j \/ events[i].event.id = NoId
    /\ \A x, y \in folded : x.f.tag = y.f.tag => x = y \/ x.f.tag = NoId

\* The places of a request's events that are stamped and not logged yet.
Unlogged(x) == IF x.step \in {"stamp", "append"} THEN DOMAIN x.sessions ELSE {}

\* A restart between two events does not split a listening session: the session
\* the log would resume is the one in memory, unless an event is on its way to
\* the log or something of it was lost.
RestartKeepsSession ==
    (/\ listen # Nothing /\ ~severed
     /\ \A h \in Handlers : Unlogged(handler[h]) = {}) => LastListenSession = listen

=============================================================================
