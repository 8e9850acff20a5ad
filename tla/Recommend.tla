----------------------------- MODULE Recommend -----------------------------
(***************************************************************************)
(* The recommendation handlers of the gateway: /v1/recommend/next, station, *)
(* from-seeds (the autoplay refill), from-any, similar-albums and           *)
(* similar-artists.  A request reads what must not be offered, one lookup   *)
(* after another, ranks, logs what it serves and answers; other requests,   *)
(* votes, ratings and plays run in between.  A lookup that fails leaves its *)
(* exclusion out of this answer, and a seed whose vector cannot be read is  *)
(* a seed without one.                                                      *)
(*                                                                          *)
(* The bonuses (likes, liked albums and artists, affinity) are read in one  *)
(* step with the ranking: they only order the slate.                        *)
(***************************************************************************)
EXTENDS Taste, Ranking

CONSTANTS
    Callers,        \* recommendation requests that may be under way at once
    Jitters,        \* what the exploration may draw: track -> noise
    Temperature,    \* explore_temperature
    Cooldown,       \* served_cooldown_hours
    PlayedWindow,   \* recently_played_exclude_hours
    PrefWeight,     \* preference weight; 0 when the feature is off
    MaxNow

VARIABLES
    ask,            \* what each request under way is about to do
    wanted,         \* requests clients have yet to make
    served,         \* recommendation log: kind, tracks and time of each answer
    provenance,     \* log_provenance, read at boot
    now             \* the gateway's clock

recVars == <<ask, wanted, served, provenance, now>>

RecommendInit(requests, logging) ==
    /\ ask = [c \in Callers |-> NoRequest]
    /\ wanted = requests /\ provenance = logging
    /\ served = {}
    /\ now = 1

-----------------------------------------------------------------------------
(* What must not be offered *)

\* The exclusions a request brings along.
OwnExclusions(q) ==
    CASE q.kind = "next" -> {q.seeds[1]}
      [] q.kind = "station" -> {}
      [] q.kind = "from_seeds" -> ToSet(q.seeds) \cup q.exclude
                                      \cup (ToSet(q.qc.queue) \ {q.qc.playing})
      [] q.kind = "from_any" -> ToSet(q.qc.queue) \ {q.qc.playing}
      [] q.kind = "similar" -> ToSet(q.seeds)

Disliked(kind) == {e[2] : e \in {e \in DOMAIN rating : e[1] = kind /\ rating[e] = "dislike"}}

\* expand_disliked_parents: the cached tracks of the disliked albums or artists.
TracksUnder(kind, parents) ==
    {t \in DOMAIN Meta : (IF kind = "album" THEN Meta[t].album ELSE Meta[t].artistId) \in parents}

DownvotedIn(session) == {k[1] : k \in {k \in DOMAIN votes : k[2] = session /\ votes[k] = "down"}}

PlayedSince(t) == {x \in DOMAIN history : history[x] >= t}

\* Mutant: the cooldown only looks at what earlier refills served.
ServedByRefills(log, t) ==
    UNION {r.tracks : r \in {r \in log : r.at >= t /\ r.kind = "from_seeds"}}

\* served_since: the answers that offered tracks.
ServedSince(log, t) ==
    UNION {r.tracks : r \in {r \in log : r.at >= t /\ r.kind # "similar"}}

\* The lookups of a request, in the order of its handler.
Lookups(q) ==
    (IF q.kind \in {"from_seeds", "from_any"} /\ q.session # Nothing THEN <<"votes">> ELSE <<>>)
    \o <<"track", "album", "artist">>
    \o (IF q.kind = "from_seeds" THEN <<"played">> ELSE <<>>)
    \o (IF q.kind = "from_seeds" /\ provenance THEN <<"served">> ELSE <<>>)

Found(what, q) ==
    CASE what = "votes" -> DownvotedIn(q.session)
      [] what = "track" -> Disliked("track")
      [] what \in {"album", "artist"} -> TracksUnder(what, Disliked(what))
      [] what = "played" -> PlayedSince(now - PlayedWindow)
      [] what = "served" -> ServedSince(served, now - Cooldown)

-----------------------------------------------------------------------------
(* The slate *)

LikedIds(kind) == {e[2] : e \in {e \in DOMAIN rating : e[1] = kind /\ rating[e] = "like"}}

Liked == [kind \in {"track", "album", "artist"} |-> LikedIds(kind)]

\* affinity_at, tanh for a bounded step: at most one unit of weight either way.
AffinityAt(row) ==
    LET s == Decay(row.score, now - row.updated)
    IN  IF s >= 32 THEN 1 ELSE IF s <= -32 THEN -1 ELSE 0

Preference == [t \in DOMAIN affinity |-> PrefWeight * AffinityAt(affinity[t])]

BonusesFor(pool, cached, scale) ==
    [t \in TracksOf(pool) |-> Bonus(t, Liked, Preference, cached, scale)]

\* How many results a request gets at most; from-seeds reads 0 as 1.
Wanted(q) == IF q.kind = "from_seeds" THEN Clamp(q.n, 1, MaxN) ELSE Min({q.n, MaxN})

\* The slate of a pool: filtered against the queue the client sent, if any.
Diverse(q, pool, cached, scale) ==
    IF q.qc.given THEN Filtered(pool, q.qc, BonusesFor(pool, cached, scale), cached, Wanted(q)).out
    ELSE pool

\* With a queue to filter against, the pool is over-fetched.
PoolSize(q) == IF q.qc.given THEN Min({Wanted(q) * FilterBuffer, MaxN}) ELSE Wanted(q)

\* next: over-fetch, re-rank by taste, cut.
NextSlate(q, exclude, cached) ==
    LET pool == Search(Near[q.seeds[1]], Wanted(q) * MmrBuffer, exclude)
    IN  Truncate(Presorted(pool, BonusesFor(pool, cached, 1)), Wanted(q))

StationSlate(q, exclude) == Search(q.text, Wanted(q), exclude)

\* from-any: the first candidate whose vector is found is the seed.
FirstIndexed(q, unread) ==
    LET known == {i \in DOMAIN q.seeds : Indexed(q.seeds[i]) /\ i \notin unread}
    IN  IF known = {} THEN Nothing ELSE q.seeds[Min(known)]

FromAnyPool(q, seed, exclude) == Search(Near[seed], PoolSize(q), exclude \cup {seed})

\* sample_indices: any indices of the sample's size.
Samples(q) == kSubset(Clamp(q.sample, 1, Len(q.seeds)), DOMAIN q.seeds)

SeedHits(q, sample, exclude) ==
    [i \in {i \in sample : Indexed(q.seeds[i])} |->
        Search(Near[q.seeds[i]], Clamp(q.perSeed, 1, MaxN), exclude)]

WeightsOf(q, sample) ==
    [i \in {i \in sample : Indexed(q.seeds[i])} |-> q.weights[i]]

\* from-seeds: query each seed, add up without the exclusions, leash.
LeashedPool(q, sample, exclude) ==
    AnchorLeash(Aggregate(SeedHits(q, sample, {}), WeightsOf(q, sample), exclude, PoolSize(q)),
                q.anchors, q.tau, q.lambda)

\* similar-albums, similar-artists
AllHits(q, sample, exclude) ==
    LET hits == SeedHits(q, sample, exclude)
    IN  FoldLeft(LAMBDA acc, i : acc \o hits[i], <<>>,
                 SortedBy(DOMAIN hits, LAMBDA i, j : i < j))

-----------------------------------------------------------------------------
(* The handlers *)

Admissible(q) ==
    /\ q.n >= 1 \/ q.kind = "from_seeds"
    /\ q.kind # "station" => Len(q.seeds) >= 1
    /\ q.kind = "from_seeds" => Len(q.weights) = Len(q.seeds)
    /\ q.kind = "next" => Indexed(q.seeds[1])

\* A request that was refused (400, 404, 503) changes nothing.
Arrive(c, q) ==
    /\ ask[c] = NoRequest /\ q \in wanted
    /\ Admissible(q)
    /\ wanted' = wanted \ {q}
    /\ ask' = [ask EXCEPT ![c] =
          [step |-> "lookup", todo |-> Lookups(q), q |-> q, exclude |-> OwnExclusions(q),
           failed |-> FALSE, unread |-> {},
           disliked |-> {e \in DOMAIN rating : rating[e] = "dislike"},
           downvoted |-> {k \in DOMAIN votes : votes[k] = "down"},
           played |-> DOMAIN history, log |-> served]]
    /\ UNCHANGED <<tasteVars, served, provenance, now>>

\* The next lookup answers, or fails and is left out.
Lookup(c) ==
    LET a == ask[c] IN
    /\ a.step = "lookup" /\ a.todo # <<>>
    /\ \/ /\ ask' = [ask EXCEPT ![c].todo = Tail(@),
                                ![c].exclude = @ \cup Found(Head(a.todo), a.q)]
          /\ UNCHANGED faults
       \/ /\ faults > 0 /\ faults' = faults - 1
          /\ ask' = [ask EXCEPT ![c].todo = Tail(@), ![c].failed = TRUE]
    /\ UNCHANGED <<unsent, handler, listen, tables, folded, submitted, severed,
                   wanted, served, provenance, now>>

\* lookup_seed_vector: the store fails to read the vector of a seed, and the
\* answer goes on without it.  next, which has one seed and reads it before it
\* looks anything up, is a 404.
SeedUnread(c) ==
    LET a == ask[c] IN
    /\ a.step = "lookup" /\ faults > 0 /\ faults' = faults - 1
    /\ \/ /\ a.q.kind = "next" /\ a.todo = Lookups(a.q)
          /\ ask' = [ask EXCEPT ![c] = NoRequest]
       \/ /\ a.q.kind \in {"from_seeds", "from_any", "similar"} /\ a.todo = <<>>
          /\ \E i \in DOMAIN a.q.seeds \ a.unread :
                /\ Indexed(a.q.seeds[i])
                /\ ask' = [ask EXCEPT ![c].unread = @ \cup {i}]
    /\ UNCHANGED <<unsent, handler, listen, tables, folded, submitted, severed,
                   wanted, served, provenance, now>>

\* The slate is decided: shown are the tracks it offers or rests on.
Decides(c, slate, shown, how) ==
    ask' = [ask EXCEPT ![c] = [step |-> "record", q |-> @.q, exclude |-> @.exclude,
                               failed |-> @.failed, unread |-> @.unread,
                               disliked |-> @.disliked, downvoted |-> @.downvoted, played |-> @.played,
                               log |-> @.log, slate |-> slate, shown |-> shown, how |-> how]]

Ready(c, kind) == ask[c].step = "lookup" /\ ask[c].todo = <<>> /\ ask[c].q.kind = kind

\* The metadata lookup answers, or fails and counts as an empty cache.
Cached(ok) ==
    \/ ok /\ UNCHANGED faults
    \/ ~ok /\ faults > 0 /\ faults' = faults - 1

Ranks(c, ok) ==
    /\ Cached(ok)
    /\ UNCHANGED <<unsent, handler, listen, tables, folded, submitted, severed,
                   wanted, served, provenance, now>>

How(pool, cached, scale) ==
    [pool |-> pool, cached |-> cached, bonus |-> BonusesFor(pool, cached, scale)]

RankNext(c, ok) ==
    /\ Ready(c, "next")
    /\ LET slate == NextSlate(ask[c].q, ask[c].exclude, ok)
       IN  Decides(c, slate, TracksOf(slate), How(<<>>, ok, 1))
    /\ Ranks(c, ok)

RankStation(c) ==
    /\ Ready(c, "station")
    /\ LET slate == StationSlate(ask[c].q, ask[c].exclude)
       IN  Decides(c, slate, TracksOf(slate), How(<<>>, TRUE, 1))
    /\ Ranks(c, TRUE)

\* The sidecar cannot embed the text: 502, before anything is looked up.
EmbedderFails(c) ==
    /\ ask[c].step = "lookup" /\ ask[c].q.kind = "station" /\ ask[c].todo = Lookups(ask[c].q)
    /\ ask' = [ask EXCEPT ![c] = NoRequest]
    /\ Ranks(c, FALSE)

RankFromSeeds(c, ok, sample) ==
    LET a == ask[c]
        q == a.q
        leashed == LeashedPool(q, sample, a.exclude)
        scale == SeedWeightTotal(WeightsOf(q, sample)) IN
    /\ Ready(c, "from_seeds")
    /\ \E noise \in Jitters :
          LET pool == Explored(leashed, noise, Temperature)
              slate == Diverse(q, pool, ok, scale)
          IN  Decides(c, slate, TracksOf(slate), How(pool, ok, scale))
    /\ Ranks(c, ok)

RankFromAny(c, ok) ==
    LET q == ask[c].q
        seed == FirstIndexed(q, ask[c].unread)
        pool == FromAnyPool(q, seed, ask[c].exclude)
        slate == Diverse(q, pool, ok, 1) IN
    /\ Ready(c, "from_any") /\ seed # Nothing
    /\ Decides(c, slate, TracksOf(slate), How(pool, ok, 1))
    /\ Ranks(c, ok)

\* No candidate has a vector: 404, and nothing is logged.
NoSeed(c) ==
    /\ Ready(c, "from_any") /\ FirstIndexed(ask[c].q, ask[c].unread) = Nothing
    /\ ask' = [ask EXCEPT ![c] = NoRequest]
    /\ Ranks(c, TRUE)

RankSimilar(c, ok, sample) ==
    LET q == ask[c].q
        hits == AllHits(q, sample, ask[c].exclude) IN
    /\ Ready(c, "similar")
    /\ Decides(c, Grouped(hits, q.field, q.exclude, ok, Wanted(q)), TracksOf(hits), How(<<>>, ok, 1))
    /\ Ranks(c, ok)

\* What the log keeps of an answer.
LogRow(a) == [kind |-> a.q.kind, tracks |-> TracksOf(a.slate), at |-> now]

\* RecommendationLogStore::record: the call and its items in one transaction.
Recorded(row) == served \cup {row}

\* record_provenance: with the log switched on, and a failure only logged; then the
\* answer.
Record(c) ==
    LET a == ask[c] IN
    /\ a.step = "record"
    /\ ask' = [ask EXCEPT ![c] = NoRequest]
    /\ \/ /\ provenance
          /\ served' = Recorded(LogRow(a))
          /\ Outdated
          /\ UNCHANGED faults
       \/ /\ provenance /\ faults > 0 /\ faults' = faults - 1
          /\ UNCHANGED <<served, handler>>
       \/ /\ ~provenance
          /\ UNCHANGED <<served, handler, faults>>
    /\ UNCHANGED <<unsent, listen, tables, folded, submitted, severed, wanted, provenance, now>>

\* What stands against each request under way after a vote or a rating.
Watch ==
    ask' = [c \in Callers |->
        IF ask[c] = NoRequest THEN NoRequest
        ELSE [ask[c] EXCEPT
                !.disliked = {e \in @ : e \in DOMAIN rating' /\ rating'[e] = "dislike"},
                !.downvoted = {k \in @ : k \in DOMAIN votes' /\ votes'[k] = "down"}]]

Tick == now < MaxNow /\ now' = now + 1 /\ UNCHANGED <<tasteVars, ask, wanted, served, provenance>>

RecommendNext ==
    \/ \E c \in Callers :
          \/ \E q \in wanted : Arrive(c, q)
          \/ Lookup(c) \/ RankStation(c) \/ EmbedderFails(c) \/ SeedUnread(c) \/ NoSeed(c) \/ Record(c)
          \/ \E ok \in BOOLEAN : RankNext(c, ok) \/ RankFromAny(c, ok)
          \/ \E ok \in BOOLEAN : Ready(c, "from_seeds") /\ \E s \in Samples(ask[c].q) : RankFromSeeds(c, ok, s \ ask[c].unread)
          \/ \E ok \in BOOLEAN : Ready(c, "similar") /\ \E s \in Samples(ask[c].q) : RankSimilar(c, ok, s \ ask[c].unread)
    \/ Tick

-----------------------------------------------------------------------------
Deciding == {c \in Callers : ask[c].step = "record"}

\* What stood against a request from its arrival to its answer.
Standing(a) ==
    OwnExclusions(a.q)
    \cup {e[2] : e \in {e \in a.disliked : e[1] = "track"}}
    \cup TracksUnder("album", {e[2] : e \in {e \in a.disliked : e[1] = "album"}})
    \cup TracksUnder("artist", {e[2] : e \in {e \in a.disliked : e[1] = "artist"}})
    \cup (IF a.q.kind \in {"from_seeds", "from_any"}
          THEN {k[1] : k \in {k \in a.downvoted : k[2] = a.q.session}} ELSE {})
    \cup (IF a.q.kind = "from_any" THEN {FirstIndexed(a.q, a.unread)} ELSE {})
    \cup (IF a.q.kind = "from_seeds"
          THEN {t \in a.played : history[t] >= now - PlayedWindow} ELSE {})
    \cup (IF a.q.kind = "from_seeds" /\ provenance
          THEN UNION {r.tracks : r \in {r \in a.log : r.kind # "similar" /\ r.at >= now - Cooldown}}
          ELSE {})

\* A slate never offers (and a similar album never rests on) a track that stood
\* against the request all along: disliked itself or by its album or artist,
\* downvoted in the session, queued, a seed, and for a refill played or served
\* within the windows - unless a lookup failed.  What lands after the request
\* arrived may or may not be seen by its lookups, and binds the next request.
SlateClean ==
    \A c \in Deciding : ~ask[c].failed => ask[c].shown \cap Standing(ask[c]) = {}

\* Queue and slate together keep the artist cap and repeat no title of an artist,
\* in both diversity modes, as far as the metadata is known.
QueueRules ==
    \A c \in Deciding :
        LET a == ask[c]
            qc == a.q.qc
            out == [i \in DOMAIN a.slate |-> a.slate[i].track]
            all == SelectSeq(qc.queue \o out, LAMBDA t : t \in DOMAIN Meta)
            Key(i) == ArtistKey(Meta[all[i]])
            old == Len(SelectSeq(qc.queue, LAMBDA t : t \in DOMAIN Meta)) IN
        (a.q.kind \in {"from_seeds", "from_any"} /\ qc.given /\ a.how.cached
            /\ qc.cfg.mode # "off") =>
            /\ qc.cfg.cap > 0 => \A i \in (old + 1)..Len(all) :
                  Cardinality({j \in 1..i : Key(j) = Key(i)}) <= qc.cfg.cap
            /\ qc.cfg.dedup => \A i \in (old + 1)..Len(all), j \in DOMAIN all :
                  TitleKey(Meta[all[i]]) = TitleKey(Meta[all[j]]) => i = j

\* Every pick of the diversity re-rank is the first best candidate that remained,
\* by the formula computed afresh from the picks so far, with the similarity to
\* them never below 0.
MmrGreedy ==
    \A c \in Deciding :
        LET a == ask[c]
            qc == a.q.qc
            f == BuildFilter(qc.queue, qc.playing, a.how.cached, qc.cfg)
            pool == Unqueued(a.how.pool, f)
            order == MmrOrder(pool, a.how.bonus, f.counts, a.how.cached, qc.cfg, Wanted(a.q) * MmrBuffer)
            Same(i, j) == /\ HasMeta(a.how.cached, pool[i].track) /\ HasMeta(a.how.cached, pool[j].track)
                          /\ ArtistKey(Meta[pool[i].track]) = ArtistKey(Meta[pool[j].track])
            Repeats(i, picks) ==
                IF ~HasMeta(a.how.cached, pool[i].track) THEN 0
                ELSE Count(f.counts, ArtistKey(Meta[pool[i].track]))
                     + Cardinality({j \in picks : Same(i, j)})
            Worth(i, picks) ==
                LET rel == pool[i].score + a.how.bonus[pool[i].track]
                    near == Max({0} \cup {Near[pool[i].track][pool[j].track] : j \in picks})
                    lambda == qc.cfg.lambda IN
                IF picks = {} THEN 10 * (rel - qc.cfg.mu * Repeats(i, {}))
                ELSE lambda * rel - (10 - lambda) * near - 10 * qc.cfg.mu * Repeats(i, picks) IN
        (a.q.kind \in {"from_seeds", "from_any"} /\ qc.given /\ qc.cfg.mode = "mmr") =>
            \A k \in DOMAIN order :
                LET picks == {order[j] : j \in 1..(k - 1)} IN
                \A i \in DOMAIN pool \ picks :
                    \/ Worth(order[k], picks) > Worth(i, picks)
                    \/ Worth(order[k], picks) = Worth(i, picks) /\ order[k] <= i
=============================================================================
