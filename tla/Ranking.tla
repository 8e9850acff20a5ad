------------------------------ MODULE Ranking ------------------------------
(***************************************************************************)
(* How a recommendation is computed from the vectors of the library: the    *)
(* nearest-neighbour search, the weighted sum over several seeds, the       *)
(* anchor leash, the exploration jitter, the taste bonuses, and the walks   *)
(* that keep a slate diverse against the listener's queue.                  *)
(*                                                                          *)
(* Similarities and scores are integers in tenths, track ids are integers   *)
(* in the order of their strings.  The index is exact: usearch is           *)
(* approximate, and what it misses is outside this model.                   *)
(***************************************************************************)
EXTENDS Integers, SequencesExt

CONSTANTS
    Embedded,       \* tracks with a vector
    Near,           \* track -> track -> cosine of their vectors
    Meta,           \* metadata cache: track -> [artistId, artist, album, title]
    None,           \* an absent artist or album id
    EditionKeywords, \* EDITION_KEYWORDS, as far as titles here use them
    LikeBonus, AlbumBonus, ArtistBonus,     \* taste bonuses, cosine scale
    MaxN, FilterBuffer, MmrBuffer           \* MAX_N and the two over-fetch factors

Candidate(t, score, hits) == [track |-> t, score |-> score, hits |-> hits]
TracksOf(pool) == {pool[i].track : i \in DOMAIN pool}
Truncate(s, n) == SubSeq(s, 1, Min({n, Len(s)}))
Clamp(x, low, high) == Max({low, Min({x, high})})

\* The members of S in the strict total order Before.
SortedBy(S, Before(_, _)) ==
    [i \in 1..Cardinality(S) |->
        CHOOSE x \in S : Cardinality({y \in S : Before(y, x)}) = i - 1]

\* sort_by of a sequence, best key first; equal keys keep their order.
StableByKey(pool, Key(_)) ==
    LET order == SortedBy(DOMAIN pool, LAMBDA i, j :
                     \/ Key(pool[i]) > Key(pool[j])
                     \/ Key(pool[i]) = Key(pool[j]) /\ i < j)
    IN  [i \in DOMAIN pool |-> pool[order[i]]]

\* Best score first, then more seeds, then the smaller id.
ByScore(S) ==
    SortedBy(S, LAMBDA a, b :
        \/ a.score > b.score
        \/ a.score = b.score /\ a.hits > b.hits
        \/ a.score = b.score /\ a.hits = b.hits /\ a.track < b.track)

-----------------------------------------------------------------------------
(* The index *)

\* search_whitened: over-fetch by the exclusions, drop them, stop at k.
Search(sim, k, exclude) ==
    LET all == ByScore({Candidate(t, sim[t], 1) : t \in Embedded})
        fetched == Truncate(all, k + Cardinality(exclude))
    IN  Truncate(SelectSeq(fetched, LAMBDA c : c.track \notin exclude), k)

\* lookup_seed_vector
Indexed(seed) == seed \in Embedded

-----------------------------------------------------------------------------
(* Several seeds *)

\* hits[i]: what seed i's query found, weights[i] its weight (below 0 is 0).
Aggregate(hits, weights, exclude, n) ==
    LET W(i) == Max({weights[i], 0})
        Hit(i, t) == t \in TracksOf(hits[i])
        live == {i \in DOMAIN hits : W(i) > 0}
        found == UNION {TracksOf(hits[i]) : i \in live} \ exclude
        Sim(i, t) == (CHOOSE c \in ToSet(hits[i]) : c.track = t).score
        Total(t) == LET by == {i \in live : Hit(i, t)} IN
            Candidate(t, MapThenSumSet(LAMBDA i : W(i) * Sim(i, t), by), Cardinality(by))
    IN  Truncate(ByScore({Total(t) : t \in found}), n)

\* What a cosine bonus is worth on a score that sums over the seeds.
SeedWeightTotal(weights) == Max({1, MapThenSumSet(LAMBDA i : weights[i], DOMAIN weights)})

\* lambda * max(0, tau - nearest anchor)^2, the anchors without a vector dropped.
LeashPenalty(t, anchors, tau, lambda) ==
    LET nearest == Max({Near[t][a] : a \in anchors})
        gap == Max({0, tau - nearest})
    IN  (lambda * gap * gap) \div 10

Leashed(c, anchors, tau, lambda) == [c EXCEPT !.score = @ - LeashPenalty(c.track, anchors, tau, lambda)]

AnchorLeash(pool, anchors, tau, lambda) ==
    LET known == anchors \cap Embedded IN
    IF known = {} \/ lambda <= 0 \/ tau <= -10 THEN pool
    ELSE ByScore({Leashed(c, known, tau, lambda) : c \in ToSet(pool)})

\* perturb_scores with the noise drawn for each candidate, then sorted again.
Perturbed(c, noise, temperature) == [c EXCEPT !.score = @ + temperature * noise[c.track]]

Explored(pool, noise, temperature) ==
    IF temperature <= 0 \/ Len(pool) < 2 THEN pool
    ELSE ByScore({Perturbed(c, noise, temperature) : c \in ToSet(pool)})

-----------------------------------------------------------------------------
(* Taste bonuses *)

HasMeta(cached, t) == cached /\ t \in DOMAIN Meta

\* affinity_bonuses: like, liked album, liked artist and affinity add up.
\* cached: the metadata lookup answered.
Bonus(t, liked, preference, cached, scale) ==
    scale * ( (IF t \in liked.track THEN LikeBonus ELSE 0)
            + (IF HasMeta(cached, t) /\ Meta[t].album \in liked.album THEN AlbumBonus ELSE 0)
            + (IF HasMeta(cached, t) /\ Meta[t].artistId \in liked.artist THEN ArtistBonus ELSE 0)
            + (IF t \in DOMAIN preference THEN preference[t] ELSE 0))

\* presort_by_preference, rescore_ann_by_preference
Presorted(pool, bonus) == StableByKey(pool, LAMBDA c : c.score + bonus[c.track])

-----------------------------------------------------------------------------
(* The queue filter *)

ArtistKey(m) == IF m.artistId # None THEN <<"id", m.artistId>> ELSE <<"name", m.artist>>
\* normalize_title: a title is a name and its parenthesised parts; the trailing ones
\* that name an edition (live, remastered...) go, and nothing before another part.
NormalizeTitle(title) ==
    LET keep == {i \in DOMAIN title.parts : title.parts[i] \notin EditionKeywords}
    IN  <<title.name, SubSeq(title.parts, 1, Max({0} \cup keep))>>
TitleKey(m) == <<ArtistKey(m), NormalizeTitle(m.title)>>

Count(counts, k) == IF k \in DOMAIN counts THEN counts[k] ELSE 0
Bump(counts, k) == [x \in DOMAIN counts \cup {k} |-> Count(counts, x) + IF x = k THEN 1 ELSE 0]

\* QueueFilter::build: the queue counts as a whole; what plays is not excluded.
BuildFilter(queue, playing, cached, cfg) ==
    LET known == {i \in DOMAIN queue : HasMeta(cached, queue[i])}
        keys == {ArtistKey(Meta[queue[i]]) : i \in known}
    IN  [excluded |-> ToSet(queue) \ {playing},
         counts |-> [k \in keys |-> Cardinality({i \in known : ArtistKey(Meta[queue[i]]) = k})],
         titles |-> IF cfg.dedup THEN {TitleKey(Meta[queue[i]]) : i \in known} ELSE {}]

\* Mutant: an admitted candidate is not counted against its artist.
DecideForgetting(f, t, cached, cfg) ==
    LET m == Meta[t] IN
    IF ~HasMeta(cached, t) THEN [verdict |-> "accept", filter |-> f]
    ELSE IF cfg.cap > 0 /\ Count(f.counts, ArtistKey(m)) >= cfg.cap
         THEN [verdict |-> "artist", filter |-> f]
    ELSE IF cfg.dedup /\ TitleKey(m) \in f.titles THEN [verdict |-> "dedup", filter |-> f]
    ELSE [verdict |-> "accept",
          filter |-> [f EXCEPT !.titles = IF cfg.dedup THEN @ \cup {TitleKey(m)} ELSE @]]

\* try_accept: the artist cap, then the title; without metadata it passes.
Decide(f, t, cached, cfg) ==
    LET m == Meta[t] IN
    IF ~HasMeta(cached, t) THEN [verdict |-> "accept", filter |-> f]
    ELSE IF cfg.cap > 0 /\ Count(f.counts, ArtistKey(m)) >= cfg.cap
         THEN [verdict |-> "artist", filter |-> f]
    ELSE IF cfg.dedup /\ TitleKey(m) \in f.titles THEN [verdict |-> "dedup", filter |-> f]
    ELSE [verdict |-> "accept",
          filter |-> [f EXCEPT !.counts = Bump(@, ArtistKey(m)),
                               !.titles = IF cfg.dedup THEN @ \cup {TitleKey(m)} ELSE @]]

-----------------------------------------------------------------------------
(* The walks *)

NewWalk(f) == [out |-> <<>>, filter |-> f, artist |-> 0, dedup |-> 0]

\* One candidate of a walk: the slate is full, it is admitted, or it is dropped.
Walked(w, c, cached, cfg, n) ==
    LET d == Decide(w.filter, c.track, cached, cfg) IN
    IF Len(w.out) >= n THEN w
    ELSE CASE d.verdict = "accept" -> [w EXCEPT !.out = Append(@, c), !.filter = d.filter]
           [] d.verdict = "artist" -> [w EXCEPT !.artist = @ + 1]
           [] d.verdict = "dedup"  -> [w EXCEPT !.dedup = @ + 1]

Unqueued(pool, f) == SelectSeq(pool, LAMBDA c : c.track \notin f.excluded)

WalkHardCap(pool, f, cached, cfg, n) ==
    FoldLeft(LAMBDA w, c : Walked(w, c, cached, cfg, n), NewWalk(f), Unqueued(pool, f))

WalkOff(pool, f, n) == [NewWalk(f) EXCEPT !.out = Truncate(Unqueued(pool, f), n)]

\* What candidate i of the pool is worth next to what was admitted: tenths of
\* tenths, near the largest cosine to an admitted track, never below 0.
Penalty(t, counts, cached, cfg) ==
    IF HasMeta(cached, t) THEN Max({cfg.mu, 0}) * Count(counts, ArtistKey(Meta[t])) ELSE 0
MmrScore(c, bonus, near, counts, cached, cfg, first) ==
    LET rel == c.score + bonus[c.track]
        lambda == Clamp(cfg.lambda, 0, 10) IN
    IF first THEN 10 * (rel - Penalty(c.track, counts, cached, cfg))
    ELSE lambda * rel - (10 - lambda) * near - 10 * Penalty(c.track, counts, cached, cfg)

\* Mutant: the similarity to the latest pick replaces the running maximum.
NearestLatest(near, t, picked) == Max({0, Near[t][picked]})

\* The running maximum of one candidate after a pick.
NearestSoFar(near, t, picked) == Max({near, Near[t][picked]})

\* One pick of mmr_rerank: the first best of those that remain.
MmrPick(s, pool, bonus, cached, cfg) ==
    LET worth == [i \in s.rest |->
                    MmrScore(pool[i], bonus, s.near[i], s.counts, cached, cfg, s.picked = <<>>)]
        best == CHOOSE i \in s.rest : \A j \in s.rest :
                    worth[i] > worth[j] \/ (worth[i] = worth[j] /\ i <= j)
        t == pool[best].track
    IN  [picked |-> Append(s.picked, best),
         rest |-> s.rest \ {best},
         near |-> [i \in DOMAIN pool |-> IF i \in s.rest \ {best}
                                         THEN NearestSoFar(s.near[i], pool[i].track, t) ELSE s.near[i]],
         counts |-> IF HasMeta(cached, t) THEN Bump(s.counts, ArtistKey(Meta[t])) ELSE s.counts]

\* mmr_rerank: the order in which a pool is admitted, as indices.
MmrOrder(pool, bonus, counts, cached, cfg, want) ==
    LET start == [picked |-> <<>>, rest |-> DOMAIN pool,
                  near |-> [i \in DOMAIN pool |-> 0], counts |-> counts]
    IN  FoldLeft(LAMBDA s, k : MmrPick(s, pool, bonus, cached, cfg), start,
                 [k \in 1..Min({want, Len(pool)}) |-> k]).picked

WalkMmr(pool, f, bonus, cached, cfg, n) ==
    LET surviving == Unqueued(pool, f)
        order == MmrOrder(surviving, bonus, f.counts, cached, cfg, n * MmrBuffer)
    IN  FoldLeft(LAMBDA w, i : Walked(w, surviving[i], cached, cfg, n), NewWalk(f), order)

\* apply_queue_filter_generic
Filtered(pool, qc, bonus, cached, n) ==
    LET f == BuildFilter(qc.queue, qc.playing, cached, qc.cfg) IN
    CASE qc.cfg.mode = "hard_cap" -> WalkHardCap(Presorted(pool, bonus), f, cached, qc.cfg, n)
      [] qc.cfg.mode = "mmr" -> WalkMmr(pool, f, bonus, cached, qc.cfg, n)
      [] qc.cfg.mode = "off" -> WalkOff(pool, f, n)

\* classify_shortfall
Shortfall(w, n) ==
    CASE Len(w.out) >= n -> "none"
      [] Len(w.out) < n /\ w.artist + w.dedup = 0 -> "pool_exhausted"
      [] Len(w.out) < n /\ w.artist + w.dedup > 0 /\ w.artist >= w.dedup -> "filter_starved_artist"
      [] OTHER -> "filter_starved_dedup"

\* group_similar_by: the hits of each album or artist, summed per group.  The
\* code leaves the order of equal sums to its hash map.
Grouped(hits, field, exclude, cached, n) ==
    LET known == {h \in DOMAIN hits : HasMeta(cached, hits[h].track)}
        Group(h) == Meta[hits[h].track][field]
        groups == {Group(h) : h \in known} \ (exclude \cup {None})
        Of(g) == {h \in known : Group(h) = g}
        Row(g) == Candidate(g, MapThenSumSet(LAMBDA h : hits[h].score, Of(g)),
                            Cardinality({hits[h].track : h \in Of(g)}))
    IN  Truncate(ByScore({Row(g) : g \in groups}), n)
=============================================================================
