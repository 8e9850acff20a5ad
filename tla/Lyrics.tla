------------------------------- MODULE Lyrics -------------------------------
(***************************************************************************)
(* Tiered lyrics resolution (music-gateway/src/lyrics): the cached row, the *)
(* file's own tags, then an external provider; a miss is cached, a failure  *)
(* is not.  One resolution per song at a time, behind a mutex kept in a map *)
(* while anyone waits for it; a caller may go away at any await.            *)
(*                                                                         *)
(* What exists upstream is fixed: Tagged songs carry their own lyrics, and  *)
(* Listed names the provider's tier that finds a song.  A call may fail.    *)
(***************************************************************************)
EXTENDS Integers, FiniteSets

CONSTANTS Songs, NoSong, Callers,
          Tagged,        \* songs whose file has lyrics
          Listed,        \* per song, the provider's tier that finds it, or "none"
          Albumless,     \* songs whose metadata names no album
          Untimed,       \* songs whose duration is not known
          Nameless,      \* songs without artist or title: nothing to look up by
          MaxConcurrent, \* permits of the resolver's gate
          LyricsBudget   \* bounds: requests, refreshes, outages and departures

ASSUME LyricsAssumption ==
    /\ Tagged \cup Albumless \cup Untimed \cup Nameless \subseteq Songs
    /\ NoSong \notin Songs
    /\ Listed \in [Songs -> {"exact", "no_album", "search", "none"}]
    /\ MaxConcurrent \in Nat \ {0}
    /\ IsFiniteSet(Callers)

VARIABLES row,       \* track_lyrics: the source of the answer, and whether it has not expired
          inflight,  \* the map: per song the mutex in it, 0 if there is none
          minted,    \* mutexes made so far
          call,      \* what each caller is doing
          lyricsLeft

lyricsVars == <<row, inflight, minted, call, lyricsLeft>>

NoRow == [source |-> "absent", fresh |-> FALSE]
AtRest == [at |-> "rest", song |-> NoSong, force |-> FALSE, mutex |-> 0]

LyricsInit ==
    /\ row = [s \in Songs |-> NoRow]
    /\ inflight = [s \in Songs |-> 0] /\ minted = 0
    /\ call = [c \in Callers |-> AtRest]
    /\ lyricsLeft = LyricsBudget

FreshCached(s) == row[s].fresh
Within(c, stages) == call[c].at \in stages
Goes(c, stage) == call' = [call EXCEPT ![c].at = stage]
Uses(bound) == lyricsLeft[bound] > 0 /\ lyricsLeft' = [lyricsLeft EXCEPT ![bound] = @ - 1]

\* The mutex of a caller past lock().await is its own until it drops the guard.
Owned(m) == \E c \in Callers : call[c].mutex = m /\ Within(c, {"locked", "queued", "asking"})
\* Strong references to a mutex: its callers', and the map's.
StrongCount(s, m) ==
    Cardinality({c \in Callers : call[c].mutex = m}) + (IF inflight[s] = m THEN 1 ELSE 0)

-----------------------------------------------------------------------------
\* resolve_external's tiers: exact needs an album, the search a duration.
Tiers(s) == {"no_album"} \cup (IF s \in Albumless THEN {} ELSE {"exact"})
                         \cup (IF s \in Untimed THEN {} ELSE {"search"})
\* The fuzzy search takes a candidate of our duration only.
PickCandidate(s) == Listed[s] = "search" /\ s \notin Untimed
\* Without an album to drop, the second lookup is the exact one.
Finds(s, tier) == \/ tier = "search" /\ PickCandidate(s)
                  \/ tier # "search" /\ Listed[s] = tier
                  \/ tier = "no_album" /\ Listed[s] = "exact" /\ s \in Albumless

\* A hit ends the run; a tier that could not be evaluated makes an empty one inconclusive.
ResolveExternal(s, failed) ==
    IF \E t \in Tiers(s) \ failed : Finds(s, t) THEN "lrclib"
    ELSE IF failed \cap Tiers(s) # {} THEN "error" ELSE "none"

\* Artist and title to look up by; an upstream failure is not their absence.
LookupKey(s, failed) ==
    IF "key" \in failed THEN "error" ELSE IF s \in Nameless THEN "none" ELSE "key"

\* A block of the file's own lyrics that has lines becomes the row.
RowFromNavidrome(s, failed) == s \in Tagged /\ "tags" \notin failed

\* The file's tags, the lookup key, the provider: failed is the set of calls that fail.
ResolveUncached(s, failed) ==
    LET key == LookupKey(s, failed)
        external == IF key = "key" THEN ResolveExternal(s, failed) ELSE key
    IN  IF RowFromNavidrome(s, failed) THEN "navidrome"
        ELSE IF external = "none" /\ "tags" \in failed THEN "error" ELSE external

\* What a run found, a miss included, as a row that has not expired.
RowFrom(found) == [source |-> found, fresh |-> TRUE]

-----------------------------------------------------------------------------
\* get_lyrics: a cached answer, a miss included, is served until it expires.
Get(c, s) ==
    /\ Within(c, {"rest"}) /\ ~FreshCached(s) /\ Uses("requests")
    /\ call' = [call EXCEPT ![c] = [AtRest EXCEPT !.at = "locking", !.song = s]]
    /\ UNCHANGED <<row, inflight, minted>>

\* refresh_lyrics: forget the row, then resolve without looking at the cache.
Refresh(c, s) ==
    /\ Within(c, {"rest"}) /\ Uses("refreshes")
    /\ row' = [row EXCEPT ![s] = NoRow]
    /\ call' = [call EXCEPT ![c] = [at |-> "locking", song |-> s, force |-> TRUE, mutex |-> 0]]
    /\ UNCHANGED <<inflight, minted>>

LockFor(c) ==
    LET s == call[c].song
        m == IF inflight[s] = 0 THEN minted + 1 ELSE inflight[s] IN
    /\ Within(c, {"locking"})
    /\ inflight' = [inflight EXCEPT ![s] = m]
    /\ minted' = IF inflight[s] = 0 THEN m ELSE minted
    /\ call' = [call EXCEPT ![c].at = "waiting", ![c].mutex = m]
    /\ UNCHANGED <<row, lyricsLeft>>

Acquire(c) ==
    /\ Within(c, {"waiting"}) /\ ~Owned(call[c].mutex) /\ Goes(c, "locked")
    /\ UNCHANGED <<row, inflight, minted, lyricsLeft>>

\* The winner may have filled the cache meanwhile.
Recheck(c) ==
    /\ Within(c, {"locked"})
    /\ Goes(c, IF FreshCached(call[c].song) /\ ~call[c].force THEN "release" ELSE "queued")
    /\ UNCHANGED <<row, inflight, minted, lyricsLeft>>

TakePermit(c) ==
    /\ Within(c, {"queued"})
    /\ Cardinality({d \in Callers : Within(d, {"asking"})}) < MaxConcurrent
    /\ Goes(c, "asking")
    /\ UNCHANGED <<row, inflight, minted, lyricsLeft>>

\* The tiers run; what they found, or that nothing is there, becomes the row, an
\* inconclusive run leaves it (the caller gets the stale row, or a 503).
Answer(c) ==
    LET s == call[c].song IN
    /\ Within(c, {"asking"})
    /\ \E failed \in SUBSET ({"tags", "key"} \cup Tiers(s)) :
          /\ IF failed = {} THEN UNCHANGED lyricsLeft ELSE Uses("outages")
          /\ row' = LET found == ResolveUncached(s, failed) IN
                    IF found = "error" THEN row
                    ELSE [row EXCEPT ![s] = RowFrom(found)]
    /\ Goes(c, "release")
    /\ UNCHANGED <<inflight, minted>>

\* Mutant: the entry is removed whoever still waits for it.
ReleaseAlways(c) ==
    /\ Within(c, {"release"})
    /\ inflight' = [inflight EXCEPT ![call[c].song] = 0]
    /\ Goes(c, "returning")
    /\ UNCHANGED <<row, minted, lyricsLeft>>

\* release_lock, after the guard was dropped: two references are the map's and ours.
ReleaseLock(c) ==
    LET s == call[c].song IN
    /\ Within(c, {"release"})
    /\ inflight' = IF StrongCount(s, call[c].mutex) <= 2 THEN [inflight EXCEPT ![s] = 0] ELSE inflight
    /\ Goes(c, "returning")
    /\ UNCHANGED <<row, minted, lyricsLeft>>

\* The function returns and drops its reference.
Return(c) ==
    /\ Within(c, {"returning"})
    /\ call' = [call EXCEPT ![c] = AtRest]
    /\ UNCHANGED <<row, inflight, minted, lyricsLeft>>

\* The client hangs up, or the re-read of the cache fails: nothing is released
\* but the guard, the permit and the caller's reference.
Abandon(c) ==
    /\ Within(c, {"waiting", "locked", "queued", "asking"}) /\ Uses("departures")
    /\ call' = [call EXCEPT ![c] = AtRest]
    /\ UNCHANGED <<row, inflight, minted>>

Expire(s) ==
    /\ row[s].fresh
    /\ row' = [row EXCEPT ![s].fresh = FALSE]
    /\ UNCHANGED <<inflight, minted, call, lyricsLeft>>

LyricsNext ==
    \/ \E c \in Callers :
          \/ \E s \in Songs : Get(c, s) \/ Refresh(c, s)
          \/ LockFor(c) \/ Acquire(c) \/ Recheck(c) \/ TakePermit(c)
          \/ Answer(c) \/ ReleaseLock(c) \/ Return(c) \/ Abandon(c)
    \/ \E s \in Songs : Expire(s)

LyricsSpec == LyricsInit /\ [][LyricsNext]_lyricsVars

-----------------------------------------------------------------------------
\* Single-flight: whoever comes, leaves or forces a refresh, no song is being
\* looked up by two callers at once (resolve, lock_for, release_lock).
SingleFlight ==
    \A c, d \in Callers :
        c # d /\ Within(c, {"asking"}) /\ Within(d, {"asking"}) => call[c].song # call[d].song

=============================================================================
