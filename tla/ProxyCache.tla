----------------------------- MODULE ProxyCache -----------------------------
(***************************************************************************)
(* The caching half of the gateway's /rest proxy.  Browse answers are       *)
(* cached under their query and written in the background after they were   *)
(* served; a stale row is still the answer when Navidrome is down.  Covers  *)
(* are cached for long; Navidrome's stand-in for missing art is recognised  *)
(* by turning up under many ids, hidden behind a placeholder (Svg) from     *)
(* then on, and looked up again in the background in case art was added.    *)
(*                                                                          *)
(* A body stands for its etag.  Rows expire, cooldowns end and writes land  *)
(* whenever they like: no property depends on how long they take.           *)
(***************************************************************************)
EXTENDS Integers, FiniteSets

CONSTANTS
    Covers,         \* cover-art cache keys
    IdOf,           \* cover key -> id; keys of one id differ by size
    TrackIds,       \* ids of tracks (mf-*): all tracks of an album share its art
    Lists,          \* browse cache keys
    Art,            \* id -> the art Navidrome has once it was uploaded, or Missing
    Svg, Default,   \* the gateway's placeholder, Navidrome's stand-in
    Missing,        \* 404 or a JSON error envelope instead of art
    Absent,         \* no row, no body
    Visitors,       \* requests under way at once
    Threshold       \* PLACEHOLDER_DUPLICATE_THRESHOLD

ASSUME ProxyAssumption ==
    /\ Covers \cap Lists = {} /\ Threshold \in Nat \ {0}
    /\ IsFiniteSet(DOMAIN Art) /\ IdOf \in [Covers -> DOMAIN Art]
    /\ Svg # Default /\ Absent \notin {Svg, Default, Missing} /\ Default \notin Nat
    /\ \A id \in DOMAIN Art : Art[id] \notin {Svg, Absent} \cup Nat

VARIABLES
    l2,             \* cache_entries: key -> body and freshness
    visit,          \* what each request is about to do
    spawned,        \* background tasks: writes, sweeps and revalidations
    placeholders,   \* placeholder_etags: bodies known to be stand-ins
    cooling,        \* keys revalidated within the cooldown
    uploaded,       \* ids whose art Navidrome has
    catalog,        \* what Navidrome lists
    upstreamUp,
    proxyLeft       \* bounds: the keys asked for, requests, and turns of time,
                    \* of the operator or of Navidrome

proxyVars == <<l2, visit, spawned, placeholders, cooling, uploaded, catalog, upstreamUp, proxyLeft>>

NoVisit == [at |-> "idle"]
NoEntryRow == [body |-> Absent, fresh |-> FALSE]

\* The gateway boots over the covers an earlier life cached (cover key -> body).
ProxyInit(cached, withArt, bounds) ==
    /\ l2 = [k \in Covers \cup Lists |->
                IF k \in DOMAIN cached THEN [body |-> cached[k], fresh |-> TRUE] ELSE NoEntryRow]
    /\ visit = [v \in Visitors |-> NoVisit]
    /\ spawned = {} /\ placeholders = {} /\ cooling = {} /\ uploaded = withArt
    /\ catalog = 0 /\ upstreamUp = TRUE
    /\ proxyLeft = bounds

Spends(bound) == proxyLeft[bound] > 0 /\ proxyLeft' = [proxyLeft EXCEPT ![bound] = @ - 1]

\* What Navidrome has under a cover id.
Upstream(id) == IF id \in uploaded THEN Art[id] ELSE Default

\* Background tasks; n tells equal ones of different requests apart.
PutTask(k, body) == [do |-> "put", key |-> k, body |-> body, n |-> proxyLeft.visits]
SweepTask(body) == [do |-> "sweep", body |-> body]
ClearTask == [do |-> "clear"]
RefetchTask(k) == [do |-> "refetch", key |-> k, body |-> Absent]

Entry(body) == [body |-> body, fresh |-> TRUE]
Answers(v, body) == visit' = [visit EXCEPT ![v] = [at |-> "answered", key |-> visit[v].key,
                                                  hidden |-> visit[v].hidden, body |-> body]]
Continues(v, to, body) == visit' = [visit EXCEPT ![v].at = to, ![v].body = body]

\* maybe_spawn_revalidation: at most one in a cooldown.
Revalidation(k) == IF k \in cooling THEN {} ELSE {RefetchTask(k)}

\* write_and_serve_placeholder
ServesSvg(v, more) ==
    /\ Answers(v, Svg)
    /\ spawned' = spawned \cup {PutTask(visit[v].key, Svg)} \cup more

-----------------------------------------------------------------------------
(* Requests *)

Visits(v, k) ==
    /\ visit[v].at \in {"idle", "answered"} /\ Spends("visits")
    /\ visit' = [visit EXCEPT ![v] = [at |-> "look", key |-> k, hidden |-> placeholders, body |-> Absent]]
    /\ UNCHANGED <<l2, spawned, placeholders, cooling, uploaded, catalog, upstreamUp>>

Fresh(k) == l2[k].body # Absent /\ l2[k].fresh

\* browse_proxy: a fresh row is the answer (or a 304), a stale one is kept at hand.
BrowseLook(v) ==
    LET k == visit[v].key IN
    /\ visit[v].at = "look" /\ k \in Lists
    /\ IF Fresh(k) THEN Answers(v, l2[k].body) ELSE Continues(v, "browse", l2[k].body)
    /\ UNCHANGED <<l2, spawned, placeholders, cooling, uploaded, catalog, upstreamUp, proxyLeft>>

\* The answer of Navidrome is served and written later; without one, the stale row.
BrowseFetch(v) ==
    LET k == visit[v].key IN
    /\ visit[v].at = "browse"
    /\ IF upstreamUp
       THEN Answers(v, catalog) /\ spawned' = spawned \cup {PutTask(k, catalog)}
       ELSE Answers(v, visit[v].body) /\ UNCHANGED spawned
    /\ UNCHANGED <<l2, placeholders, cooling, uploaded, catalog, upstreamUp, proxyLeft>>

\* cover_art_proxy: a cached placeholder is rendered again and rechecked.
CoverLook(v) ==
    LET k == visit[v].key IN
    /\ visit[v].at = "look" /\ k \in Covers
    /\ CASE Fresh(k) /\ l2[k].body = Svg ->
                ServesSvg(v, Revalidation(k)) /\ cooling' = cooling \cup {k}
         [] Fresh(k) /\ l2[k].body # Svg ->
                Continues(v, "classify_hit", l2[k].body) /\ UNCHANGED <<spawned, cooling>>
         [] ~Fresh(k) -> Continues(v, "fetch", Absent) /\ UNCHANGED <<spawned, cooling>>
    /\ UNCHANGED <<l2, placeholders, uploaded, catalog, upstreamUp, proxyLeft>>

\* Missing art and known stand-ins become the placeholder; an error is passed on.
CoverFetch(v) ==
    LET body == Upstream(IdOf[visit[v].key]) IN
    /\ visit[v].at = "fetch"
    /\ CASE ~upstreamUp -> Answers(v, Absent) /\ UNCHANGED spawned
         [] upstreamUp /\ (body = Missing \/ body \in placeholders) -> ServesSvg(v, {})
         [] OTHER -> Continues(v, "put", body) /\ UNCHANGED spawned
    /\ UNCHANGED <<l2, placeholders, cooling, uploaded, catalog, upstreamUp, proxyLeft>>

\* The body is cached before it is judged, so that requests under way count it;
\* a failed write is logged.
CoverPut(v) ==
    /\ visit[v].at = "put"
    /\ \/ l2' = [l2 EXCEPT ![visit[v].key] = Entry(visit[v].body)] /\ UNCHANGED proxyLeft
       \/ Spends("turns") /\ UNCHANGED l2
    /\ visit' = [visit EXCEPT ![v].at = "classify"]
    /\ UNCHANGED <<spawned, placeholders, cooling, uploaded, catalog, upstreamUp>>

Classifying(v) == visit[v].at \in {"classify", "classify_hit"}
Counting(v) == visit[v].at \in {"count", "count_hit"}
OnHit(v) == visit[v].at \in {"classify_hit", "count_hit"}

\* A stand-in on a hit is also rechecked.
HidesStandIn(v, more) ==
    LET k == visit[v].key IN
    /\ ServesSvg(v, more \cup IF OnHit(v) THEN Revalidation(k) ELSE {})
    /\ cooling' = IF OnHit(v) THEN cooling \cup {k} ELSE cooling

\* classify_as_placeholder: known, or to be counted.
ClassifyKnown(v) ==
    /\ Classifying(v)
    /\ IF visit[v].body \in placeholders THEN HidesStandIn(v, {})
       ELSE /\ Continues(v, IF OnHit(v) THEN "count_hit" ELSE "count", visit[v].body)
            /\ UNCHANGED <<spawned, cooling>>
    /\ UNCHANGED <<l2, placeholders, uploaded, catalog, upstreamUp, proxyLeft>>

\* Mutant: every cache key with the body counts, whatever its id.
DuplicateKeys(body, id) == Cardinality({k \in Covers : l2[k].body = body}) > Threshold

\* is_duplicate_cover_etag: enough other ids, tracks left aside, have the same body.
Duplicate(body, id) ==
    Cardinality({IdOf[k] : k \in {k \in Covers : l2[k].body = body}} \ ({id} \cup TrackIds)) >= Threshold

\* A new stand-in is remembered and its rows are swept; other bodies are served.
ClassifyCount(v) ==
    LET body == visit[v].body IN
    /\ Counting(v)
    /\ IF Duplicate(body, IdOf[visit[v].key])
       THEN placeholders' = placeholders \cup {body} /\ HidesStandIn(v, {SweepTask(body)})
       ELSE Answers(v, body) /\ UNCHANGED <<spawned, placeholders, cooling>>
    /\ UNCHANGED <<l2, uploaded, catalog, upstreamUp, proxyLeft>>

\* The count failed: the body is taken for art.
DuplicatesUnknown(v) ==
    /\ Counting(v) /\ Spends("turns")
    /\ Answers(v, visit[v].body)
    /\ UNCHANGED <<l2, spawned, placeholders, cooling, uploaded, catalog, upstreamUp>>

-----------------------------------------------------------------------------
(* Background tasks *)

Lands(t) ==
    /\ spawned' = spawned \ {t}
    /\ \/ t.do = "put" /\ l2' = [l2 EXCEPT ![t.key] = Entry(t.body)]
       \/ t.do = "sweep" /\ l2' = [k \in DOMAIN l2 |-> IF l2[k].body = t.body THEN NoEntryRow ELSE l2[k]]
       \/ t.do = "clear" /\ l2' = [k \in DOMAIN l2 |-> IF k \in Covers THEN NoEntryRow ELSE l2[k]]
    /\ UNCHANGED <<visit, placeholders, cooling, uploaded, catalog, upstreamUp, proxyLeft>>

\* A failed write is logged and forgotten.
WriteFails(t) ==
    /\ t.do \in {"put", "sweep", "clear"} /\ Spends("turns")
    /\ spawned' = spawned \ {t}
    /\ UNCHANGED <<l2, visit, placeholders, cooling, uploaded, catalog, upstreamUp>>

\* revalidate_placeholder: anything that may still be a stand-in leaves the row alone.
Refetches(t) ==
    LET body == Upstream(IdOf[t.key]) IN
    /\ t.do = "refetch"
    /\ spawned' = (spawned \ {t}) \cup
          IF ~upstreamUp \/ body = Missing \/ body \in placeholders THEN {}
          ELSE {[t EXCEPT !.do = "compare", !.body = body]}
    /\ UNCHANGED <<l2, visit, placeholders, cooling, uploaded, catalog, upstreamUp, proxyLeft>>

\* A count that fails is taken for a body that is not a stand-in.
Compares(t) ==
    /\ t.do = "compare"
    /\ \/ /\ Duplicate(t.body, IdOf[t.key])
          /\ placeholders' = placeholders \cup {t.body} /\ spawned' = spawned \ {t}
       \/ /\ spawned' = (spawned \ {t}) \cup {PutTask(t.key, t.body)}
          /\ UNCHANGED placeholders
    /\ UNCHANGED <<l2, visit, cooling, uploaded, catalog, upstreamUp, proxyLeft>>

-----------------------------------------------------------------------------
(* The operator, time and Navidrome *)

\* POST /v1/admin/cache/invalidate
InvalidateCache ==
    /\ Spends("turns")
    /\ l2' = [k \in DOMAIN l2 |-> IF k \in Lists THEN NoEntryRow ELSE l2[k]]
    /\ UNCHANGED <<visit, spawned, placeholders, cooling, uploaded, catalog, upstreamUp>>

\* POST /v1/admin/cache/invalidate_covers forgets the stand-ins, then the rows.
InvalidateCovers ==
    /\ Spends("turns")
    /\ placeholders' = {}
    /\ visit' = [v \in Visitors |-> IF visit[v] = NoVisit THEN NoVisit ELSE [visit[v] EXCEPT !.hidden = {}]]
    /\ spawned' = spawned \cup {ClearTask}
    /\ UNCHANGED <<l2, cooling, uploaded, catalog, upstreamUp>>

\* A restart keeps the rows and loses everything else.
ProxyRestart ==
    /\ Spends("turns")
    /\ visit' = [v \in Visitors |-> NoVisit]
    /\ spawned' = {} /\ placeholders' = {} /\ cooling' = {}
    /\ UNCHANGED <<l2, uploaded, catalog, upstreamUp>>

Expires(k) ==
    /\ Fresh(k) /\ Spends("turns")
    /\ l2' = [l2 EXCEPT ![k].fresh = FALSE]
    /\ UNCHANGED <<visit, spawned, placeholders, cooling, uploaded, catalog, upstreamUp>>

CoolsDown(k) ==
    /\ k \in cooling /\ Spends("turns")
    /\ cooling' = cooling \ {k}
    /\ UNCHANGED <<l2, visit, spawned, placeholders, uploaded, catalog, upstreamUp>>

\* Art is added under an id; the catalogue is rescanned.
Uploads(id) ==
    /\ id \notin uploaded /\ Spends("turns")
    /\ uploaded' = uploaded \cup {id} /\ catalog' = catalog + 1
    /\ UNCHANGED <<l2, visit, spawned, placeholders, cooling, upstreamUp>>

NavidromeTurns ==
    /\ \/ upstreamUp /\ Spends("turns")
       \/ ~upstreamUp /\ UNCHANGED proxyLeft
    /\ upstreamUp' = ~upstreamUp
    /\ UNCHANGED <<l2, visit, spawned, placeholders, cooling, uploaded, catalog>>

ProxyNext ==
    \/ \E v \in Visitors :
          \/ \E k \in proxyLeft.keys : Visits(v, k)
          \/ BrowseLook(v) \/ BrowseFetch(v) \/ CoverLook(v) \/ CoverFetch(v) \/ CoverPut(v)
          \/ ClassifyKnown(v) \/ ClassifyCount(v) \/ DuplicatesUnknown(v)
    \/ \E t \in spawned : Lands(t) \/ WriteFails(t) \/ Refetches(t) \/ Compares(t)
    \/ \E k \in Covers \cup Lists : Expires(k) \/ CoolsDown(k)
    \/ \E id \in DOMAIN Art : Uploads(id)
    \/ InvalidateCache \/ InvalidateCovers \/ ProxyRestart \/ NavidromeTurns

-----------------------------------------------------------------------------
\* Art is never mistaken for Navidrome's stand-in, and the stand-in stays hidden:
\* a body is only remembered as a stand-in when enough albums or artists show it
\* (several sizes of one cover and the tracks of an album do not count), and a
\* request that came when it was known, and not forgotten since, never shows it.
StandInsHidden ==
    /\ \A b \in placeholders :
          Cardinality({id \in DOMAIN Art \ TrackIds : b \in {Default, Art[id]}}) >= Threshold
    /\ \A v \in Visitors : visit[v].at = "answered" => visit[v].body \notin visit[v].hidden
=============================================================================
