# crates-music, specified and verified

crates-music is a self-hosted music system: a Rust *gateway* in front of a
Navidrome server, a *web client* (React), a *terminal client* (ratatui), a
recommender over audio embeddings, and the sidecar that computes them. This
directory holds TLA+ modules for the parts of the system that keep state:
shared rooms and their replicas, accounts and tokens, what the terminal plays
and shows, the gateway's background work and caches, and the recommendations
made from what a listener did.

Run a model with `tlc -config MCSyncStore_store.cfg MCSyncStore`, check proofs
with `tlapm SyncStoreProofs.tla`. `PROJECT.json` maps every definition to the
source lines it models, and lists the runs, mutants, hazards and theorems.

## 1. Inventory

### Modelled components

| component | state it keeps | operations |
|---|---|---|
| `music-sync`, `music-core`: the sync state machine | queue items, `now_playing_index`, position, `is_playing`, `session_anchor` | `SyncState::apply` for ten op types |
| gateway `SyncStore`, `SessionStore` | per room: state, version, window of seen op ids, broadcast bus, all in memory; a SQLite row per session | `apply_with_id`, `subscribe`, `snapshot`; `start` and `stop`, called by the store's mirror |
| gateway `ws.rs`, `handlers.rs` | one task per socket: a broadcast receiver | forward events, recover from lag, take ops and pings; REST op and snapshot |
| web `SyncContext`, `pending.ts`, `apply.ts`, `heartbeat.ts` | the socket in use, a retry timer, the last ping, the confirmed state, the ledger of unacknowledged ops | submit, dial, open, message, close, heartbeat, probe, write off, token refresh |
| terminal `sync_ws.rs`, `update/room.rs`, HTTP resync effect | the connection task, the phase, the replica | submit, frame, resync, session end, backoff |
| gateway OAuth server, users, guest codes | users, sessions, authorization and device codes, refresh and access tokens with their families, guest codes | setup, login, authorize, exchange, device grant, rotation with reuse detection, revocation, account administration, guests |
| CLI sign-in | one token file shared by all invocations | login by device code, join as guest, silent refresh, logout |
| terminal playback | local queue, projection of the room, fetches, commands to the audio thread, listening signal | the transport and queue keys in their local and room form, `follow`, hydration, player events, scrobbles and skips |
| terminal autoplay | the refill lock and its generation, provenance of tracks, votes by track, the session a vote is filed under | toggle, refill, vote with optimistic thumb and rollback |
| terminal views | which section is open, what each pane holds, requests in flight | navigation, lists, details, search, lyrics, diagnostics, playlist edits |
| rate limiters | failures and lockouts, windows per source, in memory | check, record, prune |
| embedding ingest | the queue table, metadata, the ANN index with dirty flag, key map and files, the whitening transform | scan, claim, embed, settle, upsert, persist, refit, boot |
| projection job | counts and times of the last reduction, stored point sets | tick, 2D and 3D reduction, prune |
| lyrics resolver | cached rows with expiry, a mutex per song, a gate | get, refresh, the ladder of lookups |
| audio cache | blobs, rows with size and time, two budgets | open, put, touch, pin, unpin, evict |
| `/rest` proxy cache | cached bodies, known stand-ins, cooldowns, background writes | browse, cover, sweep, revalidate, invalidate |
| listening events, scrobbles, votes, ratings | event log, recency clock, decayed counters, votes, ratings; the open listening session in memory | `POST /v1/events`, `/rest/scrobble`, feedback, rating |
| recommendation endpoints and algorithms | the log of served slates | next, station, from-seeds, from-any, similar albums and artists; aggregation, leash, jitter, queue filter, MMR |
| playlists | rows with owner and visibility, members in order | create, patch, append, replace, delete |

How they interact. A client sends `op` frames up its WebSocket (or `POST`s
them); the gateway applies an op under the room's write lock, bumps the version
and broadcasts `applied` on the room's bus, still inside the lock, and writes
the session lifecycle to SQLite afterwards. The web client applies its ops
optimistically and keeps them in a ledger until acknowledged; the terminal
applies nothing of its own accord and plays what the echoes say (`follow`).
Every other request passes a bearer check against the token tables. The
terminal reports plays and skips to the gateway, which folds them into counters
the recommendation handlers read; autoplay asks those handlers for more tracks
and pushes them into the room. The ingest feeds the index that they search and
the embeddings that the projection job reduces.

What is hard here: handlers interleave at every await, between two statements
of one request too; a link dies without either end being told; answers race
each other, the socket and the user; limits (the ring, the window of op ids,
the cache budgets, the limiter's map) are reached; writes fail one by one; and
a restart keeps the tables but not what was in memory.

What makes each part correct is what section 3 checks.

### Components that are not modelled

See section 5.

## 2. Modules

| module | models | extends |
|---|---|---|
| `Selections` | the elements of a sequence that a filter keeps, in order | standard modules |
| `Playback` | `SyncState::apply` as operators on a playback record, one per op type | `Selections` |
| `SyncRoom` | one room: state, version, window of op ids; `apply_with_id`'s critical section | `Playback` |
| `SyncStore` | all rooms, request handlers step by step, the session table, crashes | `SyncRoom` |
| `WebSync` | the web client, its sockets, the gateway's socket tasks, the ring, other devices | `SyncRoom` |
| `TuiReplica` | the terminal's task, reducer and HTTP resync, the gateway's task and ring | `SyncRoom` |
| `OAuthStore` | the account tables; one operator per statement or transaction | standard modules |
| `OAuthServer` | the handlers over them, one action per statement, clock, restarts | `OAuthStore` |
| `CliAuth` | invocations of the CLI over one token file, composed with the server | `OAuthServer` |
| `PlayQueue` | `music-player`'s local queue | `Playback` |
| `TuiSignal` | what the terminal scrobbles and when leaving a track is a skip | `PlayQueue` |
| `TuiPlayback` | the playback and room halves of the reducer, fetches, the audio thread | `TuiSignal` |
| `TuiAutoplay` | refills, seeds, provenance, votes | `PlayQueue` |
| `TuiViews` | sections, panes, requests and their answers | standard modules |
| `WorkQueue` | the abstract queue: offered once, held by one, settled once | none |
| `Ingest` | the queue table, workers, index, persister, refit, boot; implements `WorkQueue` | standard modules |
| `Lyrics`, `AudioCache`, `RateLimit`, `AutoProjection`, `ProxyCache` | the component of that name | standard modules |
| `Taste` | the handlers and tables of the listener's signals | `Selections` |
| `Ranking` | the algorithms as operators over integer scores | standard modules |
| `Recommend` | the recommendation handlers, over `Taste`'s tables | `Taste`, `Ranking` |
| `Playlists` | the playlist handlers | `Selections` |
| `MCSyncStore`, `MCWebSync`, `MCTuiReplica`, `MCAccounts`, `MCTerminal`, `MCSubmits`, `MCCatalogue`, `MCTaste` | instances for TLC | the modules checked |
| `CommonLemmas` | lemmas on sequences, selections, minima and maxima that several proofs cite | `Selections`, `TLAPS`, the library's theorem modules |
| `PlaybackProofs`, `SyncStoreProofs` | theorems on the state machine and on the store | `Playback`, `SyncStore` |
| `ReplicaProofs`, `WebProofs` | theorems on the terminal's replica and on the web client | `TuiReplica`, `WebSync`, `PlaybackProofs` |
| `AccountsProofs` | theorems on tokens, on the CLI's credential, on playlists and on a listener's signals | `CliAuth`, `Playlists`, `Taste` |
| `CatalogueProofs` | theorems on the ingest (it refines `WorkQueue`), lyrics, projections, limiters and both caches | `Ingest`, `Lyrics`, `AutoProjection`, `RateLimit`, `ProxyCache`, `AudioCache` |
| `TerminalProofs` | theorems on the terminal's autoplay, views and playback | `TuiAutoplay`, `TuiViews`, `TuiPlayback` |

**Playback.** A playback state is a record; `now_playing_index` counts from 1
and 0 is `None`, so the code's `Some(i)` is `i + 1`. `Rejected` is the code's
set of hard errors (a cursor or an anchor out of bounds), `Apply` the state
after an accepted op, with `NormalizeCursor` where the code calls it. Ops that
find nothing to do (an unknown id, an item already queued) are accepted and
bump the version, as in the code. The provenance label an item may carry is
data no op looks at and is left out.

**SyncStore.** A handler goes `idle -> apply -> start|stop -> idle`: `Receive`
reads the clock, `Locked` is the critical section, `MirrorStart` and
`MirrorStop` are the SQLite transactions after it. `HandlerDropped` is a failed
write, which the code logs and forgets, or a request that is cancelled at an
await. `Restart` empties the rooms and keeps the table. `landed` is history:
the op ids applied in each room since start-up.

**WebSync.** A socket is a record of its client end, its gateway end and the
frames in flight each way. A link dies silently (`LinkDies`): what was in
flight is lost, sends go nowhere, and only a ping that stays unanswered
(`PingOverdue`) tells the client. `HastyTimeout` is the same verdict on a link
that is merely slow: the client writes the socket off and the gateway goes on
reading what was sent. `confirmed` and `pending` are the client's two layers
and `ProjectState` what is rendered. `log` is the sequence of all events of the
bus; a receiver is a position in it and the ring the last `Capacity` of it.
A restart loses every connection but a dial that was not answered yet, which
reaches the successor. `submitted`, `fate` and a socket's `overrun` are history.

**TuiReplica.** The reducer's inputs arrive through one channel, `inbox`. HTTP
snapshot requests are read by the room at one moment (`SnapshotRead`) and
answered at another (`ResyncAnswered`), in any order. A gesture is any op of
`Gestures`; which op a key produces is in `TuiPlayback`. `life` is history: how
often the gateway had been restarted when it sent a state or an event.

**OAuthStore, OAuthServer, CliAuth.** `db` is a record of tables and every
operator of `OAuthStore` one SQLite statement or transaction. A request in
flight is `req[r]`: what it does next, with what it has read; any other request
runs in between, so `Refresh` (consume), the mint of the successor and the mint
of the access token are three actions, as are the three statements of a
password reset. A secret is the number of its row. `file` is the CLI's token
file and `proc` its invocations, which read it, talk to the gateway and write
it with nothing held in between. `excused` is history: the families of tokens
whose last one may be dead or lost. `Quick` is the part of the grace window that
a rotation may take to reach the file.

**TuiPlayback, TuiSignal, PlayQueue.** A handler of the reducer is an operator
from its state `a` to the next; the actions apply one and the loop then takes a
new snapshot of the player (`seen`), which lags behind the audio thread
(`sink`). Ops on the wire, fetches, commands and reports are part of `a`. The
loop spawns a task for every effect, so an op a gesture emits is first in the
bag `submits`; `HandOver` is its task running, in any order with the others: the
op joins the wire, or is dropped while the connection task waits out its backoff.
The gateway's order of ops is the order of their echoes, so the room as this client
knows it is the only copy the model needs. A position is one of four stretches
of a track, as far as the scrobble and skip rules tell them apart.

**TuiAutoplay, TuiViews.** Refills and votes carry what their answers are
recognised by. The reducer keeps thumbs and writes in flight by track alone
(`app.autoplay.votes`, `feedback_inflight`); the gateway keeps a vote by track and
session, and so does `stored`, so that the two can be compared. A write lands
(`FeedbackDone`), is refused or never arrives (`FeedbackFails`), or lands and its
answer is lost (`FeedbackAnswerLost`); the last two look alike to the reducer,
which rolls back. A pane's content is what it was asked for and the number of the
request it answers (`by`), if the code numbers requests there. A request is a
record in a bag and its answer may come at any time, have content, be empty or
fail.

**Ingest.** A vector is its track and the space it is in. `rows` is the durable
table, `ann`, `dirty` and `whitening` the process's memory, `disk` the index
file with its sidecar. A worker goes through fetch, embed, table, index and
flag one step at a time; a save is two files; a refit is fit, install, list,
rebuild, flag, save; `Crash` may come anywhere and `BootRecommender` is what
the next process makes of the files and the table. The index may refuse a vector
before anything is changed (`UpsertFails`, `RefitFails`), after an upsert has
removed the old vector and taken a key (`AddFails`), or in the middle of a rebuild
that has reset the index (`RebuildFails`): the last two leave a change nobody
flagged, which `unflagged` (history) records. A boot over torn files fails and
leaves everything as it was (`ann.rs:140`), so it is no step of the model.

**The other catalogue modules.** Each caller, task, attempt or visitor is a
process whose steps end at the awaits of the code. `Lyrics` keeps the mutex of
a song in a map and counts its references as `Arc` does; `AudioCache` measures,
chooses, unlinks and deletes in separate steps, any of which may fail (`Fails`)
and between any of which the program may end and be started again (`Reopen`, which
evicts nothing); `cut` records that an eviction was cut short; `RateLimit` separates check and
verdict; `AutoProjection` lists the embeddings once and makes two calls;
`ProxyCache` writes, sweeps and revalidates in the background.

**Taste, Ranking, Recommend, Playlists.** A batch of events is stamped
event by event, appended whole, then folded event by event; the counter's fold is a read and a
write-back in a deferred transaction, which SQLite refuses if anyone wrote in
between. Time is in half-lives and scores are integers, so decay is exact. A
recommendation request makes its exclusion lookups one after the other, may fail
to read a seed's vector from the store (`SeedUnread`, which with whitening off is
read from the index first), and ranks in one step; `Ranking` has the algorithms over tables of similarities.
The queue filter and MMR are the code's incremental loops; the properties say
what they amount to.

## 3. Runs

Eight runs pass and four exhibit a disagreement between the code and what the
repository says of it.

| run | question | instance |
|---|---|---|
| `store` | `TypeOK`, `CursorInBounds`, `QueueIdsDistinct`, `NowPlayingKept`: can any sequence of ops leave the cursor or the ids wrong, or change the track under a listener? `OneOpenRow`, `ClosedRowsFinal`, `ResendsRecognised`: what can late, lost and reordered mirrors do to the table, and resends to the room? | scene "queue": three items, all ten op types with indices from `None` to one past the end, up to 5 accepted ops, a restart; scene "sessions": starts, stops and clears of two sessions, two handlers, three op ids, a window of two, 4 accepted ops, a clock that ticks once, one fault |
| `ledger` | `InStep`, `AppliedOnce`, `SubmissionOrder`, `LeavesLedgerDecided`: is anything lost, doubled or reordered between the ledger, the sockets and the room? | two ops of the client, one of another device, one fault of any kind, a ring of one event so that lag happens, a window of one id so that an id is forgotten, redelivered and applied again |
| `settles` | `EventuallySettled`: does the ledger empty and the client agree after a fault? | one op of the client, one of another device, one fault, fairness |
| `replica` | `ReplicaIsPast`, `EventuallyInSync`: can lag, lost frames or late answers make the replica a state that never was? | one gesture, three other ops, one fault, one restart, one unreadable frame, a ring of two |
| `tokens` | `ChainNeverForks`, `CodeMintsOnce`, `AccessDiesWithParent`, `CredentialSurvives`: what can racing, delayed, lost and failing requests do to a credential? | two CLI processes and a browser; a grace window of two instants, of which a rotation may use one; five profiles: device login with rotations, the same with faults and logout, accounts reset and deleted during an exchange, a fresh gateway, guests |
| `terminal` | `EchoDriven`, `LocalMatchesShared`, `OneVerdictPerLoad`, `SilentRemote`, `AutoSkipSettles` (playback), `AutoplayBacked`, `NothingStale`: does the screen and the sound follow what happened, in whatever order it is heard of? | two tracks; 7 starts of playback, 3 of autoplay with votes in two sessions, 5 of the views, each with its own budget of gestures, faults, drops and foreign ops |
| `catalogue` | `BootRestores`, `NothingUnsaved`, `ClaimsAreExclusive` (ingest), `SingleFlight`, `BudgetHolds`, `LimitsHold`, `SiblingsAgree`, `StandInsHidden`: does background work survive crashes and each other? | ingest: three tracks, one bad, two workers, an upsert or a rebuild that fails half way; lyrics: two songs, three callers; cache: three entries, two tasks, a failure or an end of the program; limiters: three sources, two attempts; projection: four tracks, eight minutes; proxy: five covers, two visitors |
| `taste` | `LateSignalsAgeRight`, `ResendsCountOnce`, `RestartKeepsSession`, `SlateClean`, `QueueRules`, `MmrGreedy`, `MembersOnce`: do counters, slates and playlists come out right when requests overlap? | two handlers over programs of two or three signals sent up to twice; six tracks, two of them pointing away from each other, two requests and one vote, play (of a seed, or of a track found through one), rating (of a track, an album or an artist) or fault between their steps; five playlist edits by two writers |
| `lag` | `Converged` is violated | a ring of two, three ops of another device |
| `outage` | `OutageOnlyWaits` is violated | the ingest part of `catalogue` |
| `toggle` | `RawWhenOff` is violated | the ingest part of `catalogue`, with boots that do not whiten |
| `submits` | `PlayNextLandsNext` is violated | one play-next of two tracks, in a room of one |

In `MCTerminal`, `MCCatalogue` and `MCTaste` components that share no state run
side by side: the variable `part` is chosen in `Init` and only that part moves,
so a run explores the sum of their state spaces and not the product. The two
scenes of `MCSyncStore` are the same store under other requests.

Every property of a passing run has a mutant: a definition changed as a
plausible slip would change it (`PushTwice`, `ServeUnlocked`, `ConsumeAlone`,
`ReleaseAlways`, ...), under which TLC finds the property violated.

**Why the bounds are enough.** Removing, moving and replacing around the cursor
needs an item before it, under it and after it: three items. Two handlers are
the least that reorder a mirror; three ids and a window of two the least in
which an id is evicted and comes back; for the web client, whose two ops may each
be resent, a window of one. A socket is written off and replaced by
one fault, and every interleaving of old and new is then possible. A ring
smaller than the number of ops makes lag happen. Four pairs of tokens let two
processes rotate, race, detect reuse within and after the grace window, and
rotate again. Three callers are the least in which one releases a lock, one
waits for it and one finds the map empty. Two tasks over budgets of two, one
and one entries meet between measure and delete. Three sources fill a map of
two, so it is pruned. A projection pair with four growing counts fails, repeats
and is pruned at `KeepRuns = 2`. Two requests and one foreign step between
their lookups are every pairwise race of a slate. The constants the code fixes
(`SEEN_OP_IDS`, `BROADCAST_CAPACITY`, TTLs, thresholds) are parameters.

Instances come to rest when every budget is spent, so they say
`CHECK_DEADLOCK FALSE`; the web client's heartbeat never rests, and there
deadlock is checked. Symmetry is used over handlers, op ids, workers, callers
and writers, in runs without liveness properties.

**Fairness.** `WebSync!Fairness` gives weak fairness to the browser's timers
and events, to the failure of a dial that gets no answer, and to the gateway's
task for each socket: an event loop's callbacks and a `tokio::select!` loop.
Nothing is assumed of `onclose` on a dead link, which a browser may never fire:
finding out is the heartbeat's job, and that it succeeds is what the run shows.
`TuiReplica!Fairness` does the same for the reducer's loop, the task's
reconnect and idle deadline, the gateway's task and the end of each HTTP
request. `TuiPlayback!PlayFairness` assumes that the spawned tasks run, that while online an op on the wire
is eventually echoed or replaced by a snapshot, and that an offline terminal
eventually gets a snapshot: what the two runs above show. It is weak fairness
with the guard written out, which spares TLC the ENABLED of large actions.
Faults, gestures and other devices are never assumed to happen.

**Refinement.** `ClaimsAreExclusive` is `WorkQueue!Spec` under the mapping of
`Ingest`'s statuses to stages and of jobs to holders: claims, failures of the
settling write, crashes and the boot's reset of `in_progress` rows are steps of
the abstract queue or stutters. It includes what is easiest to lose: a settled
track is never worked on again, and a row is settled only by its holder.

**Exceptions stated in properties.**

* `InStep` speaks of sockets the ring did not overrun, and the `settles`
  instance has a ring that never is: the `lag` run shows what happens
  otherwise. Agreement is stated up to `started_ms` of the session, which each
  replica stamps with its own clock.
* `ReplicaIsPast` speaks of replicas that were adopted from the running
  gateway: version counters start again with the process, so an HTTP answer of
  the old one that is adopted after the reconnect outranks the new room.
  `EventuallyInSync` promises nothing to a client that dropped a frame it could
  not read, because only the next event can reveal the gap.
* `AccessDiesWithParent` leaves out an access token whose parent was revoked
  between the two inserts of `mint_pair`: such a token lives until it expires.
* `CredentialSurvives` excuses families one by one: the answer that carried a
  token of it was lost; the account was acted on (revocation, deletion, logout,
  a reset); a statement failed or the gateway restarted under it; or a rotation
  and a replay shared the grace window badly. The gateway accepts a replay as a
  race for `Grace` after the rotation, counted from the rotation, so a process
  that loaded the old token must come back while the grace lasts: a rotation
  that needs more than `Quick` to reach the file, a replay that took the other
  `Grace - Quick`, and a replay during which the rotation it collides with has
  still not come back are excused. Whatever share `Quick` is, nothing else loses
  the credential.
* `AppliedOnce` allows a second application once at least `SeenOpIds` other ops of
  the client were applied since the first; `SubmissionOrder` speaks of first
  applications.
* `AutoplayBacked` leaves out a track whose last vote was stored and its answer
  lost: the rollback then shows a thumb the gateway does not have, until another
  vote on the track lands.
* `NothingStale` holds each pane to what the code can tell. A browse list, the list
  of playlists, a search and a station number their requests: they show the newest
  one's answer. An album, artist, playlist, lyrics document, footer, list of
  suggestions or of neighbours has only the name of what was asked for: it shows an
  answer about what is asked for now, but of two answers about the same thing the
  older may come last (a playlist reopened after a write, lyrics loaded and
  refreshed). The tabs of the diagnostics, the liked songs and the downloads take
  any answer and are not spoken of.
* `NothingUnsaved` leaves out what an upsert or a rebuild that returned an error had
  changed, until the next save (see the disagreements below).
* `BudgetHolds` leaves out what follows an eviction that was cut short, by an error,
  by the end of the program or by a budget lowered while it was not running, until
  a later one gets to measure.
* `BootRestores` speaks of boots that whiten, and of all boots over a table
  nothing was ever fitted on: the `toggle` run shows the others.
* `LateSignalsAgeRight` and `ResendsCountOnce` speak of folds that were
  written. A crash between append and fold loses the fold, since the resend is
  recognised by the log; a fold refused by SQLite is logged and dropped.
* `RestartKeepsSession` excludes the moments in which an event is stamped and
  not yet logged, and what follows a failed append or a failed look for the
  session to resume (`severed`): a session whose events the log lacks, or that
  never asked the log, is not the one a boot finds there.
* `SlateClean` speaks of what stood against the request from its start to its
  answer, and of requests none of whose lookups failed. What lands in between may
  be missed by this one answer and binds the next request. `QueueRules` speaks of
  tracks whose metadata is cached.
* `MembersOnce` allows what a replace wrote: the handler stores a list with
  repeats as it is given.

### What the disagreements are

* `lag`, a bug: after `Lagged` the client gets a snapshot and then the retained
  events the snapshot already contains. The terminal client skips them by
  version; `apply.ts` folds them again, and a browser that lagged may end with
  another cursor than the room's.
* `outage`: `discovery.rs` says that rows enqueued while the embedder is down
  only wait. A worker goes on claiming them, each failed call marks its row
  `failed`, and nothing in the program turns `failed` back.
* `toggle`: `config.rs` says that switching whitening off triggers a rebuild of
  the index at the next boot. The boot rebuilds only when it installed a
  transform or found the index shorter than the table; with whitening off
  neither holds, and the vectors loaded from the file stay whitened while
  queries are raw, until a refit.
* `submits`: `room.rs` says that play-next lands tracks where the local queue would.
  Each op of the gesture is sent by a detached task (`effects.rs:97`), and nothing
  orders the tasks: a reorder may reach the room before its push, and is then
  ignored. On the wire's own order the claim holds (`LocalMatchesShared`), and a
  clear lands alike in every order of its ops.

Others were met while modelling and have no run; the models have the
behaviours:

* sync: `SessionStore::start` closes every open row, so two users listening at
  once end each other's; a stop mirrored before its start leaves a row open
  until another session starts; a setter replaced in the ledger may land after
  its successor; a snapshot that contains ledger ops makes what is rendered
  move until they are acknowledged; an HTTP resync answered after the socket
  died turns the terminal online; a failed one turns it offline while its
  socket lives, until the next event (`effects.rs:317`); `now_ms` is read
  before the lock is waited for (`store.rs:232`); `StartSession` copies a list
  that repeats ids (hence the assumption of `IdsStayDistinct`).
* terminal: a pause pressed while the track is being fetched is undone by its
  arrival; a second refill may be asked for while the echo of the first one's
  pushes is slow; a thumb rolled back after a lost answer is not the stored one; an
  older answer about the same playlist, album, artist or lyrics may show last; a
  diagnostics tab shows whatever answer came last.
* taste: `track_affinity.rs:71` says that concurrent folds lose no update. The
  transaction is deferred, so the second writer fails at once and its fold is
  dropped with a log line.
* accounts: the comment at `music-cli/src/auth/mod.rs:67` says that of two
  concurrent refreshes the loser's rotated token is revoked; it predates the grace
  window, within which the loser is refused and nothing is revoked
  (`CredentialSurvives`); a reset that fails between its three statements leaves sessions or
  tokens alive; a refresh that consumed before a reset mints after it;
  authorization codes survive a reset; the rowid of a deleted guest is used
  again.
* catalogue: the comment at `ann.rs:65` says that the dirty flag is set by every
  mutating call, but `upsert` and `rebuild_from` raise it only on success and change
  the index before steps that can fail, so after such an error the change is not
  saved until something else raises the flag (`unflagged` in `NothingUnsaved`); a
  refit lists the rows before it rebuilds, so a vector upserted in
  between is missing until the next boot; a pin that races an eviction leaves a
  row whose file is gone; after a failed or interrupted eviction the cache stays over
  its budget until the next put, unpin or eviction, since `open` evicts nothing; a
  browse answer written in the background may land
  after an invalidation; a restart after a half-failed projection counts it as
  done; `auto_projection.rs:153` says that a wasted 2D run repeats only while
  embeddings land, and after a failed 3D run every quiet tick repeats it.
* slates: the formula at the head of `mmr.rs` subtracts the largest similarity to the
  picks; the code's running maximum starts at 0, so a candidate with a negative
  cosine to every pick is not rewarded for it (`MmrGreedy` has the floor, and the
  instance such a candidate); `from_seeds` excludes after the top K were fetched, so a well-heard
  neighbourhood gives a short slate.

## 4. Proofs

TLC settles the instances above; the theorems hold for every value of the
constants that their assumptions allow: any rooms, handlers, items, ops, window
and ring; any number of browsers, invocations, tracks, workers, callers, songs
and sources; any lifetimes, limits and budgets.

| theorem | states |
|---|---|
| `PlaybackProofs!ApplySound` | an accepted op on a state that is typed and in bounds yields one that is; ids stay distinct if a started list has distinct ids; the item being played stays unless the op moves the cursor |
| `SyncStoreProofs!TypeCorrect` | `Spec => []TypeOK` |
| `CursorStaysInBounds` | `Spec => []CursorInBounds` |
| `IdsStayDistinct` | `Spec => []QueueIdsDistinct`, if no op of `Ops` starts a list that repeats an id |
| `ListenerKeepsTrack` | `Spec => NowPlayingKept` |
| `AtMostOneOpenRow` | `Spec => []OneOpenRow` |
| `ClosedRowsStayFinal` | `Spec => ClosedRowsFinal` |
| `ResendsAreRecognised` | `Spec => []ResendsRecognised` |
| `ReplicaProofs!ReplicaIsAlwaysPast` | `Spec => []ReplicaIsPast` |
| `WebProofs!ClientInStep` | `Spec => []InStep` |
| `LedgerLosesNothing` | `Spec => LeavesLedgerDecided` |
| `ResendsApplyOnce` | `Spec => []AppliedOnce` |
| `ResendsKeepOrder` | `Spec => []SubmissionOrder` |
| `AccountsProofs!RotationChainsNeverFork` | `Spec => []ChainNeverForks` |
| `CodesMintOnce` | `Spec => []CodeMintsOnce` |
| `AccessTokensDieWithTheirParent` | `Spec => []AccessDiesWithParent` |
| `TheCredentialSurvives` | `Spec => []CredentialSurvives` |
| `CatalogueProofs!IngestIsAWorkQueue` | `IngestSpec => ClaimsAreExclusive`: the ingest implements `WorkQueue` |
| `NothingStaysUnsaved` | `IngestSpec => []NothingUnsaved` |
| `BootsRestoreTheIndex` | `IngestSpec => []BootRestores` |
| `LookupsAreSingleFlight` | `LyricsSpec => []SingleFlight` |
| `SiblingsAlwaysAgree` | `ProjSpec => []SiblingsAgree` |
| `LimitersHold` | `LimitSpec => []LimitsHold` |
| `StandInsStayHidden` | `ProxyInit /\ [][ProxyNext]_proxyVars => []StandInsHidden` |
| `BudgetsHold` | `AudioInit /\ [][AudioNext]_audioVars => []BudgetHolds` |
| `AccountsProofs!MembersStayOnce` | `PlaylistsInit /\ [][PlaylistsNext]_listVars => []MembersOnce` |
| `ResendsAreCountedOnce` | `TasteInit(...) /\ [][TasteStep]_tasteVars => []ResendsCountOnce` |
| `SessionsSurviveRestarts` | `TasteInit(...) /\ [][TasteStep]_tasteVars => []RestartKeepsSession` |
| `TerminalProofs!AutoplayStaysBacked` | `AutoInit /\ [][AutoNext]_autoVars => []AutoplayBacked` |
| `NothingShownIsStale` | `ViewInit /\ [][ViewNext]_viewVars => []NothingStale` |
| `QueueIsTheRooms` | `PlayInit /\ [][PlayNext]_tuiVars => []EchoDriven` |
| `VerdictsOnce` | `PlayInit /\ [][PlayNext]_tuiVars => []OneVerdictPerLoad` |
| `RemotesStaySilent` | `PlayInit /\ [][PlayNext]_tuiVars => SilentRemote` |

None of the invariants is inductive as it stands. What each needs, and why:

**The state machine and the store.** `PlaybackProofs` has a lemma per helper
(what `WithoutIndex`, `WithInserted` and `AtPlaces` do to lengths, ids and the
cursor's item) and per op type, and collects them in `ApplySound`. `Apply` keeps
the cursor typed only if it was in bounds, so the invariant of the store is
`Inv == TypeOK /\ CursorInBounds`. `ResendsRecognised` says nothing of the
window; `SeenIsWindow` adds that `seen` is exactly the last
`Min(SeenOpIds, Len(landed))` ids of `landed`, which keeps equal ids more than
`SeenOpIds` apart. `OneOpenRow` and `ClosedRowsFinal` rest on what
`SessionStart` and `SessionStop` do to a table, whatever the handlers' order,
which is why no loss or delay of a mirror can break them.

**Replicas.** Both speak of `StatesOf`, the states a sequence of ops leads
through. That this recursive function exists and satisfies its equations is
itself proved (`PlaybackProofs`), as are two facts on it: a longer log keeps
its earlier states, and two replicas that fold one op over states equal up to
the stamped time agree up to the stamped time (`Unstamped`), which is not plain
because the op may replace the session or read its presence.
`ReplicaInv` says of every snapshot, in the channel or in the hands of an HTTP
task, that it is a past state of the room of its life, of every event that it is
the log's, and that behind a replica of the running life no frame of an earlier
life is left: that is why a new snapshot, once adopted, ends an old life.

**The web client.** `WebInv` says what stands on each stream: `Flows` makes a
socket's frames one snapshot of the room at some version and then exactly the
events that follow up to the receiver's position, in order, whatever acks and
pongs lie between them; `Tidy` and `ConnInv` tie the two ends together (a
written-off socket is detached, only the socket in use is attached, a dead one
has nothing in flight). `InStep` is `FlowInv` read at the client.
`LeavesLedgerDecided` needs to know that whoever answers has decided:
`FateInv` says so of the answers in flight, the window and the log.
`AppliedOnce` and `SubmissionOrder` need all three parts of `OrderInv`:
`MintedInv` (ids in the ledger rise, and a frame carries the op submitted under
its id), `WindowInv` and `LineInv` (on every socket, old ones that are still
being read included, an op that no later one replaces is ahead of its successors,
or over). `WindowInv` says that the window holds distinct ids in the order of the
log, and that an op of the log it has forgotten is followed by at least
`SeenOpIds` other ids: when an id is evicted, the window is full of ids that were
all applied after it (`AsManyIds` counts them). Neither theorem bounds the number
of submissions or the life of a socket.

**Accounts.** `BaseInv` is the tables' type with its references: a token names
rows that exist and its parent's account. `Matched` says that an invocation only
awaits answers to what it asked. `Shape` classifies the steps, whoever takes
them, by what they do to the token table: quiet ones only let tokens die, the
others start a family, replace a token, or insert what was replaced. `ChainInv`
counts live tokens and handlers between the consuming `UPDATE` and the insert
together, per family and per code: the consuming statement is the gate, and
the proof shows it is enough. `CredInv` follows the credential from the consume
to the file: which rotations carry it, who may still replay it, and how long
ago it was replaced.

**Ingest.** `QueueInv` says that a busy job's row is `in_progress` and its
worker's alone, and nothing is under way in a process that is not up: with it
each step maps to a step of `WorkQueue` or to a stutter, crashes and boots
included. `SaveInv` accounts for the flag: a change not on disk has someone who
will raise the flag, or has lowered it and is saving, or comes from a call that
failed, which `unflagged` remembers until everything is saved; a half-written save has
written the vectors that are in memory, since the lock is held. `KeysDone` and
`RawSoFar` say what a file may hold that a later boot reads, however old it is:
keys only of tracks that are done and, while nothing was fitted, either raw
vectors filed under them or too few to be taken.

**Lyrics, projections, limiters.** `LyricsInv`: no two callers own one mutex, and
a mutex that someone holds or waits for is the map's. The test of
`Arc::strong_count` before the removal is what keeps it so; the proof counts
the references as sets. `StampsOwned`: no stored set is stamped later than the
clock, and what a run has stored has the points it stores next. `LoginInv`
charges verdicts in flight against the limit; `WindowInv` relates the times a
source was served to its window, so that any stretch as long as the window
meets two windows at most (`FewInASpan`).

**The caches.** What `StandInsHidden` claims of a request that has been answered
must be carried from its first look at the table: `ProxyInv` says of each task
and request what the body in its hands can be. What a cover key holds, or what a
background task is about to write under it, is the fallback picture or what may be
shown for that id (`RowsSuit`, `TasksSuit`); what a request must not show is still
remembered while it is looked at, and its body is none of it once classified
(`VisitsSuit`); and a body that enough keys hold is on that many albums or
artists (`Remembered`), because keys are counted by id. `BudgetHolds` needs to know who makes room: `AudioInv` says that the
regular entries fit, or an eviction was cut short, or some task is in the eviction
loop, or about to enter it with a sum over the budget. A task leaves only after a SUM that fits or a COUNT
of at most one; these are two statements, and the lemmas on `SizeOf` and
`Cardinality` say that what other tasks do in between either keeps the room or
brings a task of its own.

**Playlists.** An append reads the members and inserts what is fresh in one
deferred transaction, which SQLite refuses if another write committed in
between. `ReadsHold` says so: a transaction that is not stale has read what is
there. The rest is a lemma on the filter (`FreshFacts`), from those on
`AtPlaces` that the state machine's proofs use too.

**Signals.** Any number of requests overlap, are resent, lose writes and meet
restarts and ratings (`TasteStep`). `CountOK` follows an id from the log to the
counter: whatever is folded or due to be folded is in the log, and is due or
folded in one place. An append makes due only what it found fresh, in the log and
earlier in the batch (`FreshEventFacts`), and every later step takes folds from the
front. For the session, `Holds` says what the open session is in terms of events
in the log and of events in hand, stamped and not yet appended: nothing ends later
than it, something ends when it ends, and what ends then is of it, in the log at
least the last such row. A stamp keeps this because a session changes only when it
moves on; an append, because a resent event it leaves out has a row that happened
at the same time; a boot, because the newest row speaks for the whole log.

**Autoplay.** `RefillsBacked`: every refill under way is of this generation or an
older one, at most one of this, and only while the lock is held. `VotesBacked`:
a track has at most one write in flight, which carries the thumb that is shown and
the one to go back to, which the gateway has under the session the track was last
voted in; without a write the two are the same. Tracks with a lost answer
(`doubtful`) are apart from both.

**Views.** An answer is taken if what it carries still names what is wanted: a
generation, or the target that was asked for. `ViewOK` makes that enough. Of the
requests that carry a generation only the newest can have the current one, and
that one asks for what is wanted now (`Latest`), and what is shown is its answer
(`Fresh`); those recognised by a target
are unambiguous as they are (`Targeted`); suggestions are shown only for the
playlist that is open, and every answer to a write names a playlist (`Listed`).

**Playback.** The invariant is `Rests == PlayOK /\ Projected`. `Projected` is
`EchoDriven`: whoever is online holds the projection of the last state of the room
it was sent, because online handlers send ops and leave the queue alone. `PlayOK`
is for the verdicts. Loads are numbered in the order of the commands: what waits in the channel is newer than
what is heard, seen or judged (`CommandsNewer`); what is heard is what was last
seen or newer than every verdict (`HeardNewer`); the open signal covers every
report of the load it is about (`Remembers`), so a second verdict needs a newer
load. That a remote stays silent is a statement
about steps: each handler is shown to add to the channel only what its role
allows (`Loyal`), and a remote's only stop, pause or restart (`Quiet`).

Assumptions are named, in the module that declares the constants, and TLC
evaluates them in every run: `RoomAssumption` (no op id is `NoOpId`, the window
is not empty), `StoreAssumption`, `TuiAssumption`, `WebAssumption` (the ops are
ops, the bounds numbers, op ids count submissions), `TTLs`, `QuickAssumption`
(`Quick` is part of `Grace`), `ActorsAreSlots`, `ProfilesStart`,
`IngestAssumption`, `LyricsAssumption`, `LimiterAssumption`, `ProjAssumption`,
`AudioAssumption` (finite sets of actors and entries, positive limits),
`ProxyAssumption` (art is told from the placeholder and from browse answers),
`EditsAssumption` (an edit carries tracks), `AutoAssumption` (a start has nothing
under way and shows the gateway's votes), `TasteAssumption` (a batch has events,
times are numbers, events that share a client id share their time, and nothing is
not a session), `ViewAssumption` (`NoId` is no id; a start
shows what was asked for and awaits nothing), `PlayAssumption` (a start has
commanded and judged nothing; what it hears was loaded before; an online queue
is the room's). Each is what the code fixes or what makes a constant a bound.

Only model-checked:

* liveness (`EventuallySettled`, `EventuallyInSync`, `AutoSkipSettles`), which is
  out of the prover's reach;
* `LocalMatchesShared`: it compares the ops of a whole gesture, folded over the
  room's state, with what the same gesture does offline. That is an induction over
  the ops of a gesture, with the fresh ids they mint;
* `LateSignalsAgeRight`: a counter is the aged sum of everything that was folded
  into it, in any order. That holds where halving is exact, as on the instance's
  scores, and is a sum over a set that grows;
* `Recommend`, `Ranking` (`SlateClean`, `QueueRules`, `MmrGreedy`): they are stated
  with recursive operators over data (`MmrOrder`, `Aggregate`), and what such an
  operator computes for every input takes induction over data. Where a theorem
  above needed such an induction it was made by hand, as the absurdity of a
  least counterexample (`CommonLemmas!NatMin`), over a recursive function;
* the six disagreements.

## 5. Not modelled

* **The web player, its audio cache, event outbox and token refresh**: the
  browser's counterparts of `TuiPlayback`, `TuiAutoplay`, `AudioCache`,
  `Taste`'s senders and `CliAuth`, in TypeScript over React effects and browser
  APIs whose scheduling is the browser's. The gateway's half of each is
  modelled, resends and races of clients included.
* **Pages, views, components, styles, key tables, one-shot CLI commands**:
  layout and rendering without state of their own. So are the settings form
  and the selections and scrolling of the terminal's lists.
* **Search**: an index rebuilt whole and swapped; scoring of strings is data.
* **Numbers**: the whitening fit, cosine similarity in floating point, UMAP,
  the approximate index. `Ranking` has exact integer scores and an exact index.
* **Texts**: LRC parsing, HTML pages, hashing, PKCE digests, formatting.
* **Diagnostics, tracing, metrics, benchmarks, configuration, routing, the
  Subsonic client, the Python sidecar and deployment**: reports on the state
  above, stateless calls, start-up, or other programs.
* Within modelled components: the mint of a WebSocket token and the choice of
  the room from the principal; decoding and the audio device;
  `AudioCache::delete`, which nothing calls; one-shot commands that open the audio
  cache of a running terminal from a process of their own, with their own budgets.
* Merged steps: `OAuthServer!DetectReuse` takes the `SELECT` that recognises a
  replayed token and the `UPDATE` that revokes its family
  (`oauth/handlers.rs:680`) as one.

`PROJECT.json` lists each of them with its status.

## 6. Plan

Done: the state machine, the store and both replicas; accounts; the terminal;
the gateway's background work and caches; signals, recommendations, playlists;
the proofs of section 4.

Next, `TuiPlayback!LocalMatchesShared` as a theorem: it relates two forms of each
gesture.

Runs are few on purpose: each component brings bounds that make its hazards
happen, and a run exhibits a disagreement only where one is met.
