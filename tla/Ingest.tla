------------------------------- MODULE Ingest -------------------------------
(***************************************************************************)
(* How a track becomes recommendable.  The catalogue watch offers tracks   *)
(* to a durable table; workers claim rows, fetch and embed a clip, and     *)
(* record the vector first in the table, then in the in-memory index; a    *)
(* persister writes the index and its key sidecar to two files; a refit    *)
(* installs a new whitening transform and rebuilds the index from the      *)
(* table; a boot resets what the last process left, and rebuilds.          *)
(*                                                                         *)
(* A vector is its track and the space it is in: 0 is raw, n the n-th      *)
(* fitted transform.                                                       *)
(***************************************************************************)
EXTENDS Integers, FiniteSets

CONSTANTS Tracks, Workers, Nobody,
          BadClips,          \* tracks whose audio never embeds
          Settings,          \* what whitening_enabled is, boot after boot: the operator may edit it
          Untagged,          \* tracks whose metadata the worker does not get
          FullEvery,         \* discovery ticks between full sweeps
          Budgets            \* how many scans, refits, boots and faults a behaviour has, and how often the
                             \* index refuses a vector or a refit gives up

ASSUME IngestAssumption ==
  /\ IsFiniteSet(Tracks) /\ BadClips \cup Untagged \subseteq Tracks /\ Nobody \notin Tracks \cup Workers
  /\ Settings \subseteq BOOLEAN
  /\ FullEvery \in Nat \ {0} /\ Budgets \subseteq [{"scans", "refits", "boots", "faults", "refusals"} -> Nat]

VARIABLES rows,      \* track_embeddings: status of each track, and when it was queued
          metadata,  \* track_metadata
          job,       \* what each worker is doing
          ann,       \* AnnIndex::inner
          dirty,     \* AnnIndex::dirty
          unflagged, \* whether a call that failed changed the index since it was last saved
          whitening, \* AnnIndex::whitening
          fitted,    \* the newest transform in the whitening store, 0 if none
          saver,     \* the callers of persist and how far they are
          disk,      \* the index file and its .keys sidecar
          refit,     \* the handler of refit_whitening
          gateway,   \* the process: phase, discovery's ticks since a full sweep, whitening_enabled
          sidecar,   \* whether the embedder answers
          budget     \* scans, refits, boots, faults and refusals left

ingestVars == <<rows, metadata, job, ann, dirty, unflagged, whitening, fitted, saver, disk,
                refit, gateway, sidecar, budget>>

Keys == 1..(2 * Cardinality(Tracks))
Savers == {"tick", "refit"}
NoVector == [track |-> Nobody, space |-> 0]
Vector(t, s) == [track |-> t, space |-> s]
Idle == [at |-> "idle", track |-> Nobody, space |-> 0]
NoRefit == [at |-> "idle", listed |-> {}]
Process(phase, whitens) == [phase |-> phase, sinceFull |-> FullEvery - 1, whitens |-> whitens]
EmptyIndex == [key |-> [t \in Tracks |-> 0], vec |-> [k \in Keys |-> NoVector], next |-> 1]

With(status) == {t \in Tracks : rows[t].status = status}
Done == With("done")
Running == gateway.phase = "up"
Held(t) == {w \in Workers : job[w].track = t}
Spend(what) == budget[what] > 0 /\ budget' = [budget EXCEPT ![what] = @ - 1]
\* A writer of the index waits for the saves that hold the read lock.
\* Mutant: it does not.
UnlockedAlways == TRUE
Unlocked == \A s \in Savers : saver[s] # "half"
Length(index) == Cardinality({t \in Tracks : index.key[t] # 0})

IngestInit ==
  /\ rows = [t \in Tracks |-> [status |-> "absent", since |-> 0]]
  /\ metadata = {} /\ job = [w \in Workers |-> Idle]
  /\ ann = EmptyIndex /\ dirty = FALSE /\ unflagged = FALSE /\ whitening = 0 /\ fitted = 0
  /\ saver = [s \in Savers |-> "no"] /\ disk = EmptyIndex /\ refit = NoRefit
  /\ gateway = Process("down", TRUE) /\ sidecar = TRUE
  /\ budget \in Budgets

----------------------------------------------------------------------------
(* Discovery: INSERT OR IGNORE, so a row already there is left as it is.   *)

Enqueued(S) == [t \in Tracks |-> IF t \in S /\ rows[t].status = "absent"
                                 THEN [status |-> "not_started", since |-> -budget.scans]
                                 ELSE rows[t]]

\* A recent scan sees the albums it can read; a full sweep sees everything, or
\* fails after some of its chunks are committed.
Seen(full) == IF ~full THEN SUBSET Tracks
              ELSE IF budget.faults > 0 THEN SUBSET Tracks ELSE {Tracks}

WatchTick ==
  LET full == gateway.sinceFull + 1 >= FullEvery IN
  \E S \in Seen(full) :
    /\ Running /\ Spend("scans")
    /\ gateway' = [gateway EXCEPT !.sinceFull = IF full THEN 0 ELSE @ + 1]
    /\ rows' = Enqueued(S)
    /\ UNCHANGED <<metadata, job, ann, dirty, unflagged, whitening, fitted, saver, disk, refit, sidecar>>

\* POST /v1/recommend/enqueue and /v1/admin/discovery/scan; both are refused while
\* the model's name is unknown.
EnqueueRequest == \E S \in SUBSET Tracks :
  /\ Running /\ Spend("scans")
  /\ rows' = Enqueued(S)
  /\ UNCHANGED <<metadata, job, ann, dirty, unflagged, whitening, fitted, saver, disk, refit, gateway, sidecar>>

----------------------------------------------------------------------------
(* IngestWorker::process_next, cut at its awaits.                          *)

\* Mutant: a claim that also picks rows another worker has in progress.
ClaimableAgain(t) == rows[t].status \in {"not_started", "in_progress"}
Claimable(t) == /\ rows[t].status = "not_started"
                /\ \A u \in With("not_started") : rows[t].since <= rows[u].since
WithMetadata(t) == metadata \cup ({t} \ Untagged)     \* a metadata row, when Navidrome answers
ClaimNext(w, t) == /\ Running /\ job[w].at = "idle" /\ Claimable(t)
                   /\ rows' = [rows EXCEPT ![t].status = "in_progress"]
                   /\ job' = [job EXCEPT ![w] = [at |-> "embed", track |-> t, space |-> 0]]
                   /\ metadata' = WithMetadata(t)
                   /\ UNCHANGED <<ann, dirty, unflagged, whitening, fitted, saver, disk, refit, gateway, sidecar, budget>>

\* fetch_clip (with its forced transcode retry) and embed_audio.
EmbedOne(w) == /\ job[w].at = "embed"
               /\ job' = [job EXCEPT ![w].at =
                            IF sidecar /\ job[w].track \notin BadClips THEN "vector" ELSE "reason"]
               /\ UNCHANGED <<rows, metadata, ann, dirty, unflagged, whitening, fitted, saver, disk, refit,
                              gateway, sidecar, budget>>

MarkDone(w) == /\ job[w].at = "vector"
               /\ rows' = [rows EXCEPT ![job[w].track].status = "done"]
               /\ job' = [job EXCEPT ![w].at = "whiten"]
               /\ UNCHANGED <<metadata, ann, dirty, unflagged, whitening, fitted, saver, disk, refit, gateway,
                              sidecar, budget>>

MarkFailed(w) == /\ job[w].at = "reason"
                 /\ rows' = [rows EXCEPT ![job[w].track].status = "failed"]
                 /\ job' = [job EXCEPT ![w] = Idle]
                 /\ UNCHANGED <<metadata, ann, dirty, unflagged, whitening, fitted, saver, disk, refit, gateway,
                                sidecar, budget>>

\* Either UPDATE may fail: the drain is abandoned and the row stays in progress.
StoreFails(w) == /\ job[w].at \in {"vector", "reason"} /\ Spend("faults")
                 /\ job' = [job EXCEPT ![w] = Idle]
                 /\ UNCHANGED <<rows, metadata, ann, dirty, unflagged, whitening, fitted, saver, disk, refit,
                                gateway, sidecar>>

----------------------------------------------------------------------------
(* AnnIndex: upsert whitens before it takes the write lock and raises the  *)
(* flag after it has let it go; persist holds the read lock throughout.    *)

Whiten(w) == /\ job[w].at = "whiten"
             /\ job' = [job EXCEPT ![w].at = "add", ![w].space = whitening]
             /\ UNCHANGED <<rows, metadata, ann, dirty, unflagged, whitening, fitted, saver, disk, refit,
                            gateway, sidecar, budget>>

Replaced(index, t, s) ==
  LET k == index.next IN
  [key |-> [index.key EXCEPT ![t] = k],
   vec |-> [j \in Keys |-> IF j = k THEN Vector(t, s)
                           ELSE IF j = index.key[t] THEN NoVector ELSE index.vec[j]],
   next |-> k + 1]

Upsert(w) == /\ job[w].at = "add" /\ Unlocked /\ ann.next \in Keys
             /\ ann' = Replaced(ann, job[w].track, job[w].space)
             /\ job' = [job EXCEPT ![w].at = "flag"]
             /\ UNCHANGED <<rows, metadata, dirty, unflagged, whitening, fitted, saver, disk, refit, gateway,
                            sidecar, budget>>

\* The index refuses the vector: logged, and left to the next boot's rebuild.  It may
\* refuse before anything is changed, or after the old vector is gone and the key is taken.
UpsertFails(w) == /\ job[w].at = "add" /\ Spend("refusals")
                  /\ job' = [job EXCEPT ![w] = Idle]
                  /\ UNCHANGED <<rows, metadata, ann, dirty, unflagged, whitening, fitted, saver, disk,
                                 refit, gateway, sidecar>>

Evicted(index, t) ==
  [key |-> index.key,
   vec |-> [j \in Keys |-> IF j = index.key[t] THEN NoVector ELSE index.vec[j]],
   next |-> index.next + 1]
AddFails(w) == /\ job[w].at = "add" /\ Unlocked /\ ann.next \in Keys /\ Spend("refusals")
               /\ ann' = Evicted(ann, job[w].track)
               /\ unflagged' = TRUE
               /\ job' = [job EXCEPT ![w] = Idle]
               /\ UNCHANGED <<rows, metadata, dirty, whitening, fitted, saver, disk, refit, gateway,
                              sidecar>>

RaiseFlag(w) == /\ job[w].at = "flag"
                /\ dirty' = TRUE
                /\ job' = [job EXCEPT ![w] = Idle]
                /\ UNCHANGED <<rows, metadata, ann, unflagged, whitening, fitted, saver, disk, refit, gateway,
                               sidecar, budget>>

\* persist_if_dirty: the flag is taken down before the lock is asked for.
PersistIfDirty == /\ Running /\ dirty /\ saver["tick"] = "no"
                  /\ dirty' = FALSE
                  /\ saver' = [saver EXCEPT !["tick"] = "begun"]
                  /\ UNCHANGED <<rows, metadata, job, ann, unflagged, whitening, fitted, disk, refit, gateway,
                                 sidecar, budget>>

SaveIndex(s) == /\ saver[s] = "begun"
                /\ disk' = [disk EXCEPT !.vec = ann.vec]
                /\ saver' = [saver EXCEPT ![s] = "half"]
                /\ UNCHANGED <<rows, metadata, job, ann, dirty, unflagged, whitening, fitted, refit, gateway,
                               sidecar, budget>>

SaveKeys(s) == /\ saver[s] = "half"
               /\ disk' = [disk EXCEPT !.key = ann.key, !.next = ann.next]
               /\ dirty' = FALSE /\ unflagged' = FALSE
               /\ saver' = [saver EXCEPT ![s] = "no"]
               /\ UNCHANGED <<rows, metadata, job, ann, whitening, fitted, refit, gateway, sidecar, budget>>

\* A write fails: the tick re-arms the flag, the refit's persist is best effort,
\* a boot's persist stops the boot.
SaveFails(s) == /\ saver[s] # "no" /\ Running /\ Spend("faults")
                /\ dirty' = (dirty \/ s = "tick")
                /\ saver' = [saver EXCEPT ![s] = "no"]
                /\ UNCHANGED <<rows, metadata, job, ann, unflagged, whitening, fitted, disk, refit, gateway, sidecar>>

\* rebuild_from: keys are numbered anew from 1.
Numbered(S) == CHOOSE f \in [Tracks -> 0..Cardinality(S)] :
                 /\ \A t \in Tracks : (f[t] = 0) <=> (t \notin S)
                 /\ \A t, u \in S : f[t] = f[u] => t = u
Rebuilt(S, s) ==
  [key |-> Numbered(S),
   vec |-> [k \in Keys |-> IF \E t \in S : Numbered(S)[t] = k
                           THEN Vector(CHOOSE t \in S : Numbered(S)[t] = k, s) ELSE NoVector],
   next |-> Cardinality(S) + 1]
CutShort(S, s) == [Rebuilt(S, s) EXCEPT !.next = @ + 1]      \* the next one was refused

----------------------------------------------------------------------------
(* POST /v1/recommend/refit_whitening, one at a time behind refit_gate.    *)

RefitFit == /\ Running /\ refit.at = "idle" /\ Done # {} /\ Spend("refits")
            /\ fitted' = fitted + 1
            /\ refit' = [refit EXCEPT !.at = "install"]
            /\ UNCHANGED <<rows, metadata, job, ann, dirty, unflagged, whitening, saver, disk, gateway, sidecar>>

RefitInstall == /\ refit.at = "install"
                /\ whitening' = fitted
                /\ refit' = [refit EXCEPT !.at = "list"]
                /\ UNCHANGED <<rows, metadata, job, ann, dirty, unflagged, fitted, saver, disk, gateway, sidecar,
                               budget>>

RefitList == /\ refit.at = "list"
             /\ refit' = [at |-> "rebuild", listed |-> Done]
             /\ UNCHANGED <<rows, metadata, job, ann, dirty, unflagged, whitening, fitted, saver, disk, gateway,
                            sidecar, budget>>

RefitRebuild == /\ refit.at = "rebuild" /\ Unlocked
                /\ ann' = Rebuilt(refit.listed, whitening)
                /\ refit' = [at |-> "flag", listed |-> {}]
                /\ UNCHANGED <<rows, metadata, job, dirty, unflagged, whitening, fitted, saver, disk, gateway,
                               sidecar, budget>>

\* The store does not answer, or a vector is refused before the index is touched.
RefitFails == /\ refit.at \in {"list", "rebuild"} /\ Spend("refusals")
              /\ refit' = NoRefit
              /\ UNCHANGED <<rows, metadata, job, ann, dirty, unflagged, whitening, fitted, saver, disk,
                             gateway, sidecar>>

\* The index was reset, some of the vectors are in, and the next is refused.
RebuildFails == \E S \in SUBSET refit.listed \ {refit.listed} :
  /\ refit.at = "rebuild" /\ Unlocked /\ Spend("refusals")
  /\ ann' = CutShort(S, whitening)
  /\ unflagged' = TRUE
  /\ refit' = NoRefit
  /\ UNCHANGED <<rows, metadata, job, dirty, whitening, fitted, saver, disk, gateway, sidecar>>

RefitPersist == /\ refit.at = "flag" /\ saver["refit"] = "no"
                /\ dirty' = TRUE
                /\ saver' = [saver EXCEPT !["refit"] = "begun"]
                /\ refit' = NoRefit
                /\ UNCHANGED <<rows, metadata, job, ann, unflagged, whitening, fitted, disk, gateway, sidecar, budget>>

----------------------------------------------------------------------------
(* The process and the sidecar.                                            *)

\* reset_in_progress, then load_or_fit_whitening.
BootRows == [t \in Tracks |-> IF rows[t].status = "in_progress"
                              THEN [rows[t] EXCEPT !.status = "not_started"] ELSE rows[t]]
BootFit(whitens) == IF fitted > 0 \/ ~whitens \/ Done = {} THEN fitted ELSE 1
BootSpace(whitens) == IF whitens THEN BootFit(whitens) ELSE 0

\* Mutant: only the lengths are compared.
RebuildWhenShort(whitens) == Length(disk) < Cardinality(Done)

\* A transform installed at boot forces the rebuild; without one it is forced
\* by an index that holds fewer tracks than the table.
MustRebuild(whitens) == BootSpace(whitens) > 0 \/ Length(disk) < Cardinality(Done)
BootRecommender(whitens) ==
  /\ gateway.phase = "down" /\ sidecar /\ Spend("boots")
  /\ rows' = BootRows /\ fitted' = BootFit(whitens) /\ whitening' = BootSpace(whitens)
  /\ ann' = IF MustRebuild(whitens) THEN Rebuilt(Done, BootSpace(whitens)) ELSE disk
  /\ dirty' = FALSE /\ unflagged' = FALSE
  /\ IF MustRebuild(whitens) /\ Done # {}
     THEN /\ disk' = [disk EXCEPT !.vec = ann'.vec]
          /\ saver' = [saver EXCEPT !["tick"] = "half"]
     ELSE UNCHANGED <<disk, saver>>
  /\ gateway' = Process("booting", whitens)
  /\ UNCHANGED <<metadata, job, refit, sidecar>>

\* The boot has returned: workers, persister, backfill and watch are spawned.
SpawnTasks == /\ gateway.phase = "booting" /\ Unlocked
              /\ gateway' = [gateway EXCEPT !.phase = "up"]
              /\ UNCHANGED <<rows, metadata, job, ann, dirty, unflagged, whitening, fitted, saver, disk, refit,
                             sidecar, budget>>

\* The embedder did not answer the boot probe: the model's name is unknown and
\* nothing that stamps rows with it is started.
BootDegraded == /\ gateway.phase = "down" /\ ~sidecar /\ Spend("boots")
                /\ rows' = BootRows /\ ann' = disk /\ unflagged' = FALSE
                /\ gateway' = Process("degraded", TRUE)
                /\ UNCHANGED <<metadata, job, dirty, whitening, fitted, saver, disk, refit, sidecar>>

Crash == /\ gateway.phase # "down" /\ budget.boots > 0
         /\ job' = [w \in Workers |-> Idle] /\ whitening' = 0
         /\ ann' = EmptyIndex /\ dirty' = FALSE /\ unflagged' = FALSE
         /\ saver' = [s \in Savers |-> "no"] /\ refit' = NoRefit
         /\ gateway' = Process("down", TRUE)
         /\ UNCHANGED <<rows, metadata, fitted, disk, sidecar, budget>>

SidecarTurns == /\ Spend("faults") /\ sidecar' = ~sidecar
                /\ UNCHANGED <<rows, metadata, job, ann, dirty, unflagged, whitening, fitted, saver, disk, refit, gateway>>

\* spawn_metadata_backfill, for as long as its walk lasts: rows done without metadata,
\* one fetch each.
MissingForModel == Done \ metadata
Backfill == \E t \in MissingForModel :
              /\ Running /\ metadata' = metadata \cup {t}
              /\ UNCHANGED <<rows, job, ann, dirty, unflagged, whitening, fitted, saver, disk, refit, gateway,
                             sidecar, budget>>

WorkerStep(w) == \/ \E t \in Tracks : ClaimNext(w, t)
                 \/ EmbedOne(w) \/ MarkDone(w) \/ MarkFailed(w) \/ StoreFails(w)
                 \/ Whiten(w) \/ Upsert(w) \/ UpsertFails(w) \/ AddFails(w) \/ RaiseFlag(w)

IngestNext == \/ WatchTick \/ EnqueueRequest \/ PersistIfDirty \/ Backfill
              \/ RefitFit \/ RefitInstall \/ RefitList \/ RefitRebuild \/ RebuildFails \/ RefitFails \/ RefitPersist
              \/ SpawnTasks \/ BootDegraded \/ Crash \/ SidecarTurns
              \/ \E whitens \in Settings : BootRecommender(whitens)
              \/ \E w \in Workers : WorkerStep(w)
              \/ \E s \in Savers : SaveIndex(s) \/ SaveKeys(s) \/ SaveFails(s)
IngestSpec == IngestInit /\ [][IngestNext]_ingestVars

----------------------------------------------------------------------------
(* Properties.                                                             *)

\* After a boot that knows its model the index holds exactly the tracks the table
\* has done, each under its own key and in the space queries are whitened into,
\* whatever the last process had managed to save (boot_recommender's rebuild).  It
\* takes a boot that whitens, or a table nothing was ever fitted on (RawWhenOff).
BootRestores == gateway.phase = "booting" /\ (gateway.whitens \/ fitted = 0) =>
  \A t \in Tracks : IF rows[t].status = "done"
                    THEN ann.key[t] # 0 /\ ann.vec[ann.key[t]] = Vector(t, whitening)
                    ELSE ann.key[t] = 0

\* "When false, the ANN holds raw vectors (legacy behaviour).  Toggling this triggers
\* a one-time ANN rebuild at the next boot": so a boot without whitening has raw
\* vectors only.
RawWhenOff == gateway.phase = "booting" /\ ~gateway.whitens =>
  \A t \in Tracks : ann.key[t] # 0 => ann.vec[ann.key[t]].space = 0

\* Nobody is between a change and its flag or in the middle of a save, and the index is
\* not marked dirty.
TakenForSaved == /\ Running /\ ~dirty /\ refit.at # "flag"
                 /\ \A s \in Savers : saver[s] = "no"
                 /\ \A w \in Workers : job[w].at # "flag"

\* What is taken for saved is saved (upsert, rebuild_from, persist and persist_if_dirty
\* racing over one flag and one lock), unless an upsert or a rebuild that returned an
\* error had changed the index before it did, and nothing was saved since.
NothingUnsaved == TakenForSaved /\ ~unflagged => disk = ann

\* The embedding queue is a work queue: the statuses are its stages, and a row is
\* held by the worker whose job names it until that row is settled.
StageOf(status) == CASE status = "absent" -> "unseen" [] status = "not_started" -> "waiting"
                     [] status = "in_progress" -> "held" [] OTHER -> "settled"
stage == [t \in Tracks |-> StageOf(rows[t].status)]
holder == [t \in Tracks |-> IF rows[t].status = "in_progress" /\ Held(t) # {}
                           THEN CHOOSE w \in Held(t) : TRUE ELSE Nobody]
Queue == INSTANCE WorkQueue WITH stage <- stage, holder <- holder
ClaimsAreExclusive == Queue!Spec

\* What discovery.rs says of an outage of the embedder: rows wait for it, none is
\* lost.  A row is given up only for its own audio.
OutageOnlyWaits == \A t \in Tracks : rows[t].status = "failed" => t \in BadClips

=============================================================================
