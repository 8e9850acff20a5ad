--------------------------- MODULE CatalogueProofs ---------------------------
(* Proofs about the gateway's background work and caches: the embedding      *)
(* ingest, the lyrics resolver, the projection job, the two rate limiters,   *)
(* the proxy's covers, and the audio cache.  Each part has its inductive     *)
(* invariant, the lemmas that every step keeps it and the theorem that a run *)
(* checks on a small instance.                                               *)
EXTENDS Ingest, Lyrics, AutoProjection, RateLimit, ProxyCache, AudioCache, CommonLemmas, FiniteSetTheorems, TLAPS

-----------------------------------------------------------------------------
(* The embedding ingest, for any number of tracks, workers, scans, refits,   *)
(* crashes and boots: that it is a work queue, that no change of the index   *)
(* is forgotten by its dirty flag, and that a boot restores the index from   *)
(* what the last process left.                                               *)

Statuses == {"absent", "not_started", "in_progress", "done", "failed"}
Working == {"embed", "vector", "reason"}       \* the row is in progress
Adding == {"whiten", "add", "flag"}            \* the row is done
VectorType == [track : Tracks \cup {Nobody}, space : Nat]
Index == [key : [Tracks -> Nat], vec : [Keys -> VectorType], next : Nat]

RowsType == rows \in [Tracks -> [status : Statuses, since : Int]]
JobType == job \in [Workers -> [at : {"idle"} \cup Working \cup Adding,
                                track : Tracks \cup {Nobody}, space : Nat]]
BudgetType == budget \in [{"scans", "refits", "boots", "faults", "refusals"} -> Nat]
GatewayType == gateway \in [phase : {"down", "booting", "up", "degraded"}, sinceFull : Nat, whitens : BOOLEAN]
SpacesType == whitening \in Nat /\ fitted \in Nat
SaverType == saver \in [Savers -> {"no", "begun", "half"}] /\ dirty \in BOOLEAN /\ unflagged \in BOOLEAN
RefitType == refit \in [at : {"idle", "install", "list", "rebuild", "flag"}, listed : SUBSET Tracks]
IndexType == ann \in Index /\ disk \in Index
QueueType == RowsType /\ JobType /\ BudgetType /\ GatewayType /\ SpacesType

\* A worker's job names a row in the state the worker believes it in.
JobsHold ==
  \A w \in Workers :
    /\ job[w].at = "idle" => job[w].track = Nobody
    /\ job[w].at \in Working => job[w].track \in Tracks /\ rows[job[w].track].status = "in_progress"
    /\ job[w].at \in Adding => job[w].track \in Tracks /\ rows[job[w].track].status = "done"

\* No two of them name the same.
OneWorker ==
  \A v, w \in Workers : v # w /\ job[v].at # "idle" /\ job[w].at # "idle" => job[v].track # job[w].track

\* Nothing is under way in a process that is not up.
Quiet == gateway.phase # "up" => refit = NoRefit /\ \A w \in Workers : job[w] = Idle

QueueInv == QueueType /\ JobsHold /\ OneWorker /\ Quiet

\* The lock: what a save has written of the index is the index.
HalfSaved == \A s \in Savers : saver[s] = "half" => disk.vec = ann.vec

\* A transform was fitted on some tracks.
FitOnTracks == (fitted > 0 => Done # {}) /\ (refit.at # "idle" => fitted > 0)

\* Whoever lowers the flag saves, or raises it again; who changed the index and failed is remembered.
Accounted ==
  (/\ gateway.phase \in {"booting", "up"} /\ ~dirty /\ ~unflagged /\ refit.at # "flag"
   /\ \A w \in Workers : job[w].at # "flag") => disk = ann \/ saver["tick"] # "no"

SaveInv == SaverType /\ RefitType /\ IndexType /\ HalfSaved /\ FitOnTracks /\ Accounted

\* Only a process saves; keys are handed out in order, to tracks that are done.
KeysDone ==
  /\ gateway.phase \in {"down", "degraded"} => \A s \in Savers : saver[s] = "no"
  /\ refit.listed \subseteq Done
  /\ \A t \in Tracks : /\ ann.key[t] < ann.next /\ disk.key[t] < disk.next
                       /\ ann.key[t] # 0 \/ disk.key[t] # 0 => rows[t].status = "done"

\* Each track's key leads to its raw vector.
Filed(index) == \A t \in Tracks : index.key[t] # 0 => /\ index.key[t] \in Keys
                                                      /\ index.vec[index.key[t]] = Vector(t, 0)
Short == Length(disk) < Cardinality(Done)

\* While nothing was ever fitted, all is raw, and the files are the index as it
\* was some time ago, or too short to be taken.
RawSoFar ==
  fitted = 0 =>
    /\ whitening = 0 /\ \A w \in Workers : job[w].space = 0
    /\ Filed(disk) \/ Short
    /\ gateway.phase \in {"booting", "up"} =>
         /\ Filed(ann)
         /\ Short \/ \A t \in Tracks : disk.key[t] # 0 => ann.key[t] = disk.key[t]
         /\ \A w \in Workers : job[w].at \in {"whiten", "add"} => ann.key[job[w].track] = 0

-----------------------------------------------------------------------------
\* Before the first boot there is no row and no job.
LEMMA QueueInitInv == IngestInit => QueueInv
<1> SUFFICES ASSUME IngestInit PROVE QueueInv
  OBVIOUS
<1>1. QueueType
  <2>1. RowsType /\ JobType
    BY DEF IngestInit, RowsType, JobType, Statuses, Idle
  <2>2. BudgetType
    BY IngestAssumption DEF IngestInit, BudgetType
  <2>3. GatewayType
    BY IngestAssumption DEF IngestInit, GatewayType, Process
  <2>4. SpacesType
    BY DEF IngestInit, SpacesType
  <2> QED BY <2>1, <2>2, <2>3, <2>4 DEF QueueType
<1>2. JobsHold /\ OneWorker /\ Quiet
  BY DEF IngestInit, JobsHold, OneWorker, Quiet, Idle, Working, Adding
<1> QED BY <1>1, <1>2 DEF QueueInv

\* What is spent was there.
LEMMA SpendType ==
  ASSUME BudgetType, NEW what \in {"scans", "refits", "boots", "faults", "refusals"}, Spend(what)
  PROVE  BudgetType'
BY DEF BudgetType, Spend

\* Vector spaces are numbered.
LEMMA SpacesNextType == SpacesType /\ [IngestNext]_ingestVars => SpacesType'
<1> SUFFICES ASSUME SpacesType, [IngestNext]_ingestVars PROVE SpacesType'
  OBVIOUS
<1>1. CASE RefitFit \/ RefitInstall
  BY <1>1 DEF RefitFit, RefitInstall, SpacesType
<1>2. ASSUME NEW whitens \in Settings, BootRecommender(whitens) PROVE SpacesType'
  BY <1>2 DEF BootRecommender, BootFit, BootSpace, SpacesType
<1>3. CASE Crash
  BY <1>3 DEF Crash, SpacesType
<1>4. SUFFICES ASSUME UNCHANGED <<whitening, fitted>> PROVE SpacesType'
  BY <1>1, <1>2, <1>3
     DEF IngestNext, WatchTick, EnqueueRequest, PersistIfDirty, Backfill, RefitList, RefitRebuild,
         RebuildFails, RefitFails, RefitPersist, SpawnTasks, BootDegraded, SidecarTurns, WorkerStep,
         ClaimNext, EmbedOne, MarkDone, MarkFailed, StoreFails, Whiten, Upsert, UpsertFails, AddFails,
         RaiseFlag, SaveIndex, SaveKeys, SaveFails, ingestVars
<1> QED BY <1>4 DEF SpacesType

\* Every step keeps what the rows and the workers' jobs say of one another: a
\* reset of stale claims happens only where no worker is left to hold one.
LEMMA QueueNextInv == QueueInv /\ [IngestNext]_ingestVars => QueueInv'
<1> SUFFICES ASSUME QueueInv, [IngestNext]_ingestVars PROVE QueueInv'
  OBVIOUS
<1> USE DEF QueueInv, QueueType
<1>0. SpacesType'
  BY SpacesNextType
<1>1. CASE WatchTick
  <2>1. RowsType' /\ \A t \in Tracks : rows[t].status # "absent" => rows'[t] = rows[t]
    BY <1>1 DEF WatchTick, Enqueued, RowsType, Statuses, BudgetType
  <2>2. BudgetType'
    BY <1>1, SpendType DEF WatchTick
  <2>3. GatewayType'
    BY <1>1 DEF WatchTick, GatewayType
  <2>4. JobType' /\ OneWorker'
    BY <1>1 DEF WatchTick, JobType, OneWorker
  <2>5. JobsHold'
    BY <1>1, <2>1 DEF WatchTick, JobsHold
  <2>6. Quiet'
    BY <1>1 DEF WatchTick, Quiet, GatewayType
  <2> QED BY <1>0, <2>1, <2>2, <2>3, <2>4, <2>5, <2>6
<1>2. CASE EnqueueRequest
  <2>1. RowsType' /\ \A t \in Tracks : rows[t].status # "absent" => rows'[t] = rows[t]
    BY <1>2 DEF EnqueueRequest, Enqueued, RowsType, Statuses, BudgetType
  <2>2. BudgetType'
    BY <1>2, SpendType DEF EnqueueRequest
  <2>3. GatewayType' /\ JobType' /\ OneWorker' /\ Quiet'
    BY <1>2 DEF EnqueueRequest, GatewayType, JobType, OneWorker, Quiet
  <2>5. JobsHold'
    BY <1>2, <2>1 DEF EnqueueRequest, JobsHold
  <2> QED BY <1>0, <2>1, <2>2, <2>3, <2>5

\* Steps that leave rows, jobs and the process alone.
<1>3. ASSUME UNCHANGED <<rows, job, gateway>>, BudgetType', gateway.phase = "up" \/ UNCHANGED refit
      PROVE  QueueInv'
  BY <1>0, <1>3 DEF RowsType, JobType, GatewayType, JobsHold, OneWorker, Quiet
<1>4. CASE PersistIfDirty
  BY <1>0, <1>3, <1>4 DEF PersistIfDirty, BudgetType
<1>5. CASE Backfill
  BY <1>0, <1>3, <1>5 DEF Backfill, BudgetType
<1>6. CASE RefitFit \/ RefitInstall \/ RefitList \/ RefitRebuild \/ RebuildFails \/ RefitFails \/ RefitPersist
  <2>1. gateway.phase = "up"
    BY <1>6 DEF RefitFit, RefitInstall, RefitList, RefitRebuild, RebuildFails, RefitFails, RefitPersist,
                Running, Quiet, NoRefit
  <2>2. UNCHANGED <<rows, job, gateway>>
    BY <1>6 DEF RefitFit, RefitInstall, RefitList, RefitRebuild, RebuildFails, RefitFails, RefitPersist
  <2>3. BudgetType'
    BY <1>6, SpendType DEF RefitFit, RefitInstall, RefitList, RefitRebuild, RebuildFails, RefitFails,
                           RefitPersist, BudgetType
  <2> QED BY <1>3, <2>1, <2>2, <2>3
<1>7. CASE SidecarTurns
  BY <1>0, <1>3, <1>7, SpendType DEF SidecarTurns
<1>8. CASE \E s \in Savers : SaveIndex(s) \/ SaveKeys(s) \/ SaveFails(s)
  <2>1. UNCHANGED <<rows, job, gateway, refit>>
    BY <1>8 DEF SaveIndex, SaveKeys, SaveFails
  <2>2. BudgetType'
    BY <1>8, SpendType DEF SaveIndex, SaveKeys, SaveFails, BudgetType
  <2> QED BY <1>3, <2>1, <2>2
<1>9. CASE SpawnTasks
  BY <1>0, <1>9 DEF SpawnTasks, RowsType, JobType, GatewayType, JobsHold, OneWorker, Quiet, BudgetType
<1>10. CASE Crash
  <2>1. RowsType' /\ BudgetType'
    BY <1>10 DEF Crash, RowsType, BudgetType
  <2>2. GatewayType'
    BY <1>10, IngestAssumption DEF Crash, GatewayType, Process
  <2>3. JobType' /\ JobsHold' /\ OneWorker' /\ Quiet'
    BY <1>10 DEF Crash, JobType, JobsHold, OneWorker, Quiet, Idle, Working, Adding
  <2> QED BY <1>0, <2>1, <2>2, <2>3
<1>11. CASE BootDegraded \/ \E whitens \in Settings : BootRecommender(whitens)
  <2>1. BudgetType'
    BY <1>11, SpendType DEF BootDegraded, BootRecommender
  <2>2. GatewayType'
    <3>1. PICK whitens \in BOOLEAN, phase \in {"booting", "degraded"} : gateway' = Process(phase, whitens)
      BY <1>11, IngestAssumption DEF BootDegraded, BootRecommender
    <3> QED BY <3>1, IngestAssumption DEF GatewayType, Process
  <2>3. RowsType'
    BY <1>11 DEF BootDegraded, BootRecommender, BootRows, RowsType, Statuses
  <2>4. UNCHANGED <<job, refit>> /\ gateway.phase = "down"
    BY <1>11 DEF BootDegraded, BootRecommender
  <2>5. refit = NoRefit /\ \A w \in Workers : job[w] = Idle
    BY <2>4 DEF Quiet
  <2>6. JobType' /\ JobsHold' /\ OneWorker' /\ Quiet'
    BY <2>4, <2>5 DEF JobType, JobsHold, OneWorker, Quiet, Idle, Working, Adding
  <2> QED BY <1>0, <2>1, <2>2, <2>3, <2>6
<1>12. ASSUME NEW w \in Workers, NEW t \in Tracks, ClaimNext(w, t) PROVE QueueInv'
  <2>1. /\ job' = [job EXCEPT ![w] = [at |-> "embed", track |-> t, space |-> 0]]
        /\ rows' = [rows EXCEPT ![t].status = "in_progress"]
        /\ rows[t].status = "not_started" /\ gateway.phase = "up"
        /\ UNCHANGED <<gateway, refit, budget>>
    BY <1>12 DEF ClaimNext, Claimable, Running
  <2>2. RowsType' /\ JobType' /\ BudgetType' /\ GatewayType' /\ Quiet'
    BY <2>1 DEF RowsType, JobType, BudgetType, GatewayType, Quiet, Statuses, Working
  <2>3. JobsHold'
    BY <2>1 DEF RowsType, JobType, JobsHold, Working, Adding
  <2>4. OneWorker'
    BY <2>1 DEF RowsType, JobType, OneWorker, JobsHold, Working, Adding
  <2> QED BY <1>0, <2>2, <2>3, <2>4

\* Steps of a worker that has a job.
<1>13. ASSUME NEW w \in Workers, gateway.phase = "up", UNCHANGED <<gateway, refit>>, BudgetType', RowsType', JobType',
              job[w].at # "idle",
              \A v \in Workers : v # w => job'[v] = job[v],
              \A t \in Tracks : t # job[w].track => rows'[t] = rows[t],
              job'[w].at = "idle" => job'[w].track = Nobody,
              job'[w].at # "idle" => job'[w].track = job[w].track,
              job'[w].at \in Working => rows'[job[w].track].status = "in_progress",
              job'[w].at \in Adding => rows'[job[w].track].status = "done"
       PROVE QueueInv'
  <2>1. GatewayType' /\ Quiet'
    BY <1>13 DEF GatewayType, Quiet
  <2>2. job[w].track \in Tracks
    BY <1>13 DEF JobsHold, JobType, Working, Adding
  <2>3. JobsHold'
    BY <1>13, <2>2 DEF JobType, JobsHold, OneWorker, Working, Adding
  <2>4. OneWorker'
    BY <1>13 DEF OneWorker
  <2> QED BY <1>0, <1>13, <2>1, <2>3, <2>4
<1>14. ASSUME NEW w \in Workers, WorkerStep(w), ~(\E t \in Tracks : ClaimNext(w, t)) PROVE QueueInv'
  <2>1. job[w].at # "idle" /\ UNCHANGED <<gateway, refit>>
    BY <1>14 DEF WorkerStep, EmbedOne, MarkDone, MarkFailed, StoreFails, Whiten, Upsert, UpsertFails, AddFails,
                 RaiseFlag
  <2>2. gateway.phase = "up" /\ BudgetType'
    <3>1. gateway.phase = "up"
      BY <2>1 DEF Quiet, Idle
    <3>2. UNCHANGED budget \/ Spend("faults") \/ Spend("refusals")
      BY <1>14 DEF WorkerStep, EmbedOne, MarkDone, MarkFailed, StoreFails, Whiten, Upsert, UpsertFails,
                   AddFails, RaiseFlag
    <3> QED BY <3>1, <3>2, SpendType DEF BudgetType
  <2>3. job[w].track \in Tracks
    BY <2>1 DEF JobsHold, JobType, Working, Adding
  <2>5. CASE EmbedOne(w)
    <3>1. /\ JobType' /\ job'[w].at \in {"vector", "reason"} /\ job'[w].track = job[w].track
          /\ \A v \in Workers : v # w => job'[v] = job[v]
      BY <2>5 DEF EmbedOne, JobType, Working
    <3>2. UNCHANGED rows /\ RowsType' /\ rows'[job[w].track].status = "in_progress"
      BY <2>5 DEF EmbedOne, RowsType, JobsHold, Working
    <3> QED BY <1>13, <2>1, <2>2, <3>1, <3>2 DEF Working, Adding
  <2>6. CASE MarkDone(w)
    <3>1. /\ JobType' /\ job'[w].at = "whiten" /\ job'[w].track = job[w].track
          /\ \A v \in Workers : v # w => job'[v] = job[v]
      BY <2>6 DEF MarkDone, JobType, Adding
    <3>2. /\ RowsType' /\ rows'[job[w].track].status = "done"
          /\ \A t \in Tracks : t # job[w].track => rows'[t] = rows[t]
      BY <2>3, <2>6 DEF MarkDone, RowsType, Statuses
    <3> QED BY <1>13, <2>1, <2>2, <3>1, <3>2 DEF Working, Adding
  <2>7. CASE MarkFailed(w) \/ StoreFails(w) \/ UpsertFails(w) \/ AddFails(w) \/ RaiseFlag(w)
    <3>1. job' = [job EXCEPT ![w] = Idle]
      BY <2>7 DEF MarkFailed, StoreFails, UpsertFails, AddFails, RaiseFlag
    <3>2. /\ JobType' /\ job'[w].at = "idle" /\ job'[w].track = Nobody
          /\ \A v \in Workers : v # w => job'[v] = job[v]
      BY <3>1 DEF JobType, Idle
    <3>3. /\ RowsType'
          /\ \A t \in Tracks : t # job[w].track => rows'[t] = rows[t]
      BY <2>3, <2>7 DEF MarkFailed, StoreFails, UpsertFails, AddFails, RaiseFlag, RowsType, Statuses
    <3> QED BY <1>13, <2>1, <2>2, <3>2, <3>3 DEF Working, Adding
  <2>8. CASE Whiten(w) \/ Upsert(w)
    <3>1. /\ JobType' /\ job'[w].at \in Adding /\ job'[w].track = job[w].track
          /\ \A v \in Workers : v # w => job'[v] = job[v]
      <4>1. CASE Whiten(w)
        <5>1. job' = [job EXCEPT ![w] = [job[w] EXCEPT !.at = "add", !.space = whitening]]
          BY <4>1 DEF Whiten
        <5> QED BY <5>1 DEF JobType, Adding, SpacesType
      <4>2. CASE Upsert(w)
        BY <4>2 DEF Upsert, JobType, Adding
      <4> QED BY <2>8, <4>1, <4>2
    <3>2. RowsType' /\ UNCHANGED rows /\ rows[job[w].track].status = "done"
      BY <2>8 DEF Whiten, Upsert, RowsType, JobsHold, Adding
    <3> QED BY <1>13, <2>1, <2>2, <3>1, <3>2 DEF Working, Adding
  <2> QED BY <1>14, <2>5, <2>6, <2>7, <2>8 DEF WorkerStep
<1>15. CASE UNCHANGED ingestVars
  BY <1>0, <1>3, <1>15 DEF ingestVars, BudgetType
<1> QED BY <1>1, <1>2, <1>4, <1>5, <1>6, <1>7, <1>8, <1>9, <1>10, <1>11, <1>12, <1>14, <1>15
        DEF IngestNext, WorkerStep

-----------------------------------------------------------------------------
\* The queue's view of a row is that of its status, and of the one worker that
\* has it.
HoldersKnown ==
  \A t \in Tracks :
    /\ \A w \in Workers : job[w].track = t /\ job[w].at \in Working => holder[t] = w
    /\ (\A w \in Workers : job[w].at \in Working => job[w].track # t) => holder[t] = Nobody

\* The refinement mapping of the queue's holder, read off the jobs.
LEMMA HolderOf == QueueInv => HoldersKnown
<1> SUFFICES ASSUME QueueInv, NEW t \in Tracks
             PROVE  /\ \A w \in Workers : job[w].track = t /\ job[w].at \in Working => holder[t] = w
                    /\ (\A w \in Workers : job[w].at \in Working => job[w].track # t) => holder[t] = Nobody
  BY DEF HoldersKnown
<1>0. ASSUME NEW w \in Workers, job[w].track = t, rows[t].status = "in_progress" PROVE job[w].at \in Working
  BY <1>0, IngestAssumption DEF QueueInv, QueueType, JobType, JobsHold, Working, Adding
<1>1. ASSUME NEW w \in Workers, job[w].track = t, job[w].at \in Working PROVE holder[t] = w
  <2>1. rows[t].status = "in_progress" /\ w \in Held(t)
    BY <1>1 DEF QueueInv, JobsHold, Held
  <2>2. \A v \in Held(t) : v = w
    BY <1>0, <1>1, <2>1 DEF QueueInv, OneWorker, Held, Working
  <2>3. (CHOOSE v \in Held(t) : TRUE) = w
    BY <2>1, <2>2
  <2> QED BY <2>1, <2>3 DEF holder
<1>2. ASSUME \A w \in Workers : job[w].at \in Working => job[w].track # t PROVE holder[t] = Nobody
  BY <1>0, <1>2 DEF holder, Held
<1> QED BY <1>1, <1>2

\* What the workers at work have says all there is of the queue.
LEMMA SameHolders ==
  ASSUME QueueInv, QueueInv',
         \A w \in Workers : \/ job'[w].at \in Working /\ job[w].at \in Working /\ job'[w].track = job[w].track
                            \/ job'[w].at \notin Working /\ job[w].at \notin Working
  PROVE  UNCHANGED holder
<1>0. HoldersKnown /\ HoldersKnown'
  BY HolderOf, PTL
<1>1. ASSUME NEW t \in Tracks PROVE holder'[t] = holder[t]
  BY <1>0 DEF HoldersKnown
<1> QED BY <1>1, Zenon DEF holder

\* holder is a function on the tracks.
LEMMA HolderFunction == holder = [u \in Tracks |-> holder[u]]
BY DEF holder

\* A holder that differs at one track is an update there.
LEMMA HolderUpdated ==
  ASSUME NEW t \in Tracks, NEW w, holder'[t] = w, \A u \in Tracks : u # t => holder'[u] = holder[u]
  PROVE  holder' = [holder EXCEPT ![t] = w]
<1>1. (holder = [u \in Tracks |-> holder[u]])'
  BY HolderFunction, PTL
<1> QED BY <1>1, HolderFunction

\* Every step of the ingest is a step of the queue, or none.
LEMMA QueueStep == QueueInv /\ QueueInv' /\ [IngestNext]_ingestVars => [Queue!Next]_<<stage, holder>>
<1> SUFFICES ASSUME QueueInv, QueueInv', [IngestNext]_ingestVars PROVE [Queue!Next]_<<stage, holder>>
  OBVIOUS
<1>0. HoldersKnown /\ HoldersKnown' /\ RowsType /\ RowsType' /\ JobType /\ JobType'
  BY HolderOf, PTL DEF QueueInv, QueueType
<1>1. CASE WatchTick \/ EnqueueRequest
  <2>1. /\ \A t \in Tracks : \/ rows'[t] = rows[t]
                             \/ rows[t].status = "absent" /\ rows'[t].status = "not_started"
        /\ UNCHANGED job
    BY <1>0, <1>1 DEF WatchTick, EnqueueRequest, Enqueued, RowsType
  <2>2. UNCHANGED holder
    BY <2>1, SameHolders
  <2> DEFINE S == {t \in Tracks : rows[t].status = "absent" /\ rows'[t].status = "not_started"}
  <2>3. S \in SUBSET {t \in Tracks : stage[t] = "unseen"}
    BY DEF stage, StageOf
  <2>4. stage' = [t \in Tracks |-> IF t \in S THEN "waiting" ELSE stage[t]]
    BY <2>1 DEF stage, StageOf
  <2>5. Queue!Offer
    BY <2>2, <2>3, <2>4 DEF Queue!Offer
  <2> QED BY <2>5 DEF Queue!Next

\* Steps that leave the rows, and the work on them, alone.
<1>2. ASSUME UNCHANGED rows,
             \A w \in Workers : \/ job'[w].at \in Working /\ job[w].at \in Working /\ job'[w].track = job[w].track
                                \/ job'[w].at \notin Working /\ job[w].at \notin Working
      PROVE  [Queue!Next]_<<stage, holder>>
  BY <1>2, SameHolders DEF stage
<1>3. CASE PersistIfDirty \/ Backfill \/ RefitFit \/ RefitInstall \/ RefitList \/ RefitRebuild
           \/ RebuildFails \/ RefitFails \/ RefitPersist \/ SpawnTasks \/ SidecarTurns
           \/ \E s \in Savers : SaveIndex(s) \/ SaveKeys(s) \/ SaveFails(s)
  <2>1. UNCHANGED <<rows, job>>
    BY <1>3 DEF PersistIfDirty, Backfill, RefitFit, RefitInstall, RefitList, RefitRebuild,
                RebuildFails, RefitFails, RefitPersist, SpawnTasks, SidecarTurns, SaveIndex, SaveKeys, SaveFails
  <2> QED BY <1>2, <2>1
<1>4. CASE Crash
  <2>1. UNCHANGED rows /\ \A w \in Workers : job'[w].at = "idle"
    BY <1>4 DEF Crash, Idle
  <2>2. holder' = [t \in Tracks |-> Nobody]
    <3>1. \A t \in Tracks : holder'[t] = Nobody
      BY <1>0, <2>1 DEF HoldersKnown, Working
    <3> QED BY <3>1, Zenon DEF holder
  <2> QED BY <2>1, <2>2 DEF Queue!Next, Queue!Die, stage
<1>5. CASE BootDegraded \/ \E whitens \in Settings : BootRecommender(whitens)
  <2>1. rows' = BootRows /\ UNCHANGED job /\ gateway.phase = "down"
    BY <1>5 DEF BootDegraded, BootRecommender
  <2>2. \A w \in Workers : job[w].at \notin Working
    BY <2>1 DEF QueueInv, Quiet, Idle, Working
  <2>3. UNCHANGED holder
    BY <2>1, <2>2, SameHolders
  <2>4. holder = [t \in Tracks |-> Nobody]
    <3>1. \A t \in Tracks : holder[t] = Nobody
      BY <1>0, <2>2 DEF HoldersKnown
    <3> QED BY <3>1, Zenon DEF holder
  <2>5. stage' = [t \in Tracks |-> IF stage[t] = "held" THEN "waiting" ELSE stage[t]]
    BY <1>0, <2>1 DEF stage, StageOf, BootRows, RowsType, Statuses
  <2> QED BY <2>3, <2>4, <2>5 DEF Queue!Next, Queue!Recover
<1>6. ASSUME NEW w \in Workers, NEW t \in Tracks, ClaimNext(w, t) PROVE Queue!Take(t, w)
  <2>1. /\ job' = [job EXCEPT ![w] = [at |-> "embed", track |-> t, space |-> 0]]
        /\ rows' = [rows EXCEPT ![t].status = "in_progress"]
        /\ rows[t].status = "not_started" /\ job[w].at = "idle"
    BY <1>6 DEF ClaimNext, Claimable
  <2>2. stage' = [stage EXCEPT ![t] = "held"] /\ stage[t] = "waiting"
    BY <1>0, <2>1 DEF stage, StageOf, RowsType
  <2>3. \A u \in Tracks : u # t => holder'[u] = holder[u]
    BY <1>0, <2>1 DEF HoldersKnown, JobType, Working
  <2>4. holder'[t] = w
    BY <1>0, <2>1 DEF HoldersKnown, JobType, Working
  <2>5. \A u \in Tracks : holder[u] # w
    BY <1>0, <2>1, IngestAssumption DEF HoldersKnown, Working
  <2>6. holder' = [holder EXCEPT ![t] = w]
    BY <2>3, <2>4, HolderUpdated
  <2> QED BY <2>2, <2>5, <2>6 DEF Queue!Take

\* A worker lets go of its row.
<1>7. ASSUME NEW w \in Workers, job[w].at \in Working, job'[w].at \notin Working,
             \A v \in Workers : v # w => job'[v] = job[v]
      PROVE  holder[job[w].track] = w /\ holder' = [holder EXCEPT ![job[w].track] = Nobody]
  <2> DEFINE t == job[w].track
  <2>1. t \in Tracks /\ holder[t] = w
    BY <1>0, <1>7 DEF QueueInv, JobsHold, HoldersKnown
  <2>2. holder'[t] = Nobody
    BY <1>0, <1>7, <2>1 DEF HoldersKnown, QueueInv, OneWorker, Working
  <2>3. \A u \in Tracks : u # t => holder'[u] = holder[u]
    BY <1>0, <1>7 DEF HoldersKnown
  <2> HIDE DEF t
  <2>4. holder' = [holder EXCEPT ![t] = Nobody]
    BY <2>1, <2>2, <2>3, HolderUpdated
  <2> QED BY <2>1, <2>4 DEF t
<1>8. ASSUME NEW w \in Workers, MarkDone(w) \/ MarkFailed(w) PROVE Queue!Settle(job[w].track, w)
  <2>1. /\ job[w].at \in Working /\ job'[w].at \notin Working
        /\ \A v \in Workers : v # w => job'[v] = job[v]
    BY <1>0, <1>8 DEF MarkDone, MarkFailed, JobType, Working, Idle
  <2>2. job[w].track \in Tracks /\ rows[job[w].track].status = "in_progress"
    BY <2>1 DEF QueueInv, JobsHold
  <2>3. stage' = [stage EXCEPT ![job[w].track] = "settled"] /\ stage[job[w].track] = "held"
    <3>1. PICK status \in {"done", "failed"} : rows' = [rows EXCEPT ![job[w].track].status = status]
      BY <1>8 DEF MarkDone, MarkFailed
    <3>2. /\ \A t \in Tracks : t # job[w].track => rows'[t] = rows[t]
          /\ rows'[job[w].track].status \in {"done", "failed"}
      BY <1>0, <2>2, <3>1 DEF RowsType
    <3> QED BY <2>2, <3>2 DEF stage, StageOf
  <2> QED BY <1>7, <2>1, <2>3 DEF Queue!Settle
<1>9. ASSUME NEW w \in Workers, StoreFails(w) PROVE Queue!Strand(job[w].track, w)
  <2>1. /\ job[w].at \in Working /\ job'[w].at \notin Working /\ UNCHANGED rows
        /\ \A v \in Workers : v # w => job'[v] = job[v]
    BY <1>0, <1>9 DEF StoreFails, JobType, Working, Idle
  <2>2. job[w].track \in Tracks /\ rows[job[w].track].status = "in_progress"
    BY <2>1 DEF QueueInv, JobsHold
  <2>3. UNCHANGED stage /\ stage[job[w].track] = "held"
    BY <2>1, <2>2 DEF stage, StageOf
  <2> QED BY <1>7, <2>1, <2>3 DEF Queue!Strand
<1>10. ASSUME NEW w \in Workers,
              EmbedOne(w) \/ Whiten(w) \/ Upsert(w) \/ UpsertFails(w) \/ AddFails(w) \/ RaiseFlag(w)
       PROVE  [Queue!Next]_<<stage, holder>>
  <2>1. UNCHANGED rows /\ \A v \in Workers : v # w => job'[v] = job[v]
    BY <1>0, <1>10 DEF EmbedOne, Whiten, Upsert, UpsertFails, AddFails, RaiseFlag, JobType
  <2>2. \/ job'[w].at \in Working /\ job[w].at \in Working /\ job'[w].track = job[w].track
        \/ job'[w].at \notin Working /\ job[w].at \notin Working
    BY <1>0, <1>10 DEF EmbedOne, Whiten, Upsert, UpsertFails, AddFails, RaiseFlag, JobType, Working, Idle
  <2> QED BY <1>2, <2>1, <2>2
<1>11. \A w \in Workers : job[w].at \in Working => job[w].track \in Tracks
  BY DEF QueueInv, JobsHold
<1>12. ASSUME NEW w \in Workers, WorkerStep(w) PROVE [Queue!Next]_<<stage, holder>>
  <2>1. CASE MarkDone(w) \/ MarkFailed(w)
    <3>1. job[w].track \in Tracks
      BY <1>11, <2>1 DEF MarkDone, MarkFailed, Working
    <3> QED BY <1>8, <2>1, <3>1 DEF Queue!Next
  <2>2. CASE StoreFails(w)
    <3>1. job[w].track \in Tracks
      BY <1>11, <2>2 DEF StoreFails, Working
    <3> QED BY <1>9, <2>2, <3>1 DEF Queue!Next
  <2>3. CASE \E t \in Tracks : ClaimNext(w, t)
    BY <1>6, <2>3 DEF Queue!Next
  <2> QED BY <1>10, <1>12, <2>1, <2>2, <2>3 DEF WorkerStep
<1>13. CASE UNCHANGED ingestVars
  BY <1>2, <1>13 DEF ingestVars
<1> QED BY <1>1, <1>3, <1>4, <1>5, <1>12, <1>13 DEF IngestNext

\* The embedding queue is a work queue, for any number of tracks and workers and
\* whatever crashes, refits and failures come between.
THEOREM IngestIsAWorkQueue == IngestSpec => ClaimsAreExclusive
<1>1. IngestInit => Queue!Init
  <2> SUFFICES ASSUME IngestInit PROVE Queue!Init
    OBVIOUS
  <2>1. \A t \in Tracks : stage[t] = "unseen" /\ holder[t] = Nobody
    BY DEF IngestInit, stage, holder, StageOf
  <2> QED BY <2>1 DEF Queue!Init, stage, holder
<1> QED BY <1>1, QueueInitInv, QueueNextInv, QueueStep, PTL DEF IngestSpec, ClaimsAreExclusive, Queue!Spec

-----------------------------------------------------------------------------
\* rebuild_from numbers the tracks it is given from 1.
LEMMA NumberedTracks ==
  ASSUME NEW S \in SUBSET Tracks
  PROVE  /\ Cardinality(S) \in Nat /\ 1 .. Cardinality(S) \subseteq Keys
         /\ Numbered(S) \in [Tracks -> 0 .. Cardinality(S)]
         /\ \A t \in Tracks : Numbered(S)[t] = 0 <=> t \notin S
         /\ \A t, u \in S : Numbered(S)[t] = Numbered(S)[u] => t = u
<1> DEFINE n == Cardinality(S)
<1>1. IsFiniteSet(S) /\ n <= Cardinality(Tracks)
  BY IngestAssumption, FS_Subset
<1>2. n \in Nat /\ Cardinality(Tracks) \in Nat /\ ExistsBijection(1 .. n, S)
  BY <1>1, IngestAssumption, FS_CardinalityType
<1> HIDE DEF n
<1>3. PICK g : g \in Bijection(1 .. n, S)
  BY <1>2 DEF ExistsBijection
<1>4. /\ g \in [1 .. n -> S] /\ \A a, b \in 1 .. n : g[a] = g[b] => a = b
      /\ \A t \in S : \E a \in 1 .. n : g[a] = t
  BY <1>3, <1>2 DEF Bijection, Injection, Surjection, IsInjective
<1> DEFINE f == [t \in Tracks |-> IF t \in S THEN CHOOSE a \in 1 .. n : g[a] = t ELSE 0]
<1>5. \A t \in S : f[t] \in 1 .. n /\ g[f[t]] = t
  BY <1>4
<1>6. f \in [Tracks -> 0 .. n] /\ \A t \in Tracks : f[t] = 0 <=> t \notin S
  <2>1. \A t \in Tracks : t \notin S => f[t] = 0
    OBVIOUS
  <2>2. DOMAIN f = Tracks /\ f = [t \in Tracks |-> f[t]]
    OBVIOUS
  <2> HIDE DEF f
  <2>3. \A t \in Tracks : f[t] \in 0 .. n
    BY <1>2, <1>5, <2>1
  <2>4. \A t \in S : f[t] # 0
    BY <1>2, <1>5
  <2> QED BY <2>1, <2>2, <2>3, <2>4
<1>7. \A t, u \in S : f[t] = f[u] => t = u
  BY <1>5
<1> HIDE DEF f
<1>8. /\ Numbered(S) \in [Tracks -> 0 .. n]
      /\ \A t \in Tracks : Numbered(S)[t] = 0 <=> t \notin S
      /\ \A t, u \in S : Numbered(S)[t] = Numbered(S)[u] => t = u
  BY <1>6, <1>7 DEF Numbered, n
<1>9. 1 .. n \subseteq Keys
  BY <1>1, <1>2 DEF Keys, n
<1> QED BY <1>2, <1>8, <1>9 DEF n

\* The index it makes.
LEMMA RebuiltIndex ==
  ASSUME NEW S \in SUBSET Tracks, NEW space \in Nat
  PROVE  /\ Rebuilt(S, space) \in Index
         /\ \A t \in Tracks : /\ Rebuilt(S, space).key[t] # 0 <=> t \in S
                              /\ Rebuilt(S, space).key[t] < Rebuilt(S, space).next
                              /\ t \in S => /\ Rebuilt(S, space).key[t] \in Keys
                                            /\ Rebuilt(S, space).vec[Rebuilt(S, space).key[t]] = Vector(t, space)
<1> DEFINE f == Numbered(S)
           n == Cardinality(S)
           V == [k \in Keys |-> IF \E t \in S : f[t] = k THEN Vector(CHOOSE t \in S : f[t] = k, space) ELSE NoVector]
<1>1. /\ n \in Nat /\ 1 .. n \subseteq Keys
      /\ f \in [Tracks -> 0 .. n] /\ \A t \in Tracks : f[t] = 0 <=> t \notin S
      /\ \A t, u \in S : f[t] = f[u] => t = u
  BY NumberedTracks
<1>2. Rebuilt(S, space) = [key |-> f, vec |-> V, next |-> n + 1]
  BY DEF Rebuilt
<1> HIDE DEF f, n
<1>3. V \in [Keys -> VectorType]
  BY DEF VectorType, Vector, NoVector
<1>4. \A t \in S : f[t] \in 1 .. n
  BY <1>1
<1>5. ASSUME NEW t \in S PROVE V[f[t]] = Vector(t, space)
  <2>1. f[t] \in Keys /\ (CHOOSE u \in S : f[u] = f[t]) = t
    BY <1>1, <1>4
  <2> QED BY <2>1
<1> HIDE DEF V
<1>6. Rebuilt(S, space) \in Index
  BY <1>1, <1>2, <1>3 DEF Index
<1> QED BY <1>1, <1>2, <1>4, <1>5, <1>6

\* upsert's change of an index.
LEMMA ReplacedIndex ==
  ASSUME NEW index \in Index, index.next \in Keys, NEW t \in Tracks, NEW space \in Nat
  PROVE  /\ Replaced(index, t, space) \in Index
         /\ Replaced(index, t, space).next = index.next + 1
         /\ Replaced(index, t, space).key = [index.key EXCEPT ![t] = index.next]
         /\ Replaced(index, t, space).vec[index.next] = Vector(t, space)
         /\ \A k \in Keys : k # index.next /\ k # index.key[t] =>
               Replaced(index, t, space).vec[k] = index.vec[k]
<1> DEFINE V == [j \in Keys |-> IF j = index.next THEN Vector(t, space)
                                ELSE IF j = index.key[t] THEN NoVector ELSE index.vec[j]]
<1>1. Replaced(index, t, space) = [key |-> [index.key EXCEPT ![t] = index.next], vec |-> V, next |-> index.next + 1]
  BY DEF Replaced
<1>2. V \in [Keys -> VectorType] /\ index.key \in [Tracks -> Nat] /\ index.next \in Nat
  BY DEF Index, VectorType, Vector, NoVector
<1>3. /\ V[index.next] = Vector(t, space)
      /\ \A k \in Keys : k # index.next /\ k # index.key[t] => V[k] = index.vec[k]
  OBVIOUS
<1> HIDE DEF V
<1> QED BY <1>1, <1>2, <1>3 DEF Index

\* What an upsert that fails half way leaves.
LEMMA EvictedIndex ==
  ASSUME NEW index \in Index, NEW t \in Tracks
  PROVE  /\ Evicted(index, t) \in Index
         /\ Evicted(index, t).next = index.next + 1 /\ Evicted(index, t).key = index.key
<1> DEFINE V == [j \in Keys |-> IF j = index.key[t] THEN NoVector ELSE index.vec[j]]
<1>1. Evicted(index, t) = [key |-> index.key, vec |-> V, next |-> index.next + 1]
  BY DEF Evicted, Index
<1>2. V \in [Keys -> VectorType] /\ index.key \in [Tracks -> Nat] /\ index.next \in Nat
  BY DEF Index, VectorType, NoVector
<1> HIDE DEF V
<1> QED BY <1>1, <1>2 DEF Index

LEMMA UntouchedIndex ==
  ASSUME NEW index \in Index, NEW t \in Tracks, index.key[t] = 0
  PROVE  Evicted(index, t).vec = index.vec
<1>1. Evicted(index, t).vec = [j \in Keys |-> IF j = index.key[t] THEN NoVector ELSE index.vec[j]]
  BY DEF Evicted
<1>2. \A j \in Keys : j # 0
  BY DEF Keys
<1>3. index.vec \in [Keys -> VectorType]
  BY DEF Index
<1> QED BY <1>1, <1>2, <1>3

\* What a rebuild that fails half way leaves.
LEMMA CutIndex ==
  ASSUME NEW S \in SUBSET Tracks, NEW space \in Nat
  PROVE  /\ CutShort(S, space) \in Index
         /\ \A t \in Tracks : /\ CutShort(S, space).key[t] < CutShort(S, space).next
                              /\ CutShort(S, space).key[t] # 0 <=> t \in S
<1>1. /\ Rebuilt(S, space) \in Index
      /\ \A t \in Tracks : /\ Rebuilt(S, space).key[t] # 0 <=> t \in S
                           /\ Rebuilt(S, space).key[t] < Rebuilt(S, space).next
  BY RebuiltIndex
<1> DEFINE r == Rebuilt(S, space)
<1>2. CutShort(S, space) = [r EXCEPT !.next = r.next + 1]
  BY DEF CutShort
<1> HIDE DEF r
<1>3. r \in Index /\ \A t \in Tracks : (r.key[t] # 0 <=> t \in S) /\ r.key[t] < r.next
  BY <1>1 DEF r
<1>4. [r EXCEPT !.next = r.next + 1] = [key |-> r.key, vec |-> r.vec, next |-> r.next + 1]
  BY <1>3 DEF Index
<1> QED BY <1>2, <1>3, <1>4 DEF Index

\* Rows that are done stay done.
LEMMA DoneStays ==
  ASSUME QueueInv, [IngestNext]_ingestVars
  PROVE  /\ \A t \in Tracks : rows[t].status = "done" => rows'[t].status = "done"
         /\ Done \subseteq Done' /\ Cardinality(Done) <= Cardinality(Done')
         /\ Cardinality(Done) \in Nat /\ Cardinality(Done') \in Nat
         /\ IsFiniteSet(Done')
<1>0. RowsType
  BY DEF QueueInv, QueueType
<1>1. \A t \in Tracks : rows[t].status = "done" => rows'[t].status = "done"
  <2>1. CASE WatchTick \/ EnqueueRequest
    BY <1>0, <2>1 DEF WatchTick, EnqueueRequest, Enqueued, RowsType
  <2>2. CASE BootDegraded \/ \E whitens \in Settings : BootRecommender(whitens)
    <3>1. rows' = BootRows
      BY <2>2 DEF BootDegraded, BootRecommender
    <3> QED BY <1>0, <3>1 DEF BootRows, RowsType
  <2>3. ASSUME NEW w \in Workers, NEW t \in Tracks, ClaimNext(w, t)
        PROVE  \A u \in Tracks : rows[u].status = "done" => rows'[u].status = "done"
    BY <1>0, <2>3 DEF ClaimNext, Claimable, RowsType
  <2>4. ASSUME NEW w \in Workers, MarkDone(w) \/ MarkFailed(w)
        PROVE  \A u \in Tracks : rows[u].status = "done" => rows'[u].status = "done"
    <3>1. rows[job[w].track].status = "in_progress" /\ job[w].track \in Tracks
      BY <2>4 DEF MarkDone, MarkFailed, QueueInv, JobsHold, Working
    <3>2. \A u \in Tracks : u # job[w].track => rows'[u] = rows[u]
      BY <1>0, <2>4 DEF MarkDone, MarkFailed, RowsType
    <3> QED BY <3>1, <3>2
  <2>5. SUFFICES ASSUME UNCHANGED rows PROVE \A t \in Tracks : rows[t].status = "done" => rows'[t].status = "done"
    BY <2>1, <2>2, <2>3, <2>4
       DEF IngestNext, PersistIfDirty, Backfill, RefitFit, RefitInstall, RefitList, RefitRebuild, RebuildFails,
           RefitFails, RefitPersist, SpawnTasks, Crash, SidecarTurns, WorkerStep, EmbedOne,
           StoreFails, Whiten, Upsert, UpsertFails, AddFails, RaiseFlag, SaveIndex, SaveKeys, SaveFails, ingestVars
  <2> QED BY <2>5
<1>2. Done \subseteq Done'
  BY <1>1 DEF Done, With
<1>3. Done \in SUBSET Tracks /\ Done' \in SUBSET Tracks
  BY DEF Done, With
<1>4. IsFiniteSet(Done) /\ IsFiniteSet(Done')
  BY <1>3, IngestAssumption, FS_Subset
<1>5. Cardinality(Done) \in Nat /\ Cardinality(Done') \in Nat
  BY <1>4, FS_CardinalityType
<1>6. Cardinality(Done) <= Cardinality(Done')
  BY <1>2, <1>4, FS_Subset
<1> QED BY <1>1, <1>2, <1>4, <1>5, <1>6

-----------------------------------------------------------------------------
\* An index without tracks is one.
LEMMA EmptyIsIndex == EmptyIndex \in Index
BY DEF EmptyIndex, Index, VectorType, NoVector

\* Nothing is indexed, saved or being fitted.
LEMMA SaveInitInv == IngestInit => SaveInv
<1> SUFFICES ASSUME IngestInit PROVE SaveInv
  OBVIOUS
<1>1. SaverType /\ RefitType /\ IndexType /\ HalfSaved
  BY EmptyIsIndex DEF IngestInit, SaverType, RefitType, IndexType, HalfSaved, NoRefit
<1>2. FitOnTracks /\ Accounted
  BY DEF IngestInit, FitOnTracks, Accounted, NoRefit, Process
<1> QED BY <1>1, <1>2 DEF SaveInv

\* A boot rebuilds only when there is something to rebuild from.
LEMMA RebuildsSomething ==
  ASSUME QueueInv, SaveInv, NEW whitens \in Settings, MustRebuild(whitens)
  PROVE  Done # {}
<1>1. CASE BootSpace(whitens) > 0
  BY <1>1 DEF BootSpace, BootFit, SaveInv, FitOnTracks, QueueInv, QueueType, SpacesType
<1>2. CASE Length(disk) < Cardinality(Done)
  <2> SUFFICES ASSUME Done = {} PROVE FALSE
    OBVIOUS
  <2> DEFINE K == {t \in Tracks : disk.key[t] # 0}
  <2>1. K \in SUBSET Tracks
    OBVIOUS
  <2>2. IsFiniteSet(K)
    BY <2>1, IngestAssumption, FS_Subset
  <2>3. Cardinality(K) \in Nat /\ Length(disk) = Cardinality(K)
    BY <2>2, FS_CardinalityType, Zenon DEF Length
  <2> QED BY <1>2, <2>3, FS_EmptySet
<1> QED BY <1>1, <1>2 DEF MustRebuild

\* Every step keeps the flag's account of the index: a change is followed by the
\* raising of the flag, and the periodic save that lowers it raises it again when
\* it fails.
LEMMA SaveNextInv == QueueInv /\ SaveInv /\ [IngestNext]_ingestVars => SaveInv'
<1> SUFFICES ASSUME QueueInv, SaveInv, [IngestNext]_ingestVars PROVE SaveInv'
  OBVIOUS
<1>0. /\ Done \subseteq Done' /\ fitted \in Nat
      /\ ann \in Index /\ disk \in Index
      /\ QueueInv' /\ JobType /\ JobType'
  BY DoneStays, QueueNextInv DEF SaveInv, IndexType, QueueInv, QueueType, SpacesType
<1> USE DEF SaveInv

\* Steps that touch neither the index nor its files nor a save.
<1>1. ASSUME UNCHANGED <<ann, disk, dirty, unflagged, saver, fitted, refit>>,
             gateway'.phase = gateway.phase \/ gateway'.phase \in {"down", "degraded"}
                                            \/ gateway.phase = "booting",
             \A w \in Workers : job[w].at = "flag" => job'[w].at = "flag"
      PROVE  SaveInv'
  <2>1. SaverType' /\ RefitType' /\ IndexType' /\ HalfSaved'
    BY <1>1 DEF SaverType, RefitType, IndexType, HalfSaved
  <2>2. FitOnTracks'
    BY <1>0, <1>1 DEF FitOnTracks
  <2>3. Accounted'
    BY <1>1 DEF Accounted
  <2> QED BY <2>1, <2>2, <2>3
<1>2. CASE WatchTick \/ EnqueueRequest \/ Backfill \/ SpawnTasks \/ SidecarTurns
  <2>1. UNCHANGED <<ann, disk, dirty, unflagged, saver, fitted, refit, job>>
    BY <1>2 DEF WatchTick, EnqueueRequest, Backfill, SpawnTasks, SidecarTurns
  <2>2. gateway'.phase = gateway.phase \/ gateway.phase = "booting"
    BY <1>2 DEF WatchTick, EnqueueRequest, Backfill, SpawnTasks, SidecarTurns, QueueInv, QueueType, GatewayType
  <2> QED BY <1>1, <2>1, <2>2
<1>3. ASSUME NEW w \in Workers, WorkerStep(w), ~Upsert(w), ~AddFails(w), ~RaiseFlag(w) PROVE SaveInv'
  <2>1. UNCHANGED <<ann, disk, dirty, unflagged, saver, fitted, refit, gateway>>
    BY <1>3 DEF WorkerStep, ClaimNext, EmbedOne, MarkDone, MarkFailed, StoreFails, Whiten, UpsertFails
  <2>2. job[w].at # "flag" /\ \A v \in Workers : v # w => job'[v] = job[v]
    BY <1>0, <1>3 DEF WorkerStep, ClaimNext, EmbedOne, MarkDone, MarkFailed, StoreFails, Whiten, UpsertFails,
                      JobType
  <2> QED BY <1>1, <2>1, <2>2
<1>4. ASSUME NEW w \in Workers, Upsert(w) PROVE SaveInv'
  <2>1. /\ Unlocked /\ ann.next \in Keys /\ UNCHANGED <<disk, dirty, unflagged, saver, fitted, refit, gateway>>
        /\ ann' = Replaced(ann, job[w].track, job[w].space) /\ job'[w].at = "flag"
    BY <1>0, <1>4 DEF Upsert, JobType
  <2>2. job[w].track \in Tracks /\ job[w].space \in Nat
    BY <1>0, <1>4 DEF Upsert, JobType, QueueInv, JobsHold, Adding
  <2>3. IndexType'
    BY <1>0, <2>1, <2>2, ReplacedIndex DEF IndexType
  <2>4. SaverType' /\ RefitType' /\ HalfSaved'
    BY <2>1 DEF SaverType, RefitType, HalfSaved, Unlocked
  <2>5. FitOnTracks'
    BY <1>0, <2>1 DEF FitOnTracks
  <2>6. Accounted'
    BY <2>1 DEF Accounted
  <2> QED BY <2>3, <2>4, <2>5, <2>6
<1>17. ASSUME NEW w \in Workers, AddFails(w) PROVE SaveInv'
  <2>1. /\ Unlocked /\ ann' = Evicted(ann, job[w].track) /\ unflagged' = TRUE
        /\ UNCHANGED <<disk, dirty, saver, fitted, refit, gateway>>
    BY <1>17 DEF AddFails
  <2>2. job[w].track \in Tracks
    BY <1>17 DEF AddFails, QueueInv, JobsHold, Adding
  <2>3. IndexType'
    BY <1>0, <2>1, <2>2, EvictedIndex DEF IndexType
  <2>4. SaverType' /\ RefitType' /\ HalfSaved' /\ Accounted'
    BY <2>1 DEF SaverType, RefitType, HalfSaved, Unlocked, Accounted
  <2>5. FitOnTracks'
    BY <1>0, <2>1 DEF FitOnTracks
  <2> QED BY <2>3, <2>4, <2>5
<1>5. ASSUME NEW w \in Workers, RaiseFlag(w) PROVE SaveInv'
  <2>1. dirty' = TRUE /\ UNCHANGED <<unflagged, ann, disk, saver, fitted, refit, gateway>>
    BY <1>5 DEF RaiseFlag
  <2>2. SaverType' /\ RefitType' /\ IndexType' /\ HalfSaved' /\ Accounted'
    BY <2>1 DEF SaverType, RefitType, IndexType, HalfSaved, Accounted
  <2>3. FitOnTracks'
    BY <1>0, <2>1 DEF FitOnTracks
  <2> QED BY <2>2, <2>3
<1>6. CASE PersistIfDirty
  <2>1. dirty' = FALSE /\ saver' = [saver EXCEPT !["tick"] = "begun"] /\ UNCHANGED <<ann, disk, unflagged, fitted, refit>>
    BY <1>6 DEF PersistIfDirty
  <2>2. SaverType' /\ saver'["tick"] = "begun" /\ saver'["refit"] = saver["refit"]
    BY <2>1 DEF SaverType, Savers
  <2>3. RefitType' /\ IndexType' /\ HalfSaved'
    BY <2>1, <2>2 DEF RefitType, IndexType, HalfSaved, Savers
  <2>4. FitOnTracks' /\ Accounted'
    BY <1>0, <2>1, <2>2 DEF FitOnTracks, Accounted
  <2> QED BY <2>2, <2>3, <2>4
<1>7. ASSUME NEW s \in Savers, SaveIndex(s) PROVE SaveInv'
  <2>1. disk' = [disk EXCEPT !.vec = ann.vec] /\ UNCHANGED <<ann, dirty, unflagged, fitted, refit, job, gateway>>
    BY <1>7 DEF SaveIndex
  <2>2. SaverType' /\ saver'[s] = "half" /\ saver[s] = "begun" /\ \A r \in Savers : r # s => saver'[r] = saver[r]
    BY <1>7 DEF SaveIndex, SaverType
  <2>3. disk' \in Index /\ disk'.vec = ann.vec /\ (disk = ann => disk' = ann)
    BY <1>0, <2>1 DEF Index
  <2>4. RefitType' /\ IndexType' /\ HalfSaved'
    BY <2>1, <2>3 DEF RefitType, IndexType, HalfSaved
  <2>5. FitOnTracks'
    BY <1>0, <2>1 DEF FitOnTracks
  <2>6. Accounted'
    BY <2>1, <2>2, <2>3 DEF Accounted, Savers
  <2> QED BY <2>2, <2>4, <2>5, <2>6
<1>8. ASSUME NEW s \in Savers, SaveKeys(s) PROVE SaveInv'
  <2>1. /\ disk' = [disk EXCEPT !.key = ann.key, !.next = ann.next] /\ dirty' = FALSE /\ unflagged' = FALSE
        /\ UNCHANGED <<ann, fitted, refit, job, gateway>>
    BY <1>8 DEF SaveKeys
  <2>2. SaverType'
    BY <1>8 DEF SaveKeys, SaverType
  <2>3. disk' = ann
    <3>1. disk.vec = ann.vec
      BY <1>8 DEF SaveKeys, HalfSaved
    <3> QED BY <1>0, <2>1, <3>1 DEF Index
  <2>4. RefitType' /\ IndexType' /\ HalfSaved' /\ Accounted'
    BY <2>1, <2>3 DEF RefitType, IndexType, HalfSaved, Accounted
  <2>5. FitOnTracks'
    BY <1>0, <2>1 DEF FitOnTracks
  <2> QED BY <2>2, <2>4, <2>5
<1>9. ASSUME NEW s \in Savers, SaveFails(s) PROVE SaveInv'
  <2>1. dirty' = (dirty \/ s = "tick") /\ UNCHANGED <<ann, disk, unflagged, fitted, refit, job, gateway>>
    BY <1>9 DEF SaveFails
  <2>2. SaverType' /\ saver'[s] = "no" /\ \A r \in Savers : r # s => saver'[r] = saver[r]
    BY <1>9 DEF SaveFails, SaverType
  <2>4. RefitType' /\ IndexType' /\ HalfSaved'
    BY <2>1, <2>2 DEF RefitType, IndexType, HalfSaved
  <2>5. FitOnTracks'
    BY <1>0, <2>1 DEF FitOnTracks
  <2>6. Accounted'
    <3>1. CASE s = "tick"
      BY <2>1, <3>1 DEF Accounted
    <3>2. CASE s # "tick"
      BY <2>1, <2>2, <3>2 DEF Accounted, SaverType, Savers
    <3> QED BY <3>1, <3>2
  <2> QED BY <2>2, <2>4, <2>5, <2>6
<1>10. CASE RefitFit \/ RefitInstall \/ RefitList
  <2>1. /\ UNCHANGED <<ann, disk, dirty, unflagged, saver, job, gateway>>
        /\ refit'.at # "flag" /\ refit.at # "flag" /\ RefitType'
    BY <1>10 DEF RefitFit, RefitInstall, RefitList, RefitType, Done, With
  <2>2. FitOnTracks'
    <3>1. CASE RefitFit
      BY <1>0, <3>1 DEF RefitFit, FitOnTracks
    <3>2. CASE RefitInstall \/ RefitList
      BY <1>0, <3>2 DEF RefitInstall, RefitList, FitOnTracks
    <3> QED BY <1>10, <3>1, <3>2
  <2>3. SaverType' /\ IndexType' /\ HalfSaved' /\ Accounted'
    BY <2>1 DEF SaverType, IndexType, HalfSaved, Accounted
  <2> QED BY <2>1, <2>2, <2>3
<1>11. CASE RefitRebuild
  <2>1. /\ Unlocked /\ ann' = Rebuilt(refit.listed, whitening) /\ refit' = [at |-> "flag", listed |-> {}]
        /\ UNCHANGED <<disk, dirty, unflagged, saver, fitted>> /\ refit.at = "rebuild"
    BY <1>11 DEF RefitRebuild
  <2>2. IndexType'
    BY <1>0, <2>1, RebuiltIndex DEF IndexType, RefitType, QueueInv, QueueType, SpacesType
  <2>3. SaverType' /\ RefitType' /\ HalfSaved' /\ Accounted'
    BY <2>1 DEF SaverType, RefitType, HalfSaved, Unlocked, Accounted
  <2>4. FitOnTracks'
    BY <1>0, <2>1 DEF FitOnTracks
  <2> QED BY <2>2, <2>3, <2>4
<1>18. CASE RefitFails
  <2>1. UNCHANGED <<ann, disk, dirty, unflagged, saver, fitted, job, gateway>> /\ refit' = NoRefit /\ refit.at # "flag"
    BY <1>18 DEF RefitFails
  <2>2. SaverType' /\ RefitType' /\ IndexType' /\ HalfSaved' /\ Accounted'
    BY <2>1 DEF SaverType, RefitType, IndexType, HalfSaved, Accounted, NoRefit
  <2>3. FitOnTracks'
    BY <1>0, <2>1 DEF FitOnTracks, NoRefit
  <2> QED BY <2>2, <2>3
<1>19. CASE RebuildFails
  <2>1. PICK S \in SUBSET refit.listed : ann' = CutShort(S, whitening)
    BY <1>19 DEF RebuildFails
  <2>2. Unlocked /\ unflagged' = TRUE /\ refit' = NoRefit /\ UNCHANGED <<disk, dirty, saver, fitted>>
    BY <1>19 DEF RebuildFails
  <2>3. S \in SUBSET Tracks /\ whitening \in Nat
    BY DEF RefitType, QueueInv, QueueType, SpacesType
  <2>4. IndexType'
    BY <1>0, <2>1, <2>2, <2>3, CutIndex DEF IndexType
  <2>5. SaverType' /\ RefitType' /\ HalfSaved' /\ Accounted'
    BY <2>2 DEF SaverType, RefitType, HalfSaved, Unlocked, Accounted, NoRefit
  <2>6. FitOnTracks'
    BY <1>0, <2>2 DEF FitOnTracks, NoRefit
  <2> QED BY <2>4, <2>5, <2>6
<1>12. CASE RefitPersist
  <2>1. /\ dirty' = TRUE /\ refit' = NoRefit /\ UNCHANGED <<ann, disk, unflagged, fitted>>
        /\ saver' = [saver EXCEPT !["refit"] = "begun"]
    BY <1>12 DEF RefitPersist
  <2>2. SaverType' /\ RefitType' /\ IndexType' /\ HalfSaved' /\ Accounted'
    BY <2>1 DEF SaverType, Savers, RefitType, IndexType, HalfSaved, Accounted, NoRefit
  <2>3. FitOnTracks'
    BY <1>0, <2>1 DEF FitOnTracks, NoRefit
  <2> QED BY <2>2, <2>3
<1>13. CASE Crash
  <2>1. /\ dirty' = FALSE /\ unflagged' = FALSE /\ refit' = NoRefit /\ ann' = EmptyIndex /\ UNCHANGED <<disk, fitted>>
        /\ saver' = [s \in Savers |-> "no"] /\ gateway'.phase = "down"
    BY <1>13 DEF Crash, Process
  <2>2. SaverType' /\ RefitType' /\ IndexType' /\ HalfSaved' /\ Accounted'
    BY <2>1, EmptyIsIndex DEF SaverType, RefitType, IndexType, HalfSaved, Accounted, NoRefit
  <2>3. FitOnTracks'
    BY <1>0, <2>1 DEF FitOnTracks, NoRefit
  <2> QED BY <2>2, <2>3
<1>14. CASE BootDegraded
  <2>1. ann' = disk /\ unflagged' = FALSE /\ UNCHANGED <<dirty, fitted, saver, disk, refit>> /\ gateway'.phase = "degraded"
    BY <1>14 DEF BootDegraded, Process
  <2>2. SaverType' /\ RefitType' /\ IndexType' /\ HalfSaved' /\ Accounted'
    BY <2>1 DEF SaverType, RefitType, IndexType, HalfSaved, Accounted
  <2>3. FitOnTracks'
    BY <1>0, <2>1 DEF FitOnTracks
  <2> QED BY <2>2, <2>3
<1>15. ASSUME NEW whitens \in Settings, BootRecommender(whitens) PROVE SaveInv'
  <2>1. /\ dirty' = FALSE /\ unflagged' = FALSE /\ fitted' = BootFit(whitens) /\ UNCHANGED refit
        /\ ann' = IF MustRebuild(whitens) THEN Rebuilt(Done, BootSpace(whitens)) ELSE disk
        /\ IF MustRebuild(whitens)
           THEN disk' = [disk EXCEPT !.vec = ann'.vec] /\ saver' = [saver EXCEPT !["tick"] = "half"]
           ELSE UNCHANGED <<disk, saver>>
    BY <1>15, RebuildsSomething DEF BootRecommender
  <2>2. BootSpace(whitens) \in Nat /\ Done \in SUBSET Tracks
    BY <1>0, IngestAssumption DEF BootSpace, BootFit, Done, With
  <2>3. ann' \in Index
    BY <1>0, <2>1, <2>2, RebuiltIndex
  <2>4. /\ disk' \in Index /\ disk'.vec = ann'.vec /\ SaverType'
        /\ disk' = ann' \/ saver'["tick"] = "half"
    <3>1. CASE MustRebuild(whitens)
      BY <1>0, <2>1, <2>3, <3>1 DEF Index, SaverType, Savers
    <3>2. CASE ~MustRebuild(whitens)
      BY <1>0, <2>1, <3>2 DEF SaverType
    <3> QED BY <3>1, <3>2
  <2>5. RefitType' /\ IndexType' /\ HalfSaved' /\ Accounted'
    BY <2>1, <2>3, <2>4 DEF RefitType, IndexType, HalfSaved, Accounted
  <2>6. FitOnTracks'
    BY <1>0, <2>1 DEF FitOnTracks, BootFit
  <2> QED BY <2>4, <2>5, <2>6
<1>16. CASE UNCHANGED ingestVars
  BY <1>1, <1>16 DEF ingestVars
<1> QED BY <1>2, <1>3, <1>4, <1>5, <1>6, <1>7, <1>8, <1>9, <1>10, <1>11, <1>12, <1>13, <1>14, <1>15, <1>16,
        <1>17, <1>18, <1>19 DEF IngestNext

\* No change of the index is forgotten by its flag: while nobody is in between, an
\* index that is not marked dirty is the one in the files, unless an upsert or a
\* rebuild failed half way since the last save.
THEOREM NothingStaysUnsaved == IngestSpec => []NothingUnsaved
<1>1. SaveInv => NothingUnsaved
  BY DEF SaveInv, Accounted, NothingUnsaved, TakenForSaved, Running, Savers
<1> QED BY <1>1, QueueInitInv, QueueNextInv, SaveInitInv, SaveNextInv, PTL DEF IngestSpec

-----------------------------------------------------------------------------
\* The empty index, in the process and in its files.
LEMMA KeysInitInv == IngestInit => KeysDone /\ RawSoFar /\ BootRestores
<1> SUFFICES ASSUME IngestInit PROVE KeysDone /\ RawSoFar /\ BootRestores
  OBVIOUS
<1>1. KeysDone
  BY DEF IngestInit, KeysDone, NoRefit, EmptyIndex
<1>2. Filed(disk)
  BY DEF IngestInit, Filed, EmptyIndex
<1>3. RawSoFar /\ BootRestores
  BY <1>2 DEF IngestInit, RawSoFar, BootRestores, Process, Idle
<1> QED BY <1>1, <1>3

\* Every step hands out keys in order, and only to tracks whose row is done.
LEMMA KeysNextInv == QueueInv /\ SaveInv /\ KeysDone /\ [IngestNext]_ingestVars => KeysDone'
<1> SUFFICES ASSUME QueueInv, SaveInv, KeysDone, [IngestNext]_ingestVars PROVE KeysDone'
  OBVIOUS
<1>0. /\ \A t \in Tracks : rows[t].status = "done" => rows'[t].status = "done"
      /\ ann \in Index /\ disk \in Index /\ JobType /\ JobType' /\ whitening \in Nat /\ fitted \in Nat
      /\ Done \subseteq Tracks /\ refit.listed \in SUBSET Tracks /\ Done \subseteq Done'
      /\ gateway.phase \in {"down", "booting", "up", "degraded"}
  BY DoneStays, QueueNextInv
     DEF SaveInv, IndexType, RefitType, QueueInv, QueueType, SpacesType, GatewayType, Done, With

\* Steps that leave the keys alone.
<1>1. ASSUME ann'.key = ann.key, ann'.next = ann.next, disk'.key = disk.key, disk'.next = disk.next,
             refit'.listed \subseteq refit.listed \/ refit'.listed \subseteq Done,
             gateway'.phase = gateway.phase \/ gateway'.phase \in {"booting", "up"},
             \A s \in Savers : saver'[s] # "no" => gateway'.phase \in {"booting", "up"} \/ saver[s] # "no"
      PROVE  KeysDone'
  BY <1>0, <1>1 DEF KeysDone
<1>2. CASE WatchTick \/ EnqueueRequest \/ Backfill \/ SpawnTasks \/ SidecarTurns
  <2>1. UNCHANGED <<ann, disk, saver, refit>>
    BY <1>2 DEF WatchTick, EnqueueRequest, Backfill, SpawnTasks, SidecarTurns
  <2>2. gateway'.phase = gateway.phase \/ gateway'.phase \in {"booting", "up"}
    BY <1>2 DEF WatchTick, EnqueueRequest, Backfill, SpawnTasks, SidecarTurns, QueueInv, QueueType, GatewayType
  <2> QED BY <1>1, <2>1, <2>2
<1>3. ASSUME NEW w \in Workers, WorkerStep(w), ~Upsert(w), ~AddFails(w) PROVE KeysDone'
  <2>1. UNCHANGED <<ann, disk, saver, refit, gateway>>
    BY <1>3 DEF WorkerStep, ClaimNext, EmbedOne, MarkDone, MarkFailed, StoreFails, Whiten, UpsertFails, RaiseFlag
  <2> QED BY <1>1, <2>1
<1>14. ASSUME NEW w \in Workers, AddFails(w) PROVE KeysDone'
  <2>1. ann' = Evicted(ann, job[w].track) /\ UNCHANGED <<rows, disk, saver, refit, gateway>>
    BY <1>14 DEF AddFails
  <2>2. job[w].track \in Tracks
    BY <1>14 DEF AddFails, QueueInv, JobsHold, Adding
  <2>3. ann'.next = ann.next + 1 /\ ann'.key = ann.key
    BY <1>0, <2>1, <2>2, EvictedIndex
  <2>4. ann.next \in Nat /\ ann.key \in [Tracks -> Nat]
    BY <1>0 DEF Index
  <2>5. \A u \in Tracks : ann'.key[u] < ann'.next /\ (ann'.key[u] # 0 => rows[u].status = "done")
    BY <2>3, <2>4 DEF KeysDone
  <2>6. Done' = Done
    BY <2>1 DEF Done, With
  <2> QED BY <2>1, <2>5, <2>6 DEF KeysDone
<1>4. ASSUME NEW w \in Workers, Upsert(w) PROVE KeysDone'
  <2> DEFINE t == job[w].track
             space == job[w].space
  <2>1. /\ ann' = Replaced(ann, t, space) /\ ann.next \in Keys /\ UNCHANGED <<rows, disk, saver, refit, gateway>>
    BY <1>4 DEF Upsert
  <2>2. t \in Tracks /\ space \in Nat /\ rows[t].status = "done"
    BY <1>0, <1>4 DEF Upsert, JobType, QueueInv, JobsHold, Adding
  <2> HIDE DEF t, space
  <2>3. ann'.next = ann.next + 1 /\ ann'.key = [ann.key EXCEPT ![t] = ann.next]
    BY <1>0, <2>1, <2>2, ReplacedIndex
  <2>4. ann.next \in Nat /\ ann.key \in [Tracks -> Nat]
    BY <1>0 DEF Index
  <2>5. \A u \in Tracks : ann'.key[u] < ann'.next /\ (ann'.key[u] # 0 => rows[u].status = "done")
    BY <2>2, <2>3, <2>4 DEF KeysDone
  <2>6. Done' = Done
    BY <2>1 DEF Done, With
  <2> QED BY <2>1, <2>5, <2>6 DEF KeysDone
<1>5. CASE PersistIfDirty \/ RefitFit \/ RefitInstall \/ RefitList \/ RefitFails \/ RefitPersist
  <2>1. UNCHANGED <<ann, disk, gateway>>
    BY <1>5 DEF PersistIfDirty, RefitFit, RefitInstall, RefitList, RefitFails, RefitPersist
  <2>2. refit'.listed \subseteq refit.listed \/ refit'.listed \subseteq Done
    BY <1>5 DEF PersistIfDirty, RefitFit, RefitInstall, RefitList, RefitFails, RefitPersist, NoRefit, SaveInv,
                RefitType
  <2>3. gateway.phase = "up"
    BY <1>5 DEF PersistIfDirty, RefitFit, RefitInstall, RefitList, RefitFails, RefitPersist, Running, QueueInv,
                Quiet, NoRefit
  <2> QED BY <1>1, <2>1, <2>2, <2>3
<1>6. ASSUME NEW s \in Savers, SaveIndex(s) PROVE KeysDone'
  <2>1. /\ disk' = [disk EXCEPT !.vec = ann.vec] /\ UNCHANGED <<ann, refit, gateway>>
        /\ saver[s] # "no" /\ \A r \in Savers : r # s => saver'[r] = saver[r]
    BY <1>6 DEF SaveIndex, SaveInv, SaverType
  <2>2. disk'.key = disk.key /\ disk'.next = disk.next
    BY <1>0, <2>1 DEF Index
  <2> QED BY <1>1, <2>1, <2>2
<1>7. ASSUME NEW s \in Savers, SaveKeys(s) PROVE KeysDone'
  <2>1. /\ disk' = [disk EXCEPT !.key = ann.key, !.next = ann.next] /\ UNCHANGED <<rows, ann, refit, gateway>>
        /\ saver[s] = "half" /\ saver' = [saver EXCEPT ![s] = "no"]
    BY <1>7 DEF SaveKeys
  <2>2. disk'.key = ann.key /\ disk'.next = ann.next
    BY <1>0, <2>1 DEF Index
  <2>3. \A r \in Savers : saver'[r] # "no" => saver[r] # "no"
    BY <2>1 DEF SaveInv, SaverType
  <2>4. Done' = Done
    BY <2>1 DEF Done, With
  <2> QED BY <2>1, <2>2, <2>3, <2>4 DEF KeysDone
<1>8. ASSUME NEW s \in Savers, SaveFails(s) PROVE KeysDone'
  <2>1. UNCHANGED <<ann, disk, refit, gateway>> /\ \A r \in Savers : saver'[r] # "no" => saver[r] # "no"
    BY <1>8 DEF SaveFails, SaveInv, SaverType
  <2> QED BY <1>1, <2>1
<1>9. CASE RefitRebuild
  <2>1. /\ ann' = Rebuilt(refit.listed, whitening) /\ UNCHANGED <<rows, disk, saver, gateway>> /\ refit'.listed = {}
    BY <1>9 DEF RefitRebuild
  <2>2. \A t \in Tracks : ann'.key[t] < ann'.next /\ (ann'.key[t] # 0 <=> t \in refit.listed)
    BY <1>0, <2>1, RebuiltIndex
  <2> QED BY <1>0, <2>1, <2>2 DEF KeysDone, Done, With
<1>15. CASE RebuildFails
  <2>1. PICK S \in SUBSET refit.listed : ann' = CutShort(S, whitening)
    BY <1>15 DEF RebuildFails
  <2>2. UNCHANGED <<rows, disk, saver, gateway>> /\ refit'.listed = {}
    BY <1>15 DEF RebuildFails, NoRefit
  <2>0. S \in SUBSET Tracks /\ whitening \in Nat
    BY <1>0, <2>1
  <2>3. \A t \in Tracks : ann'.key[t] < ann'.next /\ (ann'.key[t] # 0 <=> t \in S)
    BY <2>0, <2>1, CutIndex
  <2> QED BY <1>0, <2>2, <2>3 DEF KeysDone, Done, With
<1>10. CASE Crash
  <2>1. /\ ann' = EmptyIndex /\ refit'.listed = {} /\ UNCHANGED <<rows, disk>> /\ \A s \in Savers : saver'[s] = "no"
    BY <1>10 DEF Crash, NoRefit
  <2>2. \A t \in Tracks : ann'.key[t] < ann'.next /\ ann'.key[t] = 0
    BY <2>1 DEF EmptyIndex
  <2> QED BY <2>1, <2>2 DEF KeysDone
<1>11. CASE BootDegraded
  <2>1. /\ ann' = disk /\ UNCHANGED <<disk, saver, refit>> /\ gateway.phase = "down"
    BY <1>11 DEF BootDegraded
  <2> QED BY <1>0, <2>1 DEF KeysDone
<1>12. ASSUME NEW whitens \in Settings, BootRecommender(whitens) PROVE KeysDone'
  <2>1. /\ ann' = IF MustRebuild(whitens) THEN Rebuilt(Done, BootSpace(whitens)) ELSE disk
        /\ disk' = disk \/ disk' = [disk EXCEPT !.vec = ann'.vec]
        /\ UNCHANGED refit /\ gateway'.phase = "booting"
    BY <1>12 DEF BootRecommender, Process
  <2>2. disk'.key = disk.key /\ disk'.next = disk.next
    BY <1>0, <2>1 DEF Index
  <2>3. BootSpace(whitens) \in Nat
    BY <1>0 DEF BootSpace, BootFit
  <2>4. \A t \in Tracks : ann'.key[t] < ann'.next /\ (ann'.key[t] # 0 => rows[t].status = "done")
    <3>1. CASE MustRebuild(whitens)
      BY <1>0, <2>1, <2>3, <3>1, RebuiltIndex DEF Done, With
    <3>2. CASE ~MustRebuild(whitens)
      BY <2>1, <3>2 DEF KeysDone
    <3> QED BY <3>1, <3>2
  <2> QED BY <1>0, <2>1, <2>2, <2>4 DEF KeysDone
<1>13. CASE UNCHANGED ingestVars
  BY <1>1, <1>13 DEF ingestVars
<1> QED BY <1>2, <1>3, <1>4, <1>5, <1>6, <1>7, <1>8, <1>9, <1>10, <1>11, <1>12, <1>13, <1>14, <1>15
        DEF IngestNext

-----------------------------------------------------------------------------
\* The files hold at most the tracks that are done, and all of them unless they
\* are short.
LEMMA KeysCounted ==
  ASSUME QueueInv, SaveInv, KeysDone
  PROVE  /\ Length(disk) \in Nat /\ Cardinality(Done) \in Nat
         /\ ~Short => \A t \in Done : disk.key[t] # 0
<1> DEFINE K == {t \in Tracks : disk.key[t] # 0}
<1>1. K \subseteq Done /\ Done \subseteq Tracks
  BY DEF KeysDone, Done, With
<1>2. IsFiniteSet(Done) /\ IsFiniteSet(K)
  BY <1>1, IngestAssumption, FS_Subset
<1>3. Cardinality(Done) \in Nat /\ Cardinality(K) \in Nat
  BY <1>2, FS_CardinalityType
<1>4. Length(disk) = Cardinality(K)
  BY Zenon DEF Length
<1>5. Cardinality(K) <= Cardinality(Done) /\ (Cardinality(Done) = Cardinality(K) => Done = K)
  BY <1>1, <1>2, FS_Subset
<1>6. ~Short => Done = K
  <2> HIDE DEF K
  <2> QED BY <1>3, <1>4, <1>5 DEF Short
<1> QED BY <1>3, <1>4, <1>6

\* Short files stay short until their keys are written again.
LEMMA ShortStays ==
  ASSUME QueueInv, SaveInv, KeysDone, [IngestNext]_ingestVars, disk'.key = disk.key, Short
  PROVE  Short'
<1>1. Length(disk') = Length(disk)
  BY Zenon DEF Length
<1>2. Cardinality(Done) <= Cardinality(Done') /\ Cardinality(Done) \in Nat /\ Cardinality(Done') \in Nat
  BY DoneStays
<1>3. Length(disk) \in Nat
  BY KeysCounted
<1>4. Short' <=> Length(disk') < Cardinality(Done')
  BY Zenon DEF Short
<1> QED BY <1>1, <1>2, <1>3, <1>4 DEF Short

\* Every step keeps an index no transform was ever fitted for raw, in the process
\* and, unless they are short, in the files.
LEMMA RawNextInv == QueueInv /\ SaveInv /\ KeysDone /\ RawSoFar /\ [IngestNext]_ingestVars => RawSoFar'
<1> SUFFICES ASSUME QueueInv, SaveInv, KeysDone, RawSoFar, [IngestNext]_ingestVars, fitted' = 0
             PROVE  RawSoFar'
  BY DEF RawSoFar
<1>0. /\ ann \in Index /\ disk \in Index /\ JobType /\ JobType' /\ whitening \in Nat /\ fitted \in Nat
      /\ gateway.phase \in {"down", "booting", "up", "degraded"} /\ KeysDone' /\ QueueInv'
  BY QueueNextInv, KeysNextInv DEF SaveInv, IndexType, QueueInv, QueueType, SpacesType, GatewayType
<1>1. fitted = 0
  <2>1. CASE RefitFit
    BY <1>0, <2>1 DEF RefitFit
  <2>2. ASSUME NEW whitens \in Settings, BootRecommender(whitens) PROVE fitted = 0
    BY <1>0, <2>2 DEF BootRecommender, BootFit
  <2>3. SUFFICES ASSUME UNCHANGED fitted PROVE fitted = 0
    BY <2>1, <2>2
       DEF IngestNext, WatchTick, EnqueueRequest, PersistIfDirty, Backfill, RefitInstall, RefitList,
           RefitRebuild, RebuildFails, RefitFails, RefitPersist, SpawnTasks, BootDegraded, Crash,
           SidecarTurns, WorkerStep, ClaimNext, EmbedOne, MarkDone, MarkFailed, StoreFails,
           Whiten, Upsert, UpsertFails, AddFails, RaiseFlag, SaveIndex, SaveKeys, SaveFails, ingestVars
  <2> QED BY <2>3
<1>2. refit.at = "idle" /\ ~RefitFit
  BY <1>0, <1>1 DEF SaveInv, FitOnTracks, RefitFit
<1>3. /\ whitening = 0 /\ \A w \in Workers : job[w].space = 0
      /\ Filed(disk) \/ Short
      /\ gateway.phase \in {"booting", "up"} =>
           /\ Filed(ann)
           /\ Short \/ \A t \in Tracks : disk.key[t] # 0 => ann.key[t] = disk.key[t]
           /\ \A w \in Workers : job[w].at \in {"whiten", "add"} => ann.key[job[w].track] = 0
  BY <1>1 DEF RawSoFar

\* Steps that leave the index and its files alone.
<1>4. ASSUME UNCHANGED <<ann, disk>>, whitening' = 0, \A w \in Workers : job'[w].space = 0,
             gateway'.phase \in {"booting", "up"} => gateway.phase \in {"booting", "up"},
             \A w \in Workers : job'[w].at \in {"whiten", "add"} => ann.key[job'[w].track] = 0 \/ job'[w] = job[w]
      PROVE  RawSoFar'
  <2>1. (Short => Short') /\ (Filed(disk) => Filed(disk)') /\ (Filed(ann) => Filed(ann)')
    BY <1>4, ShortStays DEF Filed
  <2> QED BY <1>3, <1>4, <2>1 DEF RawSoFar
<1>5. CASE WatchTick \/ EnqueueRequest \/ Backfill \/ SpawnTasks \/ SidecarTurns \/ PersistIfDirty
  <2>1. UNCHANGED <<ann, disk, whitening, job>>
    BY <1>5 DEF WatchTick, EnqueueRequest, Backfill, SpawnTasks, SidecarTurns, PersistIfDirty
  <2>2. gateway'.phase \in {"booting", "up"} => gateway.phase \in {"booting", "up"}
    BY <1>5 DEF WatchTick, EnqueueRequest, Backfill, SpawnTasks, SidecarTurns, PersistIfDirty,
                QueueInv, QueueType, GatewayType
  <2> QED BY <1>3, <1>4, <2>1, <2>2
<1>6. ASSUME NEW w \in Workers, WorkerStep(w), ~Upsert(w), ~AddFails(w) PROVE RawSoFar'
  <2>1. UNCHANGED <<ann, disk, whitening, gateway>>
    BY <1>6 DEF WorkerStep, ClaimNext, EmbedOne, MarkDone, MarkFailed, StoreFails, Whiten, UpsertFails, RaiseFlag
  <2>2. \A v \in Workers : v # w => job'[v] = job[v]
    BY <1>0, <1>6
       DEF WorkerStep, ClaimNext, EmbedOne, MarkDone, MarkFailed, StoreFails, Whiten, UpsertFails, RaiseFlag,
           JobType
  <2>3. job'[w].space = 0 /\ (job'[w].at \in {"whiten", "add"} => ann.key[job'[w].track] = 0)
    <3>1. CASE MarkDone(w)
      <4>1. job'[w].space = 0 /\ job'[w].track = job[w].track
        BY <1>0, <1>3, <3>1 DEF MarkDone, JobType
      <4>2. job[w].track \in Tracks /\ rows[job[w].track].status = "in_progress"
        BY <3>1 DEF MarkDone, QueueInv, JobsHold, Working
      <4> QED BY <4>1, <4>2 DEF KeysDone
    <3>2. CASE Whiten(w)
      <4>1. job' = [job EXCEPT ![w] = [job[w] EXCEPT !.at = "add", !.space = whitening]]
        BY <3>2 DEF Whiten
      <4>2. job'[w].space = 0 /\ job'[w].track = job[w].track
        BY <1>0, <1>3, <4>1 DEF JobType
      <4>3. gateway.phase = "up" /\ job[w].at = "whiten"
        BY <3>2 DEF Whiten, QueueInv, Quiet, Idle
      <4> QED BY <1>3, <4>2, <4>3
    <3>3. CASE EmbedOne(w)
      BY <1>0, <1>3, <3>3 DEF EmbedOne, JobType
    <3>4. CASE \E t \in Tracks : ClaimNext(w, t)
      BY <1>0, <3>4 DEF ClaimNext, JobType
    <3>5. CASE MarkFailed(w) \/ StoreFails(w) \/ UpsertFails(w) \/ RaiseFlag(w)
      BY <1>0, <3>5 DEF MarkFailed, StoreFails, UpsertFails, AddFails, RaiseFlag, JobType, Idle
    <3> QED BY <1>6, <3>1, <3>2, <3>3, <3>4, <3>5 DEF WorkerStep
  <2>4. \A v \in Workers : job'[v].space = 0
    BY <1>3, <2>2, <2>3
  <2>5. whitening' = 0
    BY <1>3, <2>1
  <2>6. \A v \in Workers : job'[v].at \in {"whiten", "add"} => ann.key[job'[v].track] = 0 \/ job'[v] = job[v]
    BY <2>2, <2>3
  <2> QED BY <1>4, <2>1, <2>4, <2>5, <2>6
<1>16. ASSUME NEW w \in Workers, AddFails(w) PROVE RawSoFar'
  <2>1. /\ ann' = Evicted(ann, job[w].track) /\ UNCHANGED <<whitening, rows, disk, saver, refit, gateway>>
        /\ job[w].at = "add" /\ job' = [job EXCEPT ![w] = Idle]
    BY <1>16 DEF AddFails
  <2>2. job[w].track \in Tracks /\ gateway.phase = "up"
    BY <2>1 DEF QueueInv, JobsHold, Adding, Quiet, Idle
  <2>0. ann.key[job[w].track] = 0
    BY <1>3, <2>1, <2>2
  <2>3. ann'.key = ann.key /\ ann'.vec = ann.vec
    BY <1>0, <2>0, <2>1, <2>2, EvictedIndex, UntouchedIndex
  <2>4. \A v \in Workers : job'[v] = Idle \/ job'[v] = job[v]
    BY <1>0, <2>1 DEF JobType
  <2>5. (\A v \in Workers : job'[v].space = 0)
        /\ \A v \in Workers : job'[v].at \in {"whiten", "add"} => ann'.key[job'[v].track] = 0
    BY <1>3, <2>2, <2>3, <2>4 DEF Idle
  <2>6. (Filed(disk) => Filed(disk)') /\ (Short => Short') /\ Filed(ann)'
    BY <1>3, <2>1, <2>2, <2>3, ShortStays DEF Filed
  <2> QED BY <1>3, <2>1, <2>2, <2>3, <2>5, <2>6 DEF RawSoFar
<1>7. ASSUME NEW w \in Workers, Upsert(w) PROVE RawSoFar'
  <2> DEFINE t == job[w].track
  <2>1. /\ ann' = Replaced(ann, t, job[w].space) /\ ann.next \in Keys
        /\ UNCHANGED <<whitening, rows, disk, saver, refit, gateway>>
        /\ job[w].at = "add" /\ job' = [job EXCEPT ![w].at = "flag"]
    BY <1>7 DEF Upsert
  <2>2. t \in Tracks /\ job[w].space = 0 /\ gateway.phase = "up"
    BY <1>3, <2>1 DEF QueueInv, JobsHold, Adding, Quiet, Idle
  <2>3. ann.key[t] = 0
    BY <1>3, <2>1, <2>2
  <2>4. /\ job'[w].at = "flag" /\ \A v \in Workers : job'[v].space = 0 /\ job'[v].track = job[v].track
        /\ \A v \in Workers : v # w => job'[v] = job[v]
    BY <1>0, <1>3, <2>1 DEF JobType
  <2>5. \A v \in Workers : v # w /\ job[v].at \in {"whiten", "add"} => job[v].track # t /\ job[v].track \in Tracks
    BY <2>1 DEF QueueInv, OneWorker, JobsHold, Adding
  <2> HIDE DEF t
  <2>6. /\ ann'.key = [ann.key EXCEPT ![t] = ann.next] /\ ann'.vec[ann.next] = Vector(t, 0)
        /\ \A k \in Keys : k # ann.next /\ k # ann.key[t] => ann'.vec[k] = ann.vec[k]
    BY <1>0, <2>1, <2>2, ReplacedIndex
  <2>7. ann.next \in Nat /\ ann.key \in [Tracks -> Nat]
    BY <1>0 DEF Index
  <2>8. \A u \in Tracks : u # t => ann'.key[u] = ann.key[u] /\ ann.key[u] # ann.next
    BY <2>6, <2>7 DEF KeysDone
  <2>9. Filed(ann)'
    <3>1. ann'.key[t] = ann.next
      BY <2>2, <2>6, <2>7
    <3>2. ASSUME NEW u \in Tracks, ann'.key[u] # 0
          PROVE  ann'.key[u] \in Keys /\ ann'.vec[ann'.key[u]] = Vector(u, 0)
      <4>1. CASE u = t
        BY <2>1, <2>6, <3>1, <4>1
      <4>2. CASE u # t
        BY <1>3, <2>2, <2>3, <2>6, <2>8, <3>2, <4>2 DEF Filed
      <4> QED BY <4>1, <4>2
    <3> QED BY <3>2 DEF Filed
  <2>10. Short' \/ \A u \in Tracks : disk'.key[u] # 0 => ann'.key[u] = disk'.key[u]
    <3>1. CASE Short
      BY <2>1, <3>1, ShortStays
    <3>2. CASE ~Short
      BY <1>3, <2>1, <2>2, <2>3, <2>8, <3>2
    <3> QED BY <3>1, <3>2
  <2>11. Filed(disk)' \/ Short'
    BY <1>3, <2>1, ShortStays DEF Filed
  <2>12. \A v \in Workers : job'[v].at \in {"whiten", "add"} => ann'.key[job'[v].track] = 0
    BY <1>3, <2>2, <2>4, <2>5, <2>8
  <2> QED BY <1>3, <2>1, <2>4, <2>9, <2>10, <2>11, <2>12 DEF RawSoFar
<1>8. ASSUME NEW s \in Savers, SaveIndex(s) PROVE RawSoFar'
  <2>1. /\ disk' = [disk EXCEPT !.vec = ann.vec] /\ UNCHANGED <<whitening, ann, job, gateway>>
        /\ gateway.phase \in {"booting", "up"}
    BY <1>0, <1>8 DEF SaveIndex, KeysDone
  <2>2. disk'.key = disk.key /\ disk'.vec = ann.vec
    BY <1>0, <2>1 DEF Index
  <2>3. Filed(disk)' \/ Short'
    <3>1. CASE Short
      BY <2>2, <3>1, ShortStays
    <3>2. CASE ~Short
      BY <1>3, <2>1, <2>2, <3>2 DEF Filed
    <3> QED BY <3>1, <3>2
  <2>4. Filed(ann)' /\ (Short => Short')
    BY <1>3, <2>1, <2>2, ShortStays DEF Filed
  <2> QED BY <1>3, <2>1, <2>2, <2>3, <2>4 DEF RawSoFar
<1>9. ASSUME NEW s \in Savers, SaveKeys(s) PROVE RawSoFar'
  <2>1. /\ disk' = [disk EXCEPT !.key = ann.key, !.next = ann.next] /\ UNCHANGED <<whitening, ann, job, gateway>>
        /\ disk.vec = ann.vec /\ gateway.phase \in {"booting", "up"}
    BY <1>0, <1>9 DEF SaveKeys, SaveInv, HalfSaved, KeysDone
  <2>2. disk'.key = ann.key /\ disk'.vec = ann.vec
    BY <1>0, <2>1 DEF Index
  <2>3. Filed(disk)' /\ Filed(ann)'
    BY <1>3, <2>1, <2>2 DEF Filed
  <2> QED BY <1>3, <2>1, <2>2, <2>3 DEF RawSoFar
<1>10. ASSUME NEW s \in Savers, SaveFails(s) PROVE RawSoFar'
  BY <1>3, <1>4, <1>10 DEF SaveFails
<1>11. CASE RefitInstall \/ RefitList \/ RefitRebuild \/ RebuildFails \/ RefitFails \/ RefitPersist
  BY <1>2, <1>11 DEF RefitInstall, RefitList, RefitRebuild, RebuildFails, RefitFails, RefitPersist
<1>12. CASE Crash
  <2>1. /\ UNCHANGED disk /\ whitening' = 0 /\ gateway'.phase = "down" /\ \A w \in Workers : job'[w].space = 0
    BY <1>12 DEF Crash, Process, Idle
  <2>2. Filed(disk)' \/ Short'
    BY <1>3, <2>1, ShortStays DEF Filed
  <2> QED BY <2>1, <2>2 DEF RawSoFar
<1>13. CASE BootDegraded
  <2>1. /\ UNCHANGED <<disk, whitening, job>> /\ gateway'.phase = "degraded"
    BY <1>13 DEF BootDegraded, Process
  <2>2. Filed(disk)' \/ Short'
    BY <1>3, <2>1, ShortStays DEF Filed
  <2> QED BY <1>3, <2>1, <2>2 DEF RawSoFar
<1>14. ASSUME NEW whitens \in Settings, BootRecommender(whitens) PROVE RawSoFar'
  <2>1. /\ ann' = IF MustRebuild(whitens) THEN Rebuilt(Done, BootSpace(whitens)) ELSE disk
        /\ disk' = disk \/ disk' = [disk EXCEPT !.vec = ann'.vec]
        /\ ~MustRebuild(whitens) => disk' = disk
        /\ fitted' = BootFit(whitens) /\ whitening' = BootSpace(whitens) /\ UNCHANGED job
        /\ gateway.phase = "down"
    BY <1>14 DEF BootRecommender
  <2>2. BootSpace(whitens) = 0
    BY <2>1 DEF BootSpace
  <2>3. disk'.key = disk.key
    BY <1>0, <2>1 DEF Index
  <2>4. \A w \in Workers : job'[w] = Idle
    BY <2>1 DEF QueueInv, Quiet
  <2>5. Done \in SUBSET Tracks
    BY DEF Done, With
  <2>6. CASE MustRebuild(whitens)
    <3>1. Short'
      BY <2>2, <2>3, <2>6, ShortStays DEF MustRebuild, Short
    <3>2. Filed(ann)'
      BY <2>1, <2>2, <2>5, <2>6, RebuiltIndex DEF Filed
    <3> QED BY <2>1, <2>2, <2>4, <3>1, <3>2 DEF RawSoFar, Idle
  <2>7. CASE ~MustRebuild(whitens)
    <3>1. ~Short /\ ann' = disk /\ disk' = disk
      BY <2>1, <2>7 DEF MustRebuild, Short
    <3>2. Filed(ann)' /\ Filed(disk)'
      BY <1>3, <3>1 DEF Filed
    <3> QED BY <2>1, <2>2, <2>4, <3>1, <3>2 DEF RawSoFar, Idle
  <2> QED BY <2>6, <2>7
<1>15. CASE UNCHANGED ingestVars
  BY <1>3, <1>4, <1>15 DEF ingestVars
<1> QED BY <1>2, <1>5, <1>6, <1>7, <1>8, <1>9, <1>10, <1>11, <1>12, <1>13, <1>14, <1>15, <1>16 DEF IngestNext

\* A boot ends with the index the table asks for, and what follows keeps it so
\* far as BootRestores speaks of it.
LEMMA BootNextInv ==
  QueueInv /\ SaveInv /\ KeysDone /\ RawSoFar /\ BootRestores /\ [IngestNext]_ingestVars => BootRestores'
<1> SUFFICES ASSUME QueueInv, SaveInv, KeysDone, RawSoFar, BootRestores, [IngestNext]_ingestVars
             PROVE  BootRestores'
  OBVIOUS
<1>0. fitted \in Nat /\ Done \in SUBSET Tracks /\ RowsType /\ GatewayType
  BY DEF QueueInv, QueueType, SpacesType, Done, With
<1>1. ASSUME NEW whitens \in Settings, BootRecommender(whitens) PROVE BootRestores'
  <2>1. /\ ann' = IF MustRebuild(whitens) THEN Rebuilt(Done, BootSpace(whitens)) ELSE disk
        /\ fitted' = BootFit(whitens) /\ whitening' = BootSpace(whitens) /\ gateway'.whitens = whitens
        /\ rows' = BootRows
    BY <1>1 DEF BootRecommender, Process
  <2>2. \A t \in Tracks : rows'[t].status = "done" <=> t \in Done
    BY <1>0, <2>1 DEF BootRows, RowsType, Done, With
  <2>3. CASE MustRebuild(whitens)
    <3>1. BootSpace(whitens) \in Nat
      BY <1>0 DEF BootSpace, BootFit
    <3>2. \A t \in Tracks : IF t \in Done THEN ann'.key[t] # 0 /\ ann'.vec[ann'.key[t]] = Vector(t, whitening')
                            ELSE ann'.key[t] = 0
      BY <1>0, <2>1, <2>3, <3>1, RebuiltIndex
    <3> QED BY <2>2, <3>2 DEF BootRestores
  <2>4. CASE ~MustRebuild(whitens) /\ (whitens \/ fitted' = 0)
    <3>1. ann' = disk /\ ~Short /\ BootSpace(whitens) = 0
      BY <1>0, <2>1, <2>4 DEF MustRebuild, Short, BootSpace, BootFit
    <3>2. fitted = 0
      BY <1>0, <2>1, <2>4, <3>1 DEF BootSpace, BootFit
    <3>3. Filed(disk)
      BY <3>1, <3>2 DEF RawSoFar
    <3>4. \A t \in Tracks : disk.key[t] # 0 <=> t \in Done
      BY <3>1, KeysCounted DEF KeysDone, Done, With
    <3> QED BY <2>1, <2>2, <3>1, <3>3, <3>4 DEF BootRestores, Filed
  <2> QED BY <2>1, <2>3, <2>4 DEF BootRestores
<1>2. CASE gateway.phase = "booting" /\ gateway'.phase = "booting"
  <2>1. (\A w \in Workers : job[w].at = "idle") /\ refit.at = "idle"
    BY <1>2 DEF QueueInv, Quiet, Idle, NoRefit
  <2>2. ~WatchTick /\ ~EnqueueRequest /\ ~PersistIfDirty /\ ~Backfill /\ ~RefitFit
    BY <1>2 DEF WatchTick, EnqueueRequest, PersistIfDirty, Backfill, RefitFit, Running
  <2>3. ~RefitInstall /\ ~RefitList /\ ~RefitRebuild /\ ~RebuildFails /\ ~RefitFails /\ ~RefitPersist
    BY <2>1 DEF RefitInstall, RefitList, RefitRebuild, RebuildFails, RefitFails, RefitPersist
  <2>4. ~BootDegraded /\ (\A whitens \in Settings : ~BootRecommender(whitens)) /\ ~Crash
    BY <1>2 DEF BootDegraded, BootRecommender, Crash, Process
  <2>5. ~SpawnTasks
    BY <1>0, <1>2 DEF SpawnTasks, GatewayType
  <2>6. \A w \in Workers : ~WorkerStep(w)
    BY <1>2, <2>1 DEF WorkerStep, ClaimNext, Running, EmbedOne, MarkDone, MarkFailed, StoreFails, Whiten, Upsert,
                      UpsertFails, AddFails, RaiseFlag
  <2>7. UNCHANGED <<rows, ann, whitening, fitted, gateway>>
    BY <2>2, <2>3, <2>4, <2>5, <2>6 DEF IngestNext, SidecarTurns, SaveIndex, SaveKeys, SaveFails, ingestVars
  <2> QED BY <2>7 DEF BootRestores
<1>3. CASE gateway.phase # "booting" /\ gateway'.phase = "booting"
  <2>1. ~WatchTick
    BY <1>0, <1>3 DEF WatchTick, GatewayType
  <2>2. ~SpawnTasks /\ ~BootDegraded /\ ~Crash
    BY <1>3 DEF SpawnTasks, BootDegraded, Crash, Process
  <2>3. \A w \in Workers : ~WorkerStep(w)
    BY <1>3 DEF WorkerStep, ClaimNext, EmbedOne, MarkDone, MarkFailed, StoreFails, Whiten, Upsert,
                UpsertFails, AddFails, RaiseFlag
  <2>4. ~EnqueueRequest /\ ~PersistIfDirty /\ ~Backfill /\ ~RefitFit /\ ~RefitInstall /\ ~RefitList
        /\ ~RefitRebuild /\ ~RebuildFails /\ ~RefitFails /\ ~RefitPersist /\ ~SidecarTurns
    BY <1>3 DEF EnqueueRequest, PersistIfDirty, Backfill, RefitFit, RefitInstall, RefitList, RefitRebuild,
                RebuildFails,
                RefitFails, RefitPersist, SidecarTurns
  <2>5. \A s \in Savers : ~SaveIndex(s) /\ ~SaveKeys(s) /\ ~SaveFails(s)
    BY <1>3 DEF SaveIndex, SaveKeys, SaveFails
  <2>6. \E whitens \in Settings : BootRecommender(whitens)
    BY <1>3, <2>1, <2>2, <2>3, <2>4, <2>5 DEF IngestNext, ingestVars
  <2> QED BY <1>1, <2>6
<1> QED BY <1>2, <1>3 DEF BootRestores

\* Every boot that whitens, and every boot over a table nothing was fitted on,
\* restores the index from whatever the last process left in its files.
THEOREM BootsRestoreTheIndex == IngestSpec => []BootRestores
BY QueueInitInv, QueueNextInv, SaveInitInv, SaveNextInv, KeysInitInv, KeysNextInv, RawNextInv, BootNextInv, PTL
   DEF IngestSpec

-----------------------------------------------------------------------------
(* The lyrics resolver.                                                      *)

\* The stages in which a caller holds a reference to the mutex of its song that
\* the map must not lose, and those in which it owns the mutex.
Holding == {"waiting", "locked", "queued", "asking", "release"}
Owning == {"locked", "queued", "asking"}

CallState == [at : {"rest", "locking", "returning"} \cup Holding,
              song : Songs \cup {NoSong}, force : BOOLEAN, mutex : Nat]

LyricsType ==
    /\ inflight \in [Songs -> Nat] /\ minted \in Nat
    /\ call \in [Callers -> CallState]
    /\ \A c \in Callers : call[c].at # "rest" => call[c].song \in Songs

\* Whoever holds a reference holds the one that is in the map.
MapKeepsHeld ==
    \A c \in Callers :
        call[c].at \in Holding => call[c].mutex = inflight[call[c].song] /\ call[c].mutex # 0

\* A mutex has one owner.
OneOwner ==
    \A c, d \in Callers :
        c # d /\ call[c].at \in Owning /\ call[d].at \in Owning => call[c].mutex # call[d].mutex

LyricsInv == LyricsType /\ MapKeepsHeld /\ OneOwner

\* The resolver starts with no call under way and an empty map.
LEMMA LyricsInitInv == LyricsInit => LyricsInv
BY LyricsAssumption DEF LyricsInit, LyricsInv, LyricsType, MapKeepsHeld, OneOwner, CallState, AtRest,
       Holding, Owning

\* Two callers holding one mutex, with the map's own reference, make at least
\* three: the test of Arc::strong_count before the removal fails.
LEMMA SharedMutexCounted ==
    ASSUME NEW c \in Callers, NEW d \in Callers, c # d, NEW s, NEW m,
           call[c].mutex = m, call[d].mutex = m, inflight[s] = m
    PROVE  ~ (StrongCount(s, m) <= 2)
<1> DEFINE H == {x \in Callers : call[x].mutex = m}
<1>1. IsFiniteSet(H) /\ Cardinality(H) \in Nat
  BY LyricsAssumption, FS_Subset, FS_CardinalityType
<1>2. {c, d} \subseteq H
  OBVIOUS
<1>3. IsFiniteSet({c, d}) /\ Cardinality({c, d}) = 2
  <2>1. IsFiniteSet({c}) /\ Cardinality({c}) = 1
    BY FS_Singleton
  <2>2. /\ IsFiniteSet({c} \cup {d})
        /\ Cardinality({c} \cup {d}) = IF d \in {c} THEN Cardinality({c}) ELSE Cardinality({c}) + 1
    BY <2>1, FS_AddElement
  <2>3. {c, d} = {c} \cup {d} /\ d \notin {c}
    OBVIOUS
  <2> QED BY <2>1, <2>2, <2>3
<1>4. 2 <= Cardinality(H)
  BY <1>1, <1>2, <1>3, FS_Subset
<1>5. StrongCount(s, m) = Cardinality(H) + 1
  BY Zenon DEF StrongCount
<1> QED BY <1>1, <1>4, <1>5

\* Every step of a caller, an abandoned call and an expired answer keep the
\* invariant; the one that could lose it is the removal of an entry.
LEMMA LyricsNextInv == LyricsInv /\ [LyricsNext]_lyricsVars => LyricsInv'
<1> SUFFICES ASSUME LyricsInv, [LyricsNext]_lyricsVars PROVE LyricsInv'
  OBVIOUS
<1> USE DEF LyricsInv, LyricsType, MapKeepsHeld, OneOwner, CallState, AtRest, Holding, Owning, Within, Goes
<1>1. ASSUME NEW c \in Callers, NEW s \in Songs, Get(c, s) PROVE LyricsInv'
  BY <1>1 DEF Get
<1>2. ASSUME NEW c \in Callers, NEW s \in Songs, Refresh(c, s) PROVE LyricsInv'
  BY <1>2 DEF Refresh
<1>3. ASSUME NEW c \in Callers, LockFor(c) PROVE LyricsInv'
  <2> DEFINE s == call[c].song
             m == IF inflight[s] = 0 THEN minted + 1 ELSE inflight[s]
  <2>1. /\ s \in Songs /\ m \in Nat \ {0} /\ call[c].at = "locking"
        /\ inflight' = [inflight EXCEPT ![s] = m] /\ minted' \in Nat
        /\ inflight[s] # 0 => m = inflight[s]
    BY <1>3 DEF LockFor
  <2>2. call' = [call EXCEPT ![c] = [call[c] EXCEPT !.at = "waiting", !.mutex = m]]
    BY <1>3 DEF LockFor
  <2> HIDE DEF m
  <2>3. LyricsType'
    BY <2>1, <2>2
  <2>4. MapKeepsHeld'
    BY <2>1, <2>2
  <2>5. OneOwner'
    BY <2>1, <2>2
  <2> QED BY <2>3, <2>4, <2>5
<1>4. ASSUME NEW c \in Callers, Acquire(c) PROVE LyricsInv'
  BY <1>4 DEF Acquire, Owned
<1>5. ASSUME NEW c \in Callers, Recheck(c) PROVE LyricsInv'
  BY <1>5 DEF Recheck
<1>6. ASSUME NEW c \in Callers, TakePermit(c) PROVE LyricsInv'
  BY <1>6 DEF TakePermit
<1>7. ASSUME NEW c \in Callers, Answer(c) PROVE LyricsInv'
  BY <1>7 DEF Answer
<1>8. ASSUME NEW c \in Callers, ReleaseLock(c) PROVE LyricsInv'
  BY <1>8, SharedMutexCounted DEF ReleaseLock
<1>9. ASSUME NEW c \in Callers, Return(c) PROVE LyricsInv'
  BY <1>9 DEF Return
<1>10. ASSUME NEW c \in Callers, Abandon(c) PROVE LyricsInv'
  BY <1>10 DEF Abandon
<1>11. ASSUME NEW s \in Songs, Expire(s) PROVE LyricsInv'
  BY <1>11 DEF Expire
<1>12. CASE UNCHANGED lyricsVars
  BY <1>12 DEF lyricsVars
<1> QED BY <1>1, <1>2, <1>3, <1>4, <1>5, <1>6, <1>7, <1>8, <1>9, <1>10, <1>11, <1>12 DEF LyricsNext

\* However many callers ask for a song at once, and however their calls are
\* abandoned, at most one of them is asking the providers for it at a time: the
\* mutex taken out of the map is never one that somebody else still waits on.
THEOREM LookupsAreSingleFlight == LyricsSpec => []SingleFlight
<1>1. LyricsInv => SingleFlight
  BY DEF LyricsInv, LyricsType, MapKeepsHeld, OneOwner, Holding, Owning, SingleFlight, Within
<1> QED BY <1>1, LyricsInitInv, LyricsNextInv, PTL DEF LyricsSpec

-----------------------------------------------------------------------------
(* The projection job.                                                       *)

PointSet == [stamp : Nat, dims : {2, 3}, points : Nat]

ProjType ==
    /\ embedded \in Nat /\ minute \in Nat
    /\ projections \in Seq(PointSet)
    /\ reduction \in [at : {"tick", "list", "flat", "deep", "deep_only", "prune"},
                      count : Nat, stamp : Nat, points : Nat]

\* No set is stamped later than the clock, a reduction that has stored nothing
\* yet has a stamp of its own, and what it has stored has the points it will
\* store next.
StampsOwned ==
    /\ \A i \in DOMAIN projections : projections[i].stamp <= minute
    /\ reduction.at \in {"list", "flat"} =>
          \A i \in DOMAIN projections : projections[i].stamp < reduction.stamp
    /\ reduction.at \notin {"tick", "prune"} => reduction.stamp <= minute
    /\ reduction.at \in {"deep", "deep_only"} =>
          \A i \in DOMAIN projections :
              projections[i].stamp = reduction.stamp => projections[i].points = reduction.points

ProjInv == ProjType /\ StampsOwned /\ SiblingsAgree

\* No projection is stored and the task waits for its first tick.
LEMMA ProjInitInv == ProjInit => ProjInv
<1>1. << >> \in Seq(PointSet) /\ DOMAIN << >> = {}
  BY EmptySeq
<1> QED BY <1>1 DEF ProjInit, ProjInv, ProjType, StampsOwned, SiblingsAgree, Waiting

\* What one call of the reducer adds to the stored projections: one point set,
\* with the stamp and the point count of the run under way.
LEMMA StoredSet ==
    ASSUME ProjInv, NEW dims \in {2, 3}, reduction.at \in {"flat", "deep", "deep_only"},
           Stored(dims, reduction.points)
    PROVE  /\ projections' \in Seq(PointSet)
           /\ \A i \in DOMAIN projections' :
                \/ i \in DOMAIN projections /\ projections'[i] = projections[i]
                \/ i = Len(projections) + 1 /\ projections'[i].stamp = reduction.stamp
                                            /\ projections'[i].points = reduction.points
<1> DEFINE e == [stamp |-> reduction.stamp, dims |-> dims, points |-> reduction.points]
<1>1. e \in PointSet /\ projections \in Seq(PointSet)
  BY DEF ProjInv, ProjType, PointSet
<1>2. projections' = Append(projections, e)
  BY DEF Stored
<1>3. e.stamp = reduction.stamp /\ e.points = reduction.points
  OBVIOUS
<1> HIDE DEF e
<1>4. Len(projections) \in Nat /\ DOMAIN projections = 1 .. Len(projections)
  BY <1>1, SeqFacts
<1>5. /\ projections' \in Seq(PointSet)
      /\ DOMAIN projections' = 1 .. Len(projections) + 1
      /\ \A i \in 1 .. Len(projections) + 1 :
            projections'[i] = IF i = Len(projections) + 1 THEN e ELSE projections[i]
  BY <1>1, <1>2, AppendFacts
<1> QED BY <1>3, <1>4, <1>5

\* The versions left are versions there were.
LEMMA PrunedSets ==
    ASSUME ProjInv, PruneProjVersions
    PROVE  /\ projections' \in Seq(PointSet)
           /\ \A i \in DOMAIN projections' : \E j \in DOMAIN projections : projections'[i] = projections[j]
           /\ \A i, j \in DOMAIN projections' : 
                projections'[i].stamp = projections'[j].stamp => projections'[i].points = projections'[j].points
<1> DEFINE n == Len(projections)
           m == n - KeepRuns + 1
<1>1. projections \in Seq(PointSet)
  BY DEF ProjInv, ProjType
<1>2. n \in Nat /\ DOMAIN projections = 1 .. n
  BY <1>1, SeqFacts
<1>3. CASE n <= KeepRuns
  <2>1. projections' = projections
    BY <1>3 DEF PruneProjVersions
  <2> QED BY <2>1, <1>1 DEF ProjInv, SiblingsAgree
<1>4. CASE ~(n <= KeepRuns)
  <2>1. projections' = SubSeq(projections, m, n)
    BY <1>4 DEF PruneProjVersions
  <2>2. m \in 1 .. n
    BY <1>2, <1>4, ProjAssumption
  <2> HIDE DEF m, n
  <2>3. m \in 1 .. Len(projections) + 1 /\ n \in m - 1 .. Len(projections) /\ m <= n /\ Len(projections) \in Nat
    BY <1>2, <2>2 DEF n
  <2>4. /\ projections' \in Seq(PointSet) /\ Len(projections') = n - m + 1
        /\ \A i \in 1 .. n - m + 1 : projections'[i] = projections[m + i - 1]
    BY <1>1, <2>1, <2>3, SubSeqProperties
  <2>5. DOMAIN projections' = 1 .. n - m + 1
    BY <2>4, SeqFacts
  <2>6. \A i \in DOMAIN projections' : m + i - 1 \in DOMAIN projections
    BY <1>2, <2>2, <2>5
  <2>7. \A i \in DOMAIN projections' : \E j \in DOMAIN projections : projections'[i] = projections[j]
    BY <2>4, <2>5, <2>6
  <2> QED BY <2>4, <2>7 DEF ProjInv, SiblingsAgree
<1> QED BY <1>3, <1>4

\* Every tick, every stage of a reduction, every failure and a restart keep it.
LEMMA ProjNextInv == ProjInv /\ [ProjNext]_projVars => ProjInv'
<1> SUFFICES ASSUME ProjInv, [ProjNext]_projVars PROVE ProjInv'
  OBVIOUS
<1>0. \A i \in DOMAIN projections : projections[i] \in PointSet
  BY SeqFacts DEF ProjInv, ProjType
<1> USE DEF ProjInv
<1>1. CASE Embeds
  <2>1. ProjType'
    BY <1>1 DEF Embeds, ProjType
  <2> QED BY <1>1, <2>1 DEF Embeds, StampsOwned, SiblingsAgree
<1>2. CASE ProjTick
  <2>1. /\ minute \in Nat /\ minute' = minute + 1 /\ reduction = Waiting /\ projections' = projections
        /\ \/ reduction' = Waiting
           \/ reduction' = [at |-> "list", count |-> embedded, stamp |-> minute', points |-> 0]
    BY <1>2 DEF ProjTick, ProjType
  <2>2. ProjType'
    BY <1>2, <2>1 DEF ProjTick, ProjType, Waiting
  <2>3. StampsOwned'
    BY <1>0, <2>1 DEF StampsOwned, Waiting, PointSet
  <2> QED BY <2>1, <2>2, <2>3 DEF SiblingsAgree
<1>3. CASE CountFails
  <2>1. ProjType' /\ minute' = minute + 1 /\ minute \in Nat /\ reduction' = Waiting /\ reduction = Waiting
    BY <1>3 DEF CountFails, ProjType
  <2>2. StampsOwned'
    BY <1>0, <1>3, <2>1 DEF CountFails, StampsOwned, Waiting, PointSet
  <2> QED BY <1>3, <2>1, <2>2 DEF CountFails, SiblingsAgree
<1>4. CASE ListMatrix
  <2>1. ProjType'
    BY <1>4 DEF ListMatrix, ProjType
  <2>2. /\ reduction'.at = "flat" /\ reduction'.stamp = reduction.stamp
    BY <1>4 DEF ListMatrix, ProjType
  <2> QED BY <1>4, <2>1, <2>2 DEF ListMatrix, StampsOwned, SiblingsAgree
<1>5. CASE ReduceFlat
  <2>1. /\ reduction.at = "flat" /\ reduction'.at = "deep" /\ reduction'.stamp = reduction.stamp
        /\ reduction'.points = reduction.points /\ minute' = minute /\ minute \in Nat /\ reduction.stamp \in Nat
    BY <1>5 DEF ReduceFlat, ProjType
  <2>2. /\ projections' \in Seq(PointSet)
        /\ \A i \in DOMAIN projections' :
             \/ i \in DOMAIN projections /\ projections'[i] = projections[i]
             \/ i = Len(projections) + 1 /\ projections'[i].stamp = reduction.stamp
                                         /\ projections'[i].points = reduction.points
    BY <1>5, <2>1, StoredSet DEF ReduceFlat
  <2>3. ProjType'
    BY <1>5, <2>2 DEF ReduceFlat, ProjType
  <2>4. \A i \in DOMAIN projections : projections[i].stamp # reduction.stamp
    BY <1>0, <2>1 DEF StampsOwned, PointSet
  <2>5. StampsOwned'
    BY <2>1, <2>2, <2>4 DEF StampsOwned
  <2>6. SiblingsAgree'
    BY <2>2, <2>4 DEF SiblingsAgree
  <2> QED BY <2>3, <2>5, <2>6
<1>6. CASE ReduceFlatFails
  <2>1. /\ reduction.at = "flat" /\ reduction'.at = "deep_only" /\ reduction'.stamp = reduction.stamp
        /\ minute' = minute /\ projections' = projections /\ ProjType' /\ minute \in Nat /\ reduction.stamp \in Nat
    BY <1>6 DEF ReduceFlatFails, ProjType
  <2>2. \A i \in DOMAIN projections : projections[i].stamp # reduction.stamp
    BY <1>0, <2>1 DEF StampsOwned, PointSet
  <2>3. StampsOwned'
    BY <2>1, <2>2 DEF StampsOwned
  <2> QED BY <2>1, <2>3 DEF SiblingsAgree
<1>7. CASE ReduceDeep
  <2>1. /\ reduction.at \in {"deep", "deep_only"} /\ minute' = minute
        /\ reduction' \in {Waiting, [Waiting EXCEPT !.at = "prune"]}
        /\ Stored(3, reduction.points) /\ embedded' = embedded
    BY <1>7 DEF ReduceDeep
  <2>2. /\ projections' \in Seq(PointSet)
        /\ \A i \in DOMAIN projections' :
             \/ i \in DOMAIN projections /\ projections'[i] = projections[i]
             \/ i = Len(projections) + 1 /\ projections'[i].stamp = reduction.stamp
                                         /\ projections'[i].points = reduction.points
    BY <2>1, StoredSet
  <2>3. ProjType' /\ reduction'.at \in {"tick", "prune"}
    BY <2>1, <2>2 DEF ProjType, Waiting
  <2>4. StampsOwned'
    BY <2>1, <2>2, <2>3 DEF StampsOwned
  <2>5. SiblingsAgree'
    BY <2>1, <2>2 DEF SiblingsAgree, StampsOwned
  <2> QED BY <2>3, <2>4, <2>5
<1>8. CASE ProjFails
  <2>1. ProjType' /\ reduction'.at = "tick" /\ projections' = projections /\ minute' = minute
    BY <1>8 DEF ProjFails, ProjType, Waiting
  <2> QED BY <2>1 DEF StampsOwned, SiblingsAgree
<1>9. CASE PruneProjVersions
  <2>1. reduction'.at = "tick" /\ minute' = minute /\ ProjType'
    BY <1>9, PrunedSets DEF PruneProjVersions, ProjType, Waiting
  <2>2. StampsOwned'
    BY <1>9, <2>1, PrunedSets DEF StampsOwned
  <2> QED BY <1>9, <2>1, <2>2, PrunedSets DEF SiblingsAgree
<1>10. CASE ProjBoot
  <2>1. ProjType' /\ reduction'.at = "tick" /\ projections' = projections /\ minute' = minute
    BY <1>10 DEF ProjBoot, ProjType, Waiting
  <2> QED BY <2>1 DEF StampsOwned, SiblingsAgree
<1>11. CASE UNCHANGED projVars
  BY <1>11 DEF projVars, ProjType, StampsOwned, SiblingsAgree
<1> QED BY <1>1, <1>2, <1>3, <1>4, <1>5, <1>6, <1>7, <1>8, <1>9, <1>10, <1>11 DEF ProjNext

\* The flat and the deep projection that carry one stamp were made from one
\* matrix, for every history of ticks, embeddings, failures and restarts.
THEOREM SiblingsAlwaysAgree == ProjSpec => []SiblingsAgree
<1>1. ProjInv => SiblingsAgree
  BY DEF ProjInv
<1> QED BY <1>1, ProjInitInv, ProjNextInv, PTL DEF ProjSpec

-----------------------------------------------------------------------------
(* The limiters: the failed logins of a source.                              *)

Attempt == [failures : Nat, until : Nat \cup {NoLock}]
VerifyingOf(s) == {a \in Attempts : a \in DOMAIN verifying /\ verifying[a] = s}

LoginType ==
    /\ instant \in Nat
    /\ attempts \in [DOMAIN attempts -> Attempt] /\ verifying \in [DOMAIN verifying -> Sources]
    /\ DOMAIN verifying \subseteq Attempts

\* Without a lockout the count is below the limit, and whatever is being verified
\* can add no more than there are attempts.
Charged ==
    \A s \in Sources :
        /\ AttemptOf(s).until = NoLock => AttemptOf(s).failures < MaxFailures
        /\ AttemptOf(s).failures + Cardinality(VerifyingOf(s)) < MaxFailures + Cardinality(Attempts)

LoginInv == LoginType /\ Charged

\* A source without an entry reads as a fresh one, so the type covers it.
LEMMA AttemptType == LoginType => \A s : AttemptOf(s) \in Attempt
BY DEF LoginType, AttemptOf, Attempt, FreshAttempt, NoLock

\* Facts about the logins of one source that are past the check.
Counted(s) ==
    /\ IsFiniteSet(VerifyingOf(s)) /\ Cardinality(VerifyingOf(s)) \in Nat
    /\ Cardinality(VerifyingOf(s)) <= Cardinality(Attempts) /\ Cardinality(Attempts) \in Nat

\* There are finitely many logins at once, so those of one source can be counted.
LEMMA VerifyingCounted == \A s : Counted(s)
<1> SUFFICES ASSUME NEW s PROVE Counted(s)
  OBVIOUS
<1>1. VerifyingOf(s) \subseteq Attempts
  BY DEF VerifyingOf
<1>2. IsFiniteSet(VerifyingOf(s)) /\ Cardinality(VerifyingOf(s)) <= Cardinality(Attempts)
  BY <1>1, LimiterAssumption, FS_Subset
<1> QED BY <1>2, LimiterAssumption, FS_CardinalityType DEF Counted

\* The limiter starts with no entry and no login being verified.
LEMMA LoginInitInv == LimitInit => LoginInv
<1> SUFFICES ASSUME LimitInit PROVE LoginInv
  OBVIOUS
<1>1. LoginType
  BY DEF LimitInit, LoginType
<1>2. ASSUME NEW s \in Sources PROVE AttemptOf(s) = FreshAttempt /\ VerifyingOf(s) = {}
  BY DEF LimitInit, AttemptOf, VerifyingOf
<1>3. Cardinality({}) = 0
  BY FS_EmptySet
<1>4. Cardinality(Attempts) \in Nat
  BY LimiterAssumption, FS_CardinalityType
<1> QED BY <1>1, <1>2, <1>3, <1>4, LimiterAssumption DEF LoginInv, Charged, FreshAttempt

\* The same of the next state.
LEMMA VerifyingCountedNext == (\A s : Counted(s))'
BY VerifyingCounted, PTL

\* Checking a login, charging or clearing it, and the passing of time keep it.
LEMMA LoginNextInv == LoginInv /\ [LoginNext \/ WindowNext]_limitVars => LoginInv'
<1> SUFFICES ASSUME LoginInv, [LoginNext \/ WindowNext]_limitVars PROVE LoginInv'
  OBVIOUS
<1> USE DEF LoginInv
<1>0. /\ \A s : Cardinality(VerifyingOf(s)) \in Nat /\ IsFiniteSet(VerifyingOf(s))
      /\ \A s : Cardinality(VerifyingOf(s)') \in Nat /\ Cardinality(VerifyingOf(s)') <= Cardinality(Attempts)
      /\ Cardinality(Attempts) \in Nat
      /\ MaxFailures \in Nat \ {0} /\ Lockout \in Nat
  BY VerifyingCounted, VerifyingCountedNext, LimiterAssumption DEF Counted
<1>1. \A s : AttemptOf(s).failures \in Nat /\ AttemptOf(s).until \in Nat \cup {NoLock}
  BY AttemptType DEF Attempt
<1>2. ASSUME NEW a \in Attempts, NEW s \in Sources, LoginCheck(a, s) PROVE LoginInv'
  <2>1. /\ DOMAIN verifying' = DOMAIN verifying \cup {a}
        /\ \A b \in DOMAIN verifying' : verifying'[b] = IF b = a THEN s ELSE verifying[b]
        /\ verifying' = [b \in DOMAIN verifying \cup {a} |-> IF b = a THEN s ELSE verifying[b]]
    BY <1>2 DEF LoginCheck, Inserted
  <2>2. CASE AttemptOf(s).until = NoLock
    <3>1. attempts' = attempts /\ instant' = instant
      BY <1>2, <2>2 DEF LoginCheck
    <3>2. LoginType'
      BY <2>1, <3>1 DEF LoginType
    <3>3. ASSUME NEW r \in Sources
          PROVE  AttemptOf(r)' = AttemptOf(r) /\ (r # s => VerifyingOf(r)' = VerifyingOf(r))
      BY <2>1, <3>1, <1>2 DEF AttemptOf, VerifyingOf, LoginCheck
    <3> QED BY <1>0, <1>1, <2>2, <3>2, <3>3 DEF Charged
  <2>3. CASE AttemptOf(s).until # NoLock
    <3>1. /\ DOMAIN attempts' = DOMAIN attempts \cup {s} /\ instant' = instant
          /\ attempts' = [r \in DOMAIN attempts \cup {s} |-> IF r = s THEN FreshAttempt ELSE attempts[r]]
      BY <1>2, <2>3 DEF LoginCheck, Inserted
    <3>2. LoginType'
      BY <2>1, <3>1 DEF LoginType, Attempt, FreshAttempt
    <3>3. ASSUME NEW r \in Sources
          PROVE  /\ AttemptOf(r)' = IF r = s THEN FreshAttempt ELSE AttemptOf(r)
                 /\ r # s => VerifyingOf(r)' = VerifyingOf(r)
      BY <2>1, <3>1, <1>2 DEF AttemptOf, VerifyingOf, LoginCheck
    <3> QED BY <1>0, <1>1, <3>2, <3>3 DEF Charged, FreshAttempt
  <2> QED BY <2>2, <2>3
<1>3. ASSUME NEW a \in DOMAIN verifying, NEW s, s = verifying[a], Verified(a)
      PROVE  /\ \A r : r # s => VerifyingOf(r)' = VerifyingOf(r)
             /\ Cardinality(VerifyingOf(s)') = Cardinality(VerifyingOf(s)) - 1
             /\ verifying' \in [DOMAIN verifying' -> Sources] /\ DOMAIN verifying' \subseteq Attempts
  <2>1. DOMAIN verifying' = DOMAIN verifying \ {a} /\ \A b \in DOMAIN verifying' : verifying'[b] = verifying[b]
    BY <1>3 DEF Verified
  <2>2. a \in VerifyingOf(s) /\ VerifyingOf(s)' = VerifyingOf(s) \ {a}
    BY <1>3, <2>1 DEF VerifyingOf, LoginType
  <2>3. \A r : r # s => VerifyingOf(r)' = VerifyingOf(r)
    BY <1>3, <2>1 DEF VerifyingOf, LoginType
  <2>4. Cardinality(VerifyingOf(s)') = Cardinality(VerifyingOf(s)) - 1
    BY <1>0, <2>2, FS_RemoveElement
  <2> QED BY <1>3, <2>1, <2>3, <2>4 DEF LoginType, Verified
<1>4. ASSUME NEW a \in DOMAIN verifying, RecordFailure(a) PROVE LoginInv'
  <2> PICK s \in Sources : s = verifying[a]
    BY DEF LoginType
  <2> DEFINE n == AttemptOf(s).failures + 1
             charged == [failures |-> n,
                         until |-> IF n >= MaxFailures THEN instant + Lockout ELSE AttemptOf(s).until]
  <2>0. Verified(a) /\ attempts' = Inserted(attempts, s, charged) /\ instant' = instant
    BY <1>4 DEF RecordFailure
  <2>1. /\ charged.failures = AttemptOf(s).failures + 1
        /\ charged.until = NoLock => charged.failures < MaxFailures
        /\ charged \in Attempt
    BY <1>0, <1>1 DEF LoginType, Attempt, NoLock
  <2>2. attempts' = [r \in DOMAIN attempts \cup {s} |-> IF r = s THEN charged ELSE attempts[r]]
    BY <2>0 DEF Inserted
  <2>3. PICK new \in Attempt : new = charged
    BY <2>1
  <2> HIDE DEF charged
  <2>4. LoginType'
    BY <1>3, <2>0, <2>1, <2>2 DEF LoginType
  <2>5. \A r \in Sources : AttemptOf(r)' = IF r = s THEN new ELSE AttemptOf(r)
    BY <2>2, <2>3 DEF AttemptOf
  <2>6. /\ \A r : r # s => VerifyingOf(r)' = VerifyingOf(r)
        /\ Cardinality(VerifyingOf(s)') = Cardinality(VerifyingOf(s)) - 1
    BY <1>3, <2>0
  <2> QED BY <1>0, <1>1, <2>1, <2>3, <2>4, <2>5, <2>6 DEF Charged
<1>5. ASSUME NEW a \in DOMAIN verifying, RecordSuccess(a) PROVE LoginInv'
  <2> PICK s \in Sources : s = verifying[a]
    BY DEF LoginType
  <2>0. Verified(a) /\ attempts' = [r \in DOMAIN attempts \ {s} |-> attempts[r]] /\ instant' = instant
    BY <1>5 DEF RecordSuccess
  <2>2. LoginType'
    BY <1>3, <2>0 DEF LoginType
  <2>3. \A r \in Sources : AttemptOf(r)' = IF r = s THEN FreshAttempt ELSE AttemptOf(r)
    BY <2>0 DEF AttemptOf
  <2>4. /\ \A r : r # s => VerifyingOf(r)' = VerifyingOf(r)
        /\ Cardinality(VerifyingOf(s)') = Cardinality(VerifyingOf(s)) - 1
    BY <1>3, <2>0
  <2> QED BY <1>0, <1>1, <2>2, <2>3, <2>4 DEF Charged, FreshAttempt
<1>6. ASSUME UNCHANGED <<attempts, verifying>>, instant' = instant \/ instant' = instant + 1 PROVE LoginInv'
  <2>1. \A r : AttemptOf(r)' = AttemptOf(r) /\ VerifyingOf(r)' = VerifyingOf(r)
    BY <1>6 DEF AttemptOf, VerifyingOf
  <2>2. LoginType'
    BY <1>6 DEF LoginType
  <2> QED BY <2>1, <2>2 DEF Charged
<1> QED BY <1>2, <1>4, <1>5, <1>6 DEF LoginNext, WindowNext, InstantPasses, RateCheck, limitVars
-----------------------------------------------------------------------------
(* The rolling window: how far apart the requests let through are. *)

WindowState == [count : 0 .. MaxPerWindow, started : Nat]

WindowType ==
    /\ instant \in Nat /\ accepted \in [Sources -> Seq(Nat)]
    /\ windows \in [DOMAIN windows -> WindowState]

\* times is in the order of the clock, and two windows' worth of requests later a
\* whole window has passed.
Ordered(times, now) ==
    \A i \in 1 .. Len(times) : times[i] <= now /\ \A j \in 1 .. i : times[j] <= times[i]
Apart(times) ==
    \A i \in 1 .. Len(times) :
        i + 2 * MaxPerWindow <= Len(times) => times[i] + Window <= times[i + 2 * MaxPerWindow]

\* What the window w of a source knows of the requests let through: the last
\* w.count are its own, the earlier ones preceded it, and all but a window's worth
\* of these by a whole window.
Behind(times, w) ==
    \A i \in 1 .. Len(times) :
        /\ i <= Len(times) - w.count => times[i] <= w.started
        /\ i <= Len(times) - w.count - MaxPerWindow => times[i] + Window <= w.started

\* What is known of a source without a window.
LongAgo(times, now) ==
    \A i \in 1 .. Len(times) : i <= Len(times) - MaxPerWindow => times[i] + Window <= now

SourceSpaced(s) ==
    /\ Ordered(accepted[s], instant) /\ Apart(accepted[s])
    /\ IF s \in DOMAIN windows
       THEN windows[s].started <= instant /\ Behind(accepted[s], windows[s])
       ELSE LongAgo(accepted[s], instant)

WindowInv == WindowType /\ \A s \in Sources : SourceSpaced(s)

\* A window that is over leaves what a source without a window needs.
LEMMA WindowOver ==
    ASSUME NEW times \in Seq(Nat), NEW now \in Nat, NEW w \in WindowState,
           Behind(times, w), w.started + Window <= now
    PROVE  LongAgo(times, now)
<1>1. w.count \in 0 .. MaxPerWindow /\ w.started \in Nat /\ MaxPerWindow \in Nat /\ Window \in Nat
  BY LimiterAssumption DEF WindowState
<1>2. Len(times) \in Nat /\ \A i \in 1 .. Len(times) : times[i] \in Nat
  BY SeqFacts
<1> SUFFICES ASSUME NEW i \in 1 .. Len(times), i <= Len(times) - MaxPerWindow
             PROVE  times[i] + Window <= now
  BY DEF LongAgo
<1>3. i <= Len(times) - w.count
  BY <1>1, <1>2, SMTT(30)
<1>4. times[i] <= w.started /\ times[i] \in Nat
  BY <1>2, <1>3 DEF Behind
<1> QED BY <1>1, <1>4, SMTT(30)

\* A request let through by a new window.
LEMMA OpensWindow ==
    ASSUME NEW times \in Seq(Nat), NEW now \in Nat, NEW w \in WindowState,
           Ordered(times, now), Apart(times), LongAgo(times, now),
           w.count = 1, w.started = now
    PROVE  Ordered(Append(times, now), now) /\ Apart(Append(times, now)) /\ Behind(Append(times, now), w)
<1> DEFINE t == Append(times, now)
           n == Len(times)
<1>1. Len(t) = n + 1 /\ n \in Nat /\ \A i \in 1 .. n + 1 : t[i] = IF i = n + 1 THEN now ELSE times[i]
  BY AppendFacts, SeqFacts
<1>2. \A i \in 1 .. n : times[i] \in Nat
  BY SeqFacts
<1>3. MaxPerWindow \in Nat \ {0} /\ Window \in Nat \ {0}
  BY LimiterAssumption
<1> HIDE DEF t, n
<1>4. /\ \A i \in 1 .. n : times[i] <= now /\ \A j \in 1 .. i : times[j] <= times[i]
      /\ \A i \in 1 .. n : i + 2 * MaxPerWindow <= n => times[i] + Window <= times[i + 2 * MaxPerWindow]
      /\ \A i \in 1 .. n : i <= n - MaxPerWindow => times[i] + Window <= now
  BY DEF n, Ordered, Apart, LongAgo
<1>5. Ordered(t, now)
  <2> SUFFICES ASSUME NEW i \in 1 .. Len(t), NEW j \in 1 .. i PROVE t[i] <= now /\ t[j] <= t[i]
    BY <1>1 DEF Ordered
  <2>1. CASE i = n + 1
    <3>1. t[i] = now /\ j \in 1 .. n + 1
      BY <1>1, <2>1
    <3>2. CASE j = n + 1
      BY <1>1, <3>1, <3>2
    <3>3. CASE j \in 1 .. n
      <4>1. t[j] = times[j] /\ times[j] <= now
        BY <1>1, <1>4, <3>3
      <4> QED BY <3>1, <4>1
    <3> QED BY <1>1, <3>1, <3>2, <3>3
  <2>2. CASE i \in 1 .. n
    <3>1. j \in 1 .. n
      BY <1>1, <2>2
    <3>2. t[i] = times[i] /\ t[j] = times[j]
      BY <1>1, <2>2, <3>1
    <3> QED BY <1>4, <2>2, <3>2
  <2> QED BY <1>1, <2>1, <2>2
<1>6. Apart(t)
  <2> SUFFICES ASSUME NEW i \in 1 .. Len(t), NEW k \in 1 .. Len(t), k = i + 2 * MaxPerWindow
               PROVE  t[i] + Window <= t[k]
    BY <1>1, <1>3 DEF Apart
  <2>1. i \in 1 .. n /\ i <= k - 2 * MaxPerWindow /\ t[i] = times[i] /\ times[i] \in Nat
    BY <1>1, <1>2, <1>3
  <2>2. CASE k \in 1 .. n
    <3>1. t[k] = times[k] /\ i + 2 * MaxPerWindow <= n
      BY <1>1, <1>3, <2>2
    <3>2. times[i] + Window <= times[i + 2 * MaxPerWindow]
      BY <1>4, <2>1, <3>1
    <3> QED BY <2>1, <3>1, <3>2
  <2>3. CASE k = n + 1
    <3>1. t[k] = now /\ i <= n - MaxPerWindow
      BY <1>1, <1>3, <2>1, <2>3
    <3>2. times[i] + Window <= now
      BY <1>4, <2>1, <3>1
    <3> QED BY <1>2, <1>3, <2>1, <3>1, <3>2
  <2> QED BY <1>1, <2>2, <2>3
<1>7. Behind(t, w)
  <2> SUFFICES ASSUME NEW i \in 1 .. Len(t)
               PROVE  /\ i <= Len(t) - w.count => t[i] <= w.started
                      /\ i <= Len(t) - w.count - MaxPerWindow => t[i] + Window <= w.started
    BY DEF Behind
  <2>1. CASE i \in 1 .. n
    BY <1>1, <1>2, <1>3, <1>4, <2>1
  <2>2. CASE i = n + 1
    BY <1>1, <1>3, <2>2
  <2> QED BY <1>1, <2>1, <2>2
<1> QED BY <1>5, <1>6, <1>7 DEF t

\* A request let through by a window that has room.
LEMMA FillsWindow ==
    ASSUME NEW times \in Seq(Nat), NEW now \in Nat, NEW v \in WindowState, NEW w \in WindowState,
           Ordered(times, now), Apart(times), Behind(times, v), v.started <= now,
           v.count < MaxPerWindow, w.count = v.count + 1, w.started = v.started
    PROVE  Ordered(Append(times, now), now) /\ Apart(Append(times, now)) /\ Behind(Append(times, now), w)
<1> DEFINE t == Append(times, now)
           n == Len(times)
<1>1. Len(t) = n + 1 /\ n \in Nat /\ \A i \in 1 .. n + 1 : t[i] = IF i = n + 1 THEN now ELSE times[i]
  BY AppendFacts, SeqFacts
<1>2. \A i \in 1 .. n : times[i] \in Nat
  BY SeqFacts
<1>3. MaxPerWindow \in Nat \ {0} /\ Window \in Nat \ {0} /\ v.count \in Nat /\ v.started \in Nat
  BY LimiterAssumption DEF WindowState
<1> HIDE DEF t, n
<1>4. /\ \A i \in 1 .. n : times[i] <= now /\ \A j \in 1 .. i : times[j] <= times[i]
      /\ \A i \in 1 .. n : i + 2 * MaxPerWindow <= n => times[i] + Window <= times[i + 2 * MaxPerWindow]
      /\ \A i \in 1 .. n : i <= n - v.count => times[i] <= v.started
      /\ \A i \in 1 .. n : i <= n - v.count - MaxPerWindow => times[i] + Window <= v.started
  BY DEF n, Ordered, Apart, Behind
<1>5. Ordered(t, now)
  <2> SUFFICES ASSUME NEW i \in 1 .. Len(t), NEW j \in 1 .. i PROVE t[i] <= now /\ t[j] <= t[i]
    BY <1>1 DEF Ordered
  <2>1. CASE i = n + 1
    <3>1. t[i] = now /\ j \in 1 .. n + 1
      BY <1>1, <2>1
    <3>2. CASE j = n + 1
      BY <1>1, <3>1, <3>2
    <3>3. CASE j \in 1 .. n
      <4>1. t[j] = times[j] /\ times[j] <= now
        BY <1>1, <1>4, <3>3
      <4> QED BY <3>1, <4>1
    <3> QED BY <1>1, <3>1, <3>2, <3>3
  <2>2. CASE i \in 1 .. n
    <3>1. j \in 1 .. n
      BY <1>1, <2>2
    <3>2. t[i] = times[i] /\ t[j] = times[j]
      BY <1>1, <2>2, <3>1
    <3> QED BY <1>4, <2>2, <3>2
  <2> QED BY <1>1, <2>1, <2>2
<1>6. Apart(t)
  <2> SUFFICES ASSUME NEW i \in 1 .. Len(t), NEW k \in 1 .. Len(t), k = i + 2 * MaxPerWindow
               PROVE  t[i] + Window <= t[k]
    BY <1>1, <1>3 DEF Apart
  <2>1. i \in 1 .. n /\ i <= k - 2 * MaxPerWindow /\ t[i] = times[i] /\ times[i] \in Nat
    BY <1>1, <1>2, <1>3
  <2>2. CASE k \in 1 .. n
    <3>1. t[k] = times[k] /\ i + 2 * MaxPerWindow <= n
      BY <1>1, <1>3, <2>2
    <3>2. times[i] + Window <= times[i + 2 * MaxPerWindow]
      BY <1>4, <2>1, <3>1
    <3> QED BY <2>1, <3>1, <3>2
  <2>3. CASE k = n + 1
    <3>1. t[k] = now /\ i <= n - v.count - MaxPerWindow
      BY <1>1, <1>3, <2>1, <2>3, SMTT(30)
    <3>2. times[i] + Window <= v.started
      BY <1>4, <2>1, <3>1
    <3>3. times[i] + Window \in Nat /\ v.started \in Nat
      BY <1>3, <2>1, SMTT(30)
    <3>4. times[i] + Window <= now
      BY <3>2, <3>3
    <3> QED BY <2>1, <3>1, <3>4
  <2> QED BY <1>1, <2>2, <2>3
<1>7. Behind(t, w)
  <2> SUFFICES ASSUME NEW i \in 1 .. Len(t)
               PROVE  /\ i <= Len(t) - w.count => t[i] <= w.started
                      /\ i <= Len(t) - w.count - MaxPerWindow => t[i] + Window <= w.started
    BY DEF Behind
  <2>1. CASE i \in 1 .. n
    <3>1. t[i] = times[i] /\ Len(t) - w.count = n - v.count
      BY <1>1, <1>3, <2>1
    <3>2. i <= n - v.count => times[i] <= v.started
      BY <1>4, <2>1
    <3>3. i <= n - v.count - MaxPerWindow => times[i] + Window <= v.started
      BY <1>4, <2>1
    <3> QED BY <3>1, <3>2, <3>3
  <2>2. CASE i = n + 1
    BY <1>1, <1>3, <2>2
  <2> QED BY <1>1, <2>1, <2>2
<1> QED BY <1>5, <1>6, <1>7 DEF t
\* No request has been let through and no window is open.
LEMMA WindowInitInv == LimitInit => WindowInv
<1> SUFFICES ASSUME LimitInit PROVE WindowInv
  OBVIOUS
<1>1. WindowType /\ DOMAIN windows = {}
  BY DEF LimitInit, WindowType
<1>2. ASSUME NEW s \in Sources PROVE Len(accepted[s]) = 0
  BY DEF LimitInit
<1>3. ASSUME NEW s \in Sources PROVE SourceSpaced(s)
  BY <1>1, <1>2 DEF SourceSpaced, Ordered, Apart, LongAgo
<1> QED BY <1>1, <1>3 DEF WindowInv

\* The whole check of one source: its own window and those a full map gives up.
LEMMA RateCheckInv == ASSUME WindowInv, NEW s \in Sources, RateCheck(s) PROVE WindowInv'
<1> DEFINE kept == Pruned(s)
           w == Current(kept, s)
           pass == w.count < MaxPerWindow
           new == IF pass THEN [w EXCEPT !.count = @ + 1] ELSE w
<1>0. /\ MaxPerWindow \in Nat \ {0} /\ Window \in Nat \ {0} /\ instant \in Nat
      /\ \A r \in Sources : accepted[r] \in Seq(Nat)
  BY LimiterAssumption DEF WindowInv, WindowType
<1>1. /\ windows' = [r \in DOMAIN kept \cup {s} |-> IF r = s THEN new ELSE kept[r]]
      /\ accepted' = IF pass THEN [accepted EXCEPT ![s] = Append(@, instant)] ELSE accepted
      /\ instant' = instant
  BY DEF RateCheck, Inserted
<1>2. /\ DOMAIN kept \subseteq DOMAIN windows
      /\ \A r \in DOMAIN kept : kept[r] = windows[r]
      /\ \A r \in DOMAIN windows \ DOMAIN kept : ~(instant - windows[r].started < Window)
  BY DEF Pruned
<1>3. \A r \in DOMAIN windows :
        windows[r] \in WindowState /\ windows[r].count \in 0 .. MaxPerWindow /\ windows[r].started \in Nat
  BY DEF WindowInv, WindowType, WindowState
<1>4. \A r \in DOMAIN windows \cap Sources :
        ~(instant - windows[r].started < Window) => LongAgo(accepted[r], instant)
  <2> SUFFICES ASSUME NEW r \in DOMAIN windows \cap Sources, ~(instant - windows[r].started < Window)
               PROVE  LongAgo(accepted[r], instant)
    OBVIOUS
  <2>1. windows[r].started + Window <= instant /\ Behind(accepted[r], windows[r])
    BY <1>0, <1>3 DEF WindowInv, SourceSpaced
  <2> QED BY <1>0, <1>3, <2>1, WindowOver
<1> HIDE DEF kept
<1>5. \/ /\ s \in DOMAIN windows /\ w = windows[s]
      \/ /\ LongAgo(accepted[s], instant) /\ w = [count |-> 0, started |-> instant] /\ pass
  <2>1. CASE s \in DOMAIN kept /\ instant - kept[s].started < Window
    BY <1>2, <2>1 DEF Current
  <2>2. CASE ~(s \in DOMAIN kept /\ instant - kept[s].started < Window)
    <3>1. w = [count |-> 0, started |-> instant]
      BY <2>2 DEF Current
    <3>2. LongAgo(accepted[s], instant)
      BY <1>2, <1>4, <2>2 DEF WindowInv, SourceSpaced
    <3> QED BY <1>0, <3>1, <3>2
  <2> QED BY <2>1, <2>2
<1>6. w \in WindowState /\ w.started <= instant
  BY <1>0, <1>3, <1>5 DEF WindowState, WindowInv, SourceSpaced
<1> HIDE DEF w
<1>7. /\ new \in WindowState /\ new.started = w.started /\ (~pass => new = w) /\ (pass => new.count = w.count + 1)
  BY <1>0, <1>6 DEF WindowState
<1> HIDE DEF new
<1>8. WindowType'
  <2>1. accepted' \in [Sources -> Seq(Nat)]
    BY <1>0, <1>1, AppendFacts DEF WindowInv, WindowType
  <2>2. windows' \in [DOMAIN windows' -> WindowState]
    BY <1>1, <1>2, <1>3, <1>7
  <2> QED BY <1>0, <1>1, <2>1, <2>2 DEF WindowType
<1>9. ASSUME NEW r \in Sources, r # s PROVE SourceSpaced(r)'
  <2>1. /\ accepted'[r] = accepted[r] /\ instant' = instant
        /\ r \in DOMAIN windows' <=> r \in DOMAIN kept
        /\ r \in DOMAIN kept => windows'[r] = windows[r]
    BY <1>1, <1>2, <1>9 DEF WindowInv, WindowType
  <2>2. SourceSpaced(r)
    BY DEF WindowInv
  <2> QED BY <1>2, <1>4, <2>1, <2>2 DEF SourceSpaced
<1>10. SourceSpaced(s)'
  <2>1. s \in DOMAIN windows' /\ windows'[s] = new /\ instant' = instant
    BY <1>1
  <2>2. Ordered(accepted[s], instant) /\ Apart(accepted[s]) /\ SourceSpaced(s)
    BY DEF WindowInv, SourceSpaced
  <2>3. CASE pass
    <3>1. accepted'[s] = Append(accepted[s], instant)
      BY <1>1, <2>3 DEF WindowInv, WindowType
    <3>2. CASE s \in DOMAIN windows /\ w = windows[s]
      <4>1. Behind(accepted[s], w)
        BY <2>2, <3>2 DEF SourceSpaced
      <4>2. Ordered(Append(accepted[s], instant), instant) /\ Apart(Append(accepted[s], instant))
            /\ Behind(Append(accepted[s], instant), new)
        BY <1>0, <1>6, <1>7, <2>2, <2>3, <4>1, FillsWindow
      <4> QED BY <1>6, <1>7, <2>1, <3>1, <4>2 DEF SourceSpaced
    <3>3. CASE LongAgo(accepted[s], instant) /\ w = [count |-> 0, started |-> instant]
      <4>1. new.count = 1 /\ new.started = instant
        BY <1>7, <2>3, <3>3
      <4>2. Ordered(Append(accepted[s], instant), instant) /\ Apart(Append(accepted[s], instant))
            /\ Behind(Append(accepted[s], instant), new)
        BY <1>0, <1>7, <2>2, <3>3, <4>1, OpensWindow
      <4> QED BY <1>0, <2>1, <3>1, <4>1, <4>2 DEF SourceSpaced
    <3> QED BY <1>5, <3>2, <3>3
  <2>4. CASE ~pass
    <3>1. accepted'[s] = accepted[s] /\ new = w /\ s \in DOMAIN windows /\ w = windows[s]
      BY <1>1, <1>5, <1>7, <2>4
    <3> QED BY <2>1, <2>2, <3>1 DEF SourceSpaced
  <2> QED BY <2>3, <2>4
<1> QED BY <1>8, <1>9, <1>10 DEF WindowInv

\* Every step of either limiter keeps the spacing of the requests let through.
LEMMA WindowNextInv == WindowInv /\ [LoginNext \/ WindowNext]_limitVars => WindowInv'
<1> SUFFICES ASSUME WindowInv, [LoginNext \/ WindowNext]_limitVars PROVE WindowInv'
  OBVIOUS
<1>1. CASE \E s \in Sources : RateCheck(s)
  BY <1>1, RateCheckInv
<1>2. CASE InstantPasses
  <2>1. instant \in Nat /\ instant' = instant + 1 /\ UNCHANGED <<windows, accepted>>
    BY <1>2 DEF InstantPasses, WindowInv, WindowType
  <2>2. WindowType'
    BY <2>1 DEF WindowInv, WindowType
  <2>3. ASSUME NEW s \in Sources PROVE SourceSpaced(s)'
    <3>1. /\ Len(accepted[s]) \in Nat /\ \A i \in 1 .. Len(accepted[s]) : accepted[s][i] \in Nat
          /\ s \in DOMAIN windows => windows[s].started \in Nat
          /\ Window \in Nat
      BY SeqFacts, LimiterAssumption DEF WindowInv, WindowType, WindowState
    <3>2. SourceSpaced(s)
      BY DEF WindowInv
    <3>3. Ordered(accepted[s], instant + 1)
      <4>1. Ordered(accepted[s], instant)
        BY <3>2 DEF SourceSpaced
      <4>2. ASSUME NEW i \in 1 .. Len(accepted[s])
            PROVE  accepted[s][i] <= instant + 1 /\ \A j \in 1 .. i : accepted[s][j] <= accepted[s][i]
        <5>1. accepted[s][i] \in Nat /\ accepted[s][i] <= instant
          BY <3>1, <4>1 DEF Ordered
        <5>2. accepted[s][i] <= instant + 1
          BY <2>1, <5>1
        <5> QED BY <4>1, <5>2 DEF Ordered
      <4> QED BY <4>2 DEF Ordered
    <3>4. LongAgo(accepted[s], instant) => LongAgo(accepted[s], instant + 1)
      BY <2>1, <3>1 DEF LongAgo
    <3> QED BY <2>1, <3>1, <3>2, <3>3, <3>4 DEF SourceSpaced
  <2> QED BY <2>2, <2>3 DEF WindowInv
<1>3. CASE UNCHANGED <<instant, windows, accepted>>
  BY <1>3 DEF WindowInv, WindowType, SourceSpaced
<1> QED
  BY <1>1, <1>2, <1>3 DEF LoginNext, WindowNext, LoginCheck, RecordFailure, RecordSuccess, limitVars

\* Two moments of one span are less than its length apart.
LEMMA BeyondTheSpan ==
    ASSUME NEW t \in Nat, NEW w \in Nat, NEW a \in Nat, NEW b \in Nat, NEW c \in Nat,
           a >= t, c <= t + w - 1, b <= c
    PROVE  ~ (a + w <= b)
OBVIOUS

\* The requests let through in one window's span of time are at most two windows'
\* worth.
LEMMA FewInASpan ==
    ASSUME NEW times \in Seq(Nat), NEW now \in Nat, Ordered(times, now), Apart(times), NEW t \in Nat
    PROVE  Cardinality({i \in DOMAIN times : times[i] \in t .. (t + Window - 1)}) <= 2 * MaxPerWindow
<1> DEFINE S == {i \in DOMAIN times : times[i] \in t .. (t + Window - 1)}
           n == Len(times)
<1>0. /\ MaxPerWindow \in Nat \ {0} /\ Window \in Nat \ {0}
      /\ n \in Nat /\ DOMAIN times = 1 .. n /\ \A i \in 1 .. n : times[i] \in Nat
  BY LimiterAssumption, SeqFacts
<1>1. CASE S = {}
  <2>1. Cardinality(S) = 0
    BY <1>1, FS_EmptySet
  <2> QED BY <1>0, <2>1
<1>2. CASE S # {}
  <2>1. PICK m \in S : \A i \in S : m <= i
    <3>1. S \in SUBSET Nat /\ S # {}
      BY <1>0, <1>2
    <3> QED BY <3>1, NatMin
  <2>2. S \subseteq m .. (m + 2 * MaxPerWindow - 1)
    <3> SUFFICES ASSUME NEW i \in S, i >= m + 2 * MaxPerWindow PROVE FALSE
      BY <1>0, <2>1
    <3>1. /\ m \in 1 .. n /\ i \in 1 .. n /\ times[m] >= t /\ times[i] <= t + Window - 1
          /\ times[m] \in Nat /\ times[i] \in Nat
      BY <1>0
    <3>2. PICK k \in 1 .. i : k = m + 2 * MaxPerWindow
      BY <1>0, <3>1
    <3>3. k \in 1 .. n /\ times[k] \in Nat
      BY <1>0, <3>1, SMTT(30)
    <3>6. times[k] <= times[i]
      BY <3>1 DEF Ordered
    <3>4. times[m] + Window <= times[k]
      BY <1>0, <3>1, <3>2, <3>3, SMTT(30) DEF Apart
    <3>5. Window \in Nat
      BY <1>0
    <3> HIDE DEF S, n
    <3> QED BY <3>1, <3>3, <3>4, <3>5, <3>6, BeyondTheSpan
  <2>3. m \in Nat /\ m + 2 * MaxPerWindow - 1 \in Int /\ m \in Int
    BY <1>0
  <2>4. /\ IsFiniteSet(m .. (m + 2 * MaxPerWindow - 1))
        /\ Cardinality(m .. (m + 2 * MaxPerWindow - 1)) = 2 * MaxPerWindow
    <3>1. PICK last \in Int : last = m + 2 * MaxPerWindow - 1
      BY <2>3
    <3>2. IsFiniteSet(m .. last) /\ Cardinality(m .. last) = IF m > last THEN 0 ELSE last - m + 1
      BY <2>3, FS_Interval
    <3>3. ~ (m > last) /\ last - m + 1 = 2 * MaxPerWindow
      BY <1>0, <2>3, <3>1
    <3> QED BY <3>1, <3>2, <3>3
  <2>5. Cardinality(S) <= Cardinality(m .. (m + 2 * MaxPerWindow - 1))
    BY <2>2, <2>4, FS_Subset
  <2> QED BY <2>4, <2>5
<1> QED BY <1>1, <1>2

\* The limiters of ratelimit.rs, for any number of sources, parallel logins and any
\* limits: a source is never charged with more failures than trip the lockout plus
\* those already being verified, and pruning never lets more than two windows'
\* worth of requests through in the span of one.
THEOREM LimitersHold == LimitSpec => []LimitsHold
<1>1. LimitInit => LoginInv /\ WindowInv
  BY LoginInitInv, WindowInitInv
<1>2. LoginInv /\ WindowInv /\ [LoginNext \/ WindowNext]_limitVars => (LoginInv /\ WindowInv)'
  BY LoginNextInv, WindowNextInv
<1>3. LoginInv /\ WindowInv => LimitsHold
  <2> SUFFICES ASSUME LoginInv, WindowInv, NEW s \in Sources
               PROVE  /\ AttemptOf(s).failures < MaxFailures + Cardinality(Attempts)
                      /\ \A t \in 0 .. LastInstant :
                           Cardinality({i \in DOMAIN accepted[s] : accepted[s][i] \in t .. (t + Window - 1)})
                               <= 2 * MaxPerWindow
    BY Zenon DEF LimitsHold
  <2>1. AttemptOf(s).failures \in Nat /\ Cardinality(VerifyingOf(s)) \in Nat /\ MaxFailures \in Nat
        /\ Cardinality(Attempts) \in Nat
    <3>1. AttemptOf(s).failures \in Nat
      BY AttemptType DEF LoginInv, Attempt
    <3>2. Cardinality(VerifyingOf(s)) \in Nat /\ Cardinality(Attempts) \in Nat
      BY VerifyingCounted DEF Counted
    <3> QED BY <3>1, <3>2, LimiterAssumption
  <2>2. AttemptOf(s).failures < MaxFailures + Cardinality(Attempts)
    BY <2>1 DEF LoginInv, Charged
  <2>3. accepted[s] \in Seq(Nat) /\ instant \in Nat /\ Ordered(accepted[s], instant) /\ Apart(accepted[s])
    BY DEF WindowInv, WindowType, SourceSpaced
  <2>4. ASSUME NEW t \in 0 .. LastInstant
        PROVE  Cardinality({i \in DOMAIN accepted[s] : accepted[s][i] \in t .. (t + Window - 1)})
                 <= 2 * MaxPerWindow
    <3>1. t \in Nat
      BY LimiterAssumption
    <3> QED BY <2>3, <3>1, FewInASpan
  <2> QED BY <2>2, <2>4, Zenon
<1> QED BY <1>1, <1>2, <1>3, PTL DEF LimitSpec

-----------------------------------------------------------------------------
(* The proxy's covers.                                                       *)

\* What Navidrome may show under an id, and under any.
ShownFor(id) == {Default, Art[id]}
Pictures == {Default} \cup {Art[id] : id \in DOMAIN Art}
Bodies == {Absent, Svg, Missing} \cup Pictures \cup Nat

Judged == {"put", "classify", "classify_hit", "count", "count_hit"}
Visiting == [at : {"look", "browse", "fetch", "answered"} \cup Judged, key : Covers \cup Lists,
             hidden : SUBSET Pictures, body : Bodies]
Writing == [do : {"put"}, key : Covers \cup Lists, body : Bodies, n : Int]
Sweeping == [do : {"sweep"}, body : Pictures]
Rechecking == [do : {"refetch", "compare"}, key : Covers, body : Bodies]

CacheKeys == Covers \cup Lists

\* Whatever is kept or about to be written under a key is what was shown there.
Suits(k, body) == IF k \in Covers THEN body \in {Svg} \cup ShownFor(IdOf[k]) ELSE body \in Nat

TaskOK(t) ==
    /\ t \in Writing \cup Sweeping \cup {ClearTask} \cup Rechecking
    /\ t.do = "put" => Suits(t.key, t.body)
    /\ t.do = "compare" => t.body \in ShownFor(IdOf[t.key])

ProxyType ==
    /\ l2 \in [CacheKeys -> [body : Bodies, fresh : BOOLEAN]]
    /\ visit \in [Visitors -> {NoVisit} \cup Visiting]
    /\ placeholders \subseteq Pictures /\ cooling \subseteq Covers /\ catalog \in Nat
    /\ proxyLeft \in [keys : SUBSET CacheKeys, visits : Int, turns : Int]

RowsSuit == \A k \in CacheKeys : l2[k].body = Absent \/ Suits(k, l2[k].body)
TasksSuit == \A t \in spawned : TaskOK(t)

\* What a request has at hand, and what it may show of it.
VisitOK(r, known) ==
    /\ r.hidden \subseteq known
    /\ r.at \in Judged => r.key \in Covers /\ r.body \in ShownFor(IdOf[r.key])
    /\ r.at = "fetch" => r.key \in Covers
    /\ r.at = "browse" => r.key \in Lists /\ r.body \in {Absent} \cup Nat
    /\ r.at \in {"count", "count_hit", "answered"} => r.body \notin r.hidden

VisitsSuit == \A w \in Visitors : visit[w] # NoVisit => VisitOK(visit[w], placeholders)

Albums(body) == {id \in DOMAIN Art \ TrackIds : body \in ShownFor(id)}
Remembered == \A b \in placeholders : Cardinality(Albums(b)) >= Threshold

ProxyInv == ProxyType /\ RowsSuit /\ TasksSuit /\ VisitsSuit /\ Remembered

\* Pictures are neither the placeholder nor browse answers.
LEMMA PicturesApart ==
    /\ Svg \notin Pictures /\ Absent \notin Pictures /\ Pictures \cap Nat = {}
    /\ Pictures \subseteq Bodies /\ {Svg, Absent, Missing} \subseteq Bodies /\ Nat \subseteq Bodies
    /\ \A id \in DOMAIN Art : ShownFor(id) \subseteq Pictures
    /\ \A k \in Covers : IdOf[k] \in DOMAIN Art /\ ShownFor(IdOf[k]) \subseteq Pictures
    /\ \A id \in DOMAIN Art : Upstream(id) \in ShownFor(id)
    /\ \A k \in Covers : k \notin Lists
BY ProxyAssumption DEF Pictures, ShownFor, Bodies, Upstream

\* Enough other ids show the body: it is on the albums and artists of that many.
LEMMA DuplicatesAreStandIns ==
    ASSUME ProxyType, RowsSuit, NEW body \in Pictures, NEW id, Duplicate(body, id)
    PROVE  Cardinality(Albums(body)) >= Threshold
<1> DEFINE D == {IdOf[k] : k \in {k \in Covers : l2[k].body = body}} \ ({id} \cup TrackIds)
<1>1. D \subseteq Albums(body)
  <2> SUFFICES ASSUME NEW k \in Covers, l2[k].body = body, IdOf[k] \notin TrackIds
               PROVE  IdOf[k] \in Albums(body)
    OBVIOUS
  <2>1. k \in CacheKeys /\ body # Absent /\ body # Svg /\ IdOf[k] \in DOMAIN Art
    BY PicturesApart DEF CacheKeys
  <2>2. body \in ShownFor(IdOf[k])
    BY <2>1 DEF RowsSuit, Suits
  <2> QED BY <2>1, <2>2 DEF Albums
<1>2. IsFiniteSet(Albums(body))
  BY ProxyAssumption, FS_Subset DEF Albums
<1>3. Cardinality(D) <= Cardinality(Albums(body)) /\ Cardinality(D) \in Nat /\ Cardinality(Albums(body)) \in Nat
  BY <1>1, <1>2, FS_Subset, FS_CardinalityType
<1>4. Cardinality(D) >= Threshold
  BY DEF Duplicate
<1> QED BY <1>3, <1>4, ProxyAssumption

\* Background tasks.
LEMMA TasksOK ==
    ASSUME ProxyType
    PROVE  /\ \A k \in CacheKeys, body \in Bodies : Suits(k, body) => TaskOK(PutTask(k, body))
           /\ \A body \in Pictures : TaskOK(SweepTask(body))
           /\ TaskOK(ClearTask)
           /\ \A k \in Covers : TaskOK(RefetchTask(k))
<1>1. proxyLeft.visits \in Int
  BY DEF ProxyType
<1>2. \A k \in CacheKeys, body \in Bodies : Suits(k, body) => TaskOK(PutTask(k, body))
  BY <1>1 DEF TaskOK, PutTask, Writing, CacheKeys
<1>3. \A body \in Pictures : TaskOK(SweepTask(body))
  BY DEF TaskOK, SweepTask, Sweeping
<1>4. TaskOK(ClearTask)
  BY DEF TaskOK, ClearTask
<1>5. \A k \in Covers : TaskOK(RefetchTask(k))
  BY PicturesApart DEF TaskOK, RefetchTask, Rechecking
<1> QED BY <1>2, <1>3, <1>4, <1>5

\* A request moves on, the cache stays.
LEMMA VisitStep ==
    ASSUME ProxyInv, NEW w \in Visitors, NEW r \in Visiting, visit' = [visit EXCEPT ![w] = r],
           VisitOK(r, placeholders'), placeholders \subseteq placeholders', placeholders' \subseteq Pictures,
           Remembered', \A t \in spawned' : t \in spawned \/ TaskOK(t),
           cooling' \subseteq Covers, UNCHANGED <<l2, catalog>>,
           proxyLeft' \in [keys : SUBSET CacheKeys, visits : Int, turns : Int]
    PROVE  ProxyInv'
<1>1. ProxyType'
  BY DEF ProxyInv, ProxyType
<1>2. RowsSuit' /\ TasksSuit'
  BY DEF ProxyInv, RowsSuit, TasksSuit
<1>3. VisitsSuit'
  <2> SUFFICES ASSUME NEW u \in Visitors, visit'[u] # NoVisit
               PROVE  VisitOK(visit'[u], placeholders')
    BY DEF VisitsSuit
  <2>1. CASE u = w
    BY <2>1 DEF ProxyInv, ProxyType
  <2>2. CASE u # w
    BY <2>2 DEF ProxyInv, ProxyType, VisitsSuit, VisitOK
  <2> QED BY <2>1, <2>2
<1> QED BY <1>1, <1>2, <1>3 DEF ProxyInv

\* The two ways a request moves on.
LEMMA AnswersAs ==
    ASSUME ProxyType, NEW w \in Visitors, visit[w] \in Visiting, NEW body \in Bodies, Answers(w, body),
           visit[w].hidden \subseteq placeholders', body \notin visit[w].hidden
    PROVE  \E r \in Visiting : visit' = [visit EXCEPT ![w] = r] /\ VisitOK(r, placeholders')
<1> DEFINE r == [at |-> "answered", key |-> visit[w].key, hidden |-> visit[w].hidden, body |-> body]
<1>1. r \in Visiting
  BY DEF Visiting
<1>2. VisitOK(r, placeholders')
  BY DEF VisitOK, Judged
<1>3. visit' = [visit EXCEPT ![w] = r]
  BY DEF Answers
<1> QED BY <1>1, <1>2, <1>3

LEMMA ContinuesAs ==
    ASSUME ProxyType, NEW w \in Visitors, visit[w] \in Visiting, NEW to, NEW body \in Bodies,
           to \in {"browse", "fetch"} \cup Judged, Continues(w, to, body)
    PROVE  \E r \in Visiting : /\ visit' = [visit EXCEPT ![w] = r]
                               /\ r.at = to /\ r.body = body /\ r.key = visit[w].key /\ r.hidden = visit[w].hidden
<1> DEFINE r == [at |-> to, key |-> visit[w].key, hidden |-> visit[w].hidden, body |-> body]
<1>1. r \in Visiting
  BY DEF Visiting
<1> DEFINE old == visit[w]
           half == [old EXCEPT !.at = to]
<1>a. half = [at |-> to, key |-> old.key, hidden |-> old.hidden, body |-> old.body]
  BY DEF Visiting
<1>b. r = [at |-> to, key |-> old.key, hidden |-> old.hidden, body |-> body]
  OBVIOUS
<1> HIDE DEF half, r
<1>2. [half EXCEPT !.body = body] = r
  BY <1>a, <1>b
<1> USE DEF half
<1> DEFINE mid == [visit EXCEPT ![w] = half]
<1>3. visit' = [mid EXCEPT ![w] = [mid[w] EXCEPT !.body = body]]
  BY DEF Continues
<1>4. /\ DOMAIN visit = Visitors /\ DOMAIN mid = Visitors /\ mid[w] = half
      /\ \A u \in Visitors : u # w => mid[u] = visit[u]
  BY DEF ProxyType
<1> HIDE DEF mid, half
<1>5. visit' = [visit EXCEPT ![w] = r]
  BY <1>2, <1>3, <1>4
<1>6. r.at = to /\ r.body = body /\ r.key = visit[w].key /\ r.hidden = visit[w].hidden
  BY DEF r
<1> QED BY <1>1, <1>5, <1>6

\* A request that is under way.
LEMMA UnderWay ==
    ASSUME ProxyInv, NEW w \in Visitors, visit[w].at # "idle"
    PROVE  /\ visit[w] \in Visiting /\ VisitOK(visit[w], placeholders) /\ visit[w].hidden \subseteq placeholders
           /\ visit[w].key \in CacheKeys /\ visit[w].body \in Bodies
<1>1. visit[w] # NoVisit
  BY DEF NoVisit
<1>2. visit[w] \in Visiting /\ VisitOK(visit[w], placeholders)
  BY <1>1 DEF ProxyInv, ProxyType, VisitsSuit
<1> QED BY <1>2 DEF Visiting, VisitOK, CacheKeys

\* The placeholder is served and written.
LEMMA ServesSvgStep ==
    ASSUME ProxyInv, NEW w \in Visitors, visit[w].at # "idle", visit[w].key \in Covers,
           NEW more, ServesSvg(w, more), \A t \in more : TaskOK(t),
           placeholders \subseteq placeholders', placeholders' \subseteq Pictures, Remembered',
           cooling' \subseteq Covers, UNCHANGED <<l2, catalog, proxyLeft>>
    PROVE  ProxyInv'
<1>1. Svg \in Bodies /\ Svg \notin visit[w].hidden
  BY UnderWay, PicturesApart DEF ProxyInv, ProxyType
<1>2. PICK r \in Visiting : visit' = [visit EXCEPT ![w] = r] /\ VisitOK(r, placeholders')
  <2>1. ProxyType /\ visit[w] \in Visiting /\ visit[w].hidden \subseteq placeholders' /\ Answers(w, Svg)
    BY UnderWay DEF ServesSvg, ProxyInv
  <2> QED BY <1>1, <2>1, AnswersAs
<1>3. TaskOK(PutTask(visit[w].key, Svg))
  BY <1>1, TasksOK DEF CacheKeys, Suits, ProxyInv
<1>4. \A t \in spawned' : t \in spawned \/ TaskOK(t)
  BY <1>3 DEF ServesSvg
<1>5. proxyLeft' \in [keys : SUBSET CacheKeys, visits : Int, turns : Int]
  BY DEF ProxyInv, ProxyType
<1> QED BY <1>2, <1>4, <1>5, VisitStep

\* Something else is served.
LEMMA AnswersStep ==
    ASSUME ProxyInv, NEW w \in Visitors, visit[w].at # "idle", NEW body \in Bodies, Answers(w, body),
           body \notin visit[w].hidden, \A t \in spawned' : t \in spawned \/ TaskOK(t),
           UNCHANGED <<l2, placeholders, cooling, catalog>>,
           proxyLeft' \in [keys : SUBSET CacheKeys, visits : Int, turns : Int]
    PROVE  ProxyInv'
<1>1. PICK r \in Visiting : visit' = [visit EXCEPT ![w] = r] /\ VisitOK(r, placeholders')
  <2>1. ProxyType /\ visit[w] \in Visiting /\ visit[w].hidden \subseteq placeholders'
    BY UnderWay DEF ProxyInv
  <2> QED BY <2>1, AnswersAs
<1>2. placeholders' \subseteq Pictures /\ Remembered' /\ cooling' \subseteq Covers
  BY DEF ProxyInv, ProxyType, Remembered
<1> QED BY <1>1, <1>2, VisitStep

\* The request goes on with a body at hand.
LEMMA ContinuesStep ==
    ASSUME ProxyInv, NEW w \in Visitors, visit[w].at # "idle", NEW to, NEW body \in Bodies,
           to \in {"browse", "fetch"} \cup Judged, Continues(w, to, body),
           to \in Judged => visit[w].key \in Covers /\ body \in ShownFor(IdOf[visit[w].key]),
           to = "fetch" => visit[w].key \in Covers,
           to = "browse" => visit[w].key \in Lists /\ body \in {Absent} \cup Nat,
           to \in {"count", "count_hit"} => body \notin visit[w].hidden,
           UNCHANGED <<l2, spawned, placeholders, cooling, catalog, proxyLeft>>
    PROVE  ProxyInv'
<1>1. ProxyType /\ visit[w] \in Visiting /\ visit[w].hidden \subseteq placeholders'
  BY UnderWay DEF ProxyInv
<1>2. PICK r \in Visiting : /\ visit' = [visit EXCEPT ![w] = r]
                            /\ r.at = to /\ r.body = body /\ r.key = visit[w].key /\ r.hidden = visit[w].hidden
  BY <1>1, ContinuesAs
<1>3. VisitOK(r, placeholders')
  BY <1>1, <1>2 DEF VisitOK, Judged
<1>4. placeholders' \subseteq Pictures /\ cooling' \subseteq Covers
  BY DEF ProxyInv, ProxyType
<1>6. Remembered'
  BY DEF ProxyInv, Remembered
<1>5. proxyLeft' \in [keys : SUBSET CacheKeys, visits : Int, turns : Int]
  BY DEF ProxyInv, ProxyType
<1> QED BY <1>2, <1>3, <1>4, <1>5, <1>6, VisitStep

\* Spending keeps the bounds bounds.
LEMMA SpendsType ==
    ASSUME ProxyType, NEW b \in {"visits", "turns"}, Spends(b)
    PROVE  proxyLeft' \in [keys : SUBSET CacheKeys, visits : Int, turns : Int]
BY DEF ProxyType, Spends

\* Browse requests.
LEMMA BrowseSteps ==
    ASSUME ProxyInv, NEW w \in Visitors, BrowseLook(w) \/ BrowseFetch(w)
    PROVE  ProxyInv'
<1>1. visit[w].at # "idle" /\ proxyLeft' = proxyLeft /\ UNCHANGED <<l2, placeholders, cooling, catalog>>
  BY DEF BrowseLook, BrowseFetch
<1> DEFINE k == visit[w].key
<1>2. ProxyType /\ RowsSuit /\ k \in CacheKeys /\ visit[w].hidden \subseteq Pictures /\ catalog \in Nat
      /\ proxyLeft' \in [keys : SUBSET CacheKeys, visits : Int, turns : Int]
  BY <1>1, UnderWay DEF ProxyInv, ProxyType
<1>3. CASE BrowseLook(w)
  <2>1. k \in Lists /\ k \notin Covers /\ l2[k].body \in {Absent} \cup Nat /\ UNCHANGED spawned
    BY <1>2, <1>3, PicturesApart DEF BrowseLook, RowsSuit, Suits
  <2>2. l2[k].body \in Bodies /\ l2[k].body \notin visit[w].hidden
    BY <1>2, <2>1, PicturesApart
  <2>3. CASE Fresh(k)
    BY <1>1, <1>2, <1>3, <2>1, <2>2, <2>3, AnswersStep DEF BrowseLook
  <2>4. CASE ~Fresh(k)
    <3>1. Continues(w, "browse", l2[k].body)
      BY <1>3, <2>4 DEF BrowseLook
    <3>2. "browse" \notin Judged /\ UNCHANGED <<l2, spawned, placeholders, cooling, catalog, proxyLeft>>
      BY <1>1, <2>1 DEF Judged
    <3> QED BY <1>1, <2>1, <2>2, <3>1, <3>2, ContinuesStep
  <2> QED BY <2>3, <2>4
<1>4. CASE BrowseFetch(w)
  <2>1. k \in Lists /\ visit[w].body \in {Absent} \cup Nat
    BY <1>1, <1>4, UnderWay DEF BrowseFetch, VisitOK
  <2>2. CASE upstreamUp
    <3>1. TaskOK(PutTask(k, catalog))
      BY <1>2, <2>1, TasksOK, PicturesApart DEF Suits
    <3>2. \A t \in spawned' : t \in spawned \/ TaskOK(t)
      BY <1>4, <2>2, <3>1 DEF BrowseFetch
    <3>3. Answers(w, catalog) /\ catalog \in Bodies /\ catalog \notin visit[w].hidden
      BY <1>2, <1>4, <2>2, PicturesApart DEF BrowseFetch
    <3> QED BY <1>1, <1>2, <3>2, <3>3, AnswersStep
  <2>3. CASE ~upstreamUp
    <3>1. Answers(w, visit[w].body) /\ visit[w].body \in Bodies /\ visit[w].body \notin visit[w].hidden
      BY <1>2, <1>4, <2>1, <2>3, PicturesApart DEF BrowseFetch
    <3>2. UNCHANGED spawned
      BY <1>4, <2>3 DEF BrowseFetch
    <3> QED BY <1>1, <1>2, <3>1, <3>2, AnswersStep
  <2> QED BY <2>2, <2>3
<1> QED BY <1>3, <1>4

\* A cover is looked up.
LEMMA CoverLookStep == ASSUME ProxyInv, NEW w \in Visitors, CoverLook(w) PROVE ProxyInv'
<1> DEFINE k == visit[w].key
<1>1. visit[w].at # "idle" /\ k \in Covers /\ UNCHANGED <<l2, placeholders, catalog, proxyLeft>>
  BY DEF CoverLook
<1>2. ProxyType /\ RowsSuit /\ k \in CacheKeys /\ visit[w].hidden \subseteq Pictures
  BY <1>1, UnderWay DEF ProxyInv, ProxyType
<1>3. placeholders' = placeholders /\ placeholders' \subseteq Pictures /\ Remembered' /\ cooling \subseteq Covers
  <2>1. Remembered'
    BY <1>1 DEF ProxyInv, Remembered
  <2> QED BY <1>1, <1>2, <2>1 DEF ProxyType
<1>4. CASE Fresh(k) /\ l2[k].body = Svg
  <2>1. ServesSvg(w, Revalidation(k)) /\ cooling' = cooling \cup {k}
    BY <1>4 DEF CoverLook
  <2>2. \A t \in Revalidation(k) : TaskOK(t)
    BY <1>1, <1>2, TasksOK DEF Revalidation
  <2> QED BY <1>1, <1>3, <2>1, <2>2, ServesSvgStep
<1>5. CASE Fresh(k) /\ l2[k].body # Svg
  <2>1. Continues(w, "classify_hit", l2[k].body) /\ UNCHANGED <<spawned, cooling>>
    BY <1>5 DEF CoverLook
  <2>2. l2[k].body \in ShownFor(IdOf[k]) /\ l2[k].body \in Bodies
    BY <1>1, <1>2, <1>5, PicturesApart DEF Fresh, RowsSuit, Suits
  <2> QED BY <1>1, <2>1, <2>2, ContinuesStep DEF Judged
<1>6. CASE ~Fresh(k)
  <2>1. Continues(w, "fetch", Absent) /\ UNCHANGED <<spawned, cooling>>
    BY <1>6 DEF CoverLook
  <2>2. Absent \in Bodies
    BY PicturesApart
  <2> QED BY <1>1, <2>1, <2>2, ContinuesStep DEF Judged
<1> QED BY <1>4, <1>5, <1>6

\* A cover is fetched.
LEMMA CoverFetchStep == ASSUME ProxyInv, NEW w \in Visitors, CoverFetch(w) PROVE ProxyInv'
<1> DEFINE k == visit[w].key
           body == Upstream(IdOf[k])
<1>1. /\ visit[w].at = "fetch" /\ visit[w].at # "idle"
      /\ UNCHANGED <<l2, placeholders, cooling, catalog, proxyLeft>>
  BY DEF CoverFetch
<1>2. k \in Covers /\ visit[w].hidden \subseteq Pictures
  BY <1>1, UnderWay DEF ProxyInv, ProxyType, VisitOK
<1>3. body \in ShownFor(IdOf[k]) /\ body \in Bodies
  BY <1>2, PicturesApart
<1>4. CASE ~upstreamUp
  <2>1. Answers(w, Absent) /\ UNCHANGED spawned
    BY <1>4 DEF CoverFetch
  <2>2. Absent \in Bodies /\ Absent \notin visit[w].hidden
    BY <1>2, PicturesApart
  <2>3. proxyLeft' \in [keys : SUBSET CacheKeys, visits : Int, turns : Int]
    BY <1>1 DEF ProxyInv, ProxyType
  <2> QED BY <1>1, <2>1, <2>2, <2>3, AnswersStep
<1>5. CASE upstreamUp /\ (body = Missing \/ body \in placeholders)
  <2>1. ServesSvg(w, {})
    BY <1>5 DEF CoverFetch
  <2>2. placeholders' = placeholders /\ placeholders' \subseteq Pictures /\ cooling' \subseteq Covers
    BY <1>1 DEF ProxyInv, ProxyType
  <2>3. Remembered'
    BY <1>1 DEF ProxyInv, Remembered
  <2> QED BY <1>1, <1>2, <2>1, <2>2, <2>3, ServesSvgStep
<1>6. CASE upstreamUp /\ ~ (body = Missing \/ body \in placeholders)
  <2>1. Continues(w, "put", body) /\ UNCHANGED spawned
    BY <1>6 DEF CoverFetch
  <2>2. "put" \in Judged
    BY DEF Judged
  <2> HIDE DEF body
  <2> QED BY <1>1, <1>2, <1>3, <2>1, <2>2, ContinuesStep
<1> QED BY <1>4, <1>5, <1>6

\* The fetched cover is cached, or not.
LEMMA CoverPutStep == ASSUME ProxyInv, NEW w \in Visitors, CoverPut(w) PROVE ProxyInv'
<1> DEFINE k == visit[w].key
           body == visit[w].body
           r == [at |-> "classify", key |-> k, hidden |-> visit[w].hidden, body |-> body]
<1>1. visit[w].at = "put" /\ UNCHANGED <<spawned, placeholders, cooling, catalog>>
  BY DEF CoverPut
<1>2. /\ ProxyType /\ visit[w] \in Visiting /\ k \in Covers /\ k \in CacheKeys /\ body \in ShownFor(IdOf[k])
      /\ body \in Bodies /\ visit[w].hidden \subseteq placeholders
  BY <1>1, UnderWay DEF ProxyInv, VisitOK, Judged
<1>3. r \in Visiting /\ VisitOK(r, placeholders)
  BY <1>2 DEF Visiting, VisitOK, Judged
<1>4. [visit[w] EXCEPT !.at = "classify"] = r
  BY <1>2 DEF Visiting
<1> HIDE DEF r
<1>5. visit' = [visit EXCEPT ![w] = r]
  BY <1>4 DEF CoverPut
<1>6. Entry(body) \in [body : Bodies, fresh : BOOLEAN] /\ Entry(body).body = body
  BY <1>2 DEF Entry
<1>7. /\ l2' \in [CacheKeys -> [body : Bodies, fresh : BOOLEAN]]
      /\ \A j \in CacheKeys : l2'[j] = l2[j] \/ (j = k /\ l2'[j] = Entry(body))
  BY <1>2, <1>6 DEF CoverPut, ProxyType
<1>8. proxyLeft' \in [keys : SUBSET CacheKeys, visits : Int, turns : Int]
  BY <1>2, SpendsType DEF CoverPut, ProxyType
<1>9. ProxyType'
  BY <1>1, <1>3, <1>5, <1>7, <1>8 DEF ProxyInv, ProxyType
<1>10. RowsSuit'
  <2>1. Suits(k, body)
    BY <1>2 DEF Suits
  <2> QED BY <1>6, <1>7, <2>1 DEF ProxyInv, RowsSuit
<1>11. TasksSuit' /\ Remembered'
  BY <1>1 DEF ProxyInv, TasksSuit, Remembered
<1>12. VisitsSuit'
  <2> SUFFICES ASSUME NEW u \in Visitors, visit'[u] # NoVisit
               PROVE  VisitOK(visit'[u], placeholders')
    BY DEF VisitsSuit
  <2>1. CASE u = w
    BY <1>1, <1>2, <1>3, <1>5, <2>1 DEF ProxyType
  <2>2. CASE u # w
    BY <1>1, <1>2, <1>5, <2>2 DEF ProxyInv, ProxyType, VisitsSuit
  <2> QED BY <2>1, <2>2
<1> QED BY <1>9, <1>10, <1>11, <1>12 DEF ProxyInv

\* A stand-in at hand is hidden; on a hit it is rechecked.
LEMMA HidesStep ==
    ASSUME ProxyInv, NEW w \in Visitors, visit[w].at \in Judged, NEW more, HidesStandIn(w, more),
           \A t \in more : TaskOK(t), placeholders \subseteq placeholders', placeholders' \subseteq Pictures,
           Remembered', UNCHANGED <<l2, catalog, proxyLeft>>
    PROVE  ProxyInv'
<1> DEFINE k == visit[w].key
           all == more \cup IF OnHit(w) THEN Revalidation(k) ELSE {}
<1>1. visit[w].at # "idle"
  BY DEF Judged
<1>2. k \in Covers /\ ProxyType
  BY <1>1, UnderWay DEF VisitOK, ProxyInv
<1>3. \A t \in all : TaskOK(t)
  BY <1>2, TasksOK DEF Revalidation
<1>4. ServesSvg(w, all) /\ cooling' \subseteq Covers
  BY <1>2 DEF HidesStandIn, ProxyType
<1> HIDE DEF all
<1> QED BY <1>1, <1>2, <1>3, <1>4, ServesSvgStep

\* A body is judged.
LEMMA ClassifySteps ==
    ASSUME ProxyInv, NEW w \in Visitors, ClassifyKnown(w) \/ ClassifyCount(w) \/ DuplicatesUnknown(w)
    PROVE  ProxyInv'
<1> DEFINE k == visit[w].key
           body == visit[w].body
<1>1. visit[w].at \in Judged /\ visit[w].at # "idle" /\ UNCHANGED <<l2, catalog>>
  BY DEF ClassifyKnown, ClassifyCount, DuplicatesUnknown, Classifying, Counting, Judged
<1>2. /\ ProxyType /\ k \in Covers /\ body \in ShownFor(IdOf[k]) /\ body \in Bodies /\ body \in Pictures
      /\ visit[w].hidden \subseteq placeholders
  BY <1>1, UnderWay, PicturesApart DEF ProxyInv, VisitOK
<1>3. CASE ClassifyKnown(w)
  <2>1. UNCHANGED <<l2, placeholders, catalog, proxyLeft>>
    BY <1>3 DEF ClassifyKnown
  <2>2. CASE body \in placeholders
    <3>1. HidesStandIn(w, {})
      BY <1>3, <2>2 DEF ClassifyKnown
    <3>2. placeholders' = placeholders /\ placeholders' \subseteq Pictures
      BY <1>2, <2>1 DEF ProxyType
    <3>3. Remembered'
      BY <2>1 DEF ProxyInv, Remembered
    <3> QED BY <1>1, <2>1, <3>1, <3>2, <3>3, HidesStep
  <2>3. CASE body \notin placeholders
    <3> DEFINE to == IF OnHit(w) THEN "count_hit" ELSE "count"
    <3>1. Continues(w, to, body) /\ UNCHANGED <<spawned, cooling>>
      BY <1>3, <2>3 DEF ClassifyKnown
    <3>2. to \in Judged /\ to # "fetch" /\ to # "browse" /\ body \notin visit[w].hidden
      BY <1>2, <2>3 DEF Judged
    <3> HIDE DEF to
    <3> QED BY <1>1, <1>2, <2>1, <3>1, <3>2, ContinuesStep
  <2> QED BY <2>2, <2>3
<1>4. CASE ClassifyCount(w)
  <2>1. proxyLeft' = proxyLeft /\ visit[w].at \in {"count", "count_hit"}
    BY <1>4 DEF ClassifyCount, Counting
  <2>2. CASE Duplicate(body, IdOf[k])
    <3>1. HidesStandIn(w, {SweepTask(body)}) /\ placeholders' = placeholders \cup {body}
      BY <1>4, <2>2 DEF ClassifyCount
    <3>2. placeholders' \subseteq Pictures
      BY <1>2, <3>1 DEF ProxyType
    <3>3. Cardinality(Albums(body)) >= Threshold
      BY <1>2, <2>2, DuplicatesAreStandIns DEF ProxyInv
    <3>4. Remembered'
      BY <3>1, <3>3 DEF ProxyInv, Remembered
    <3>5. \A t \in {SweepTask(body)} : TaskOK(t)
      BY <1>2, TasksOK
    <3> QED BY <1>1, <2>1, <3>1, <3>2, <3>4, <3>5, HidesStep
  <2>3. CASE ~Duplicate(body, IdOf[k])
    <3>1. Answers(w, body) /\ UNCHANGED <<spawned, placeholders, cooling>>
      BY <1>4, <2>3 DEF ClassifyCount
    <3>2. body \notin visit[w].hidden
      BY <1>1, <2>1, UnderWay DEF VisitOK
    <3>3. proxyLeft' \in [keys : SUBSET CacheKeys, visits : Int, turns : Int]
      BY <1>2, <2>1 DEF ProxyType
    <3> QED BY <1>1, <1>2, <3>1, <3>2, <3>3, AnswersStep
  <2> QED BY <2>2, <2>3
<1>5. CASE DuplicatesUnknown(w)
  <2>1. /\ visit[w].at \in {"count", "count_hit"} /\ Answers(w, body)
        /\ UNCHANGED <<spawned, placeholders, cooling>>
    BY <1>5 DEF DuplicatesUnknown, Counting
  <2>2. body \notin visit[w].hidden
    BY <1>1, <2>1, UnderWay DEF VisitOK
  <2>3. proxyLeft' \in [keys : SUBSET CacheKeys, visits : Int, turns : Int]
    BY <1>2, <1>5, SpendsType DEF DuplicatesUnknown
  <2> QED BY <1>1, <1>2, <2>1, <2>2, <2>3, AnswersStep
<1> QED BY <1>3, <1>4, <1>5

\* What is not a request moves: the requests keep what they have at hand.
LEMMA BackgroundStep ==
    ASSUME ProxyInv, l2' \in [CacheKeys -> [body : Bodies, fresh : BOOLEAN]], RowsSuit', TasksSuit',
           placeholders \subseteq placeholders', placeholders' \subseteq Pictures, Remembered',
           cooling' \subseteq Covers, catalog' \in Nat, UNCHANGED visit,
           proxyLeft' \in [keys : SUBSET CacheKeys, visits : Int, turns : Int]
    PROVE  ProxyInv'
<1>1. ProxyType'
  BY DEF ProxyInv, ProxyType
<1>2. VisitsSuit'
  <2> SUFFICES ASSUME NEW u \in Visitors, visit'[u] # NoVisit
               PROVE  VisitOK(visit'[u], placeholders')
    BY DEF VisitsSuit
  <2> QED BY DEF ProxyInv, VisitsSuit, VisitOK
<1> QED BY <1>1, <1>2 DEF ProxyInv

\* A background write lands, or fails.
LEMMA WritesLand ==
    ASSUME ProxyInv, NEW t \in spawned, Lands(t) \/ WriteFails(t)
    PROVE  ProxyInv'
<1>1. /\ ProxyType /\ RowsSuit /\ TaskOK(t) /\ spawned' = spawned \ {t}
      /\ UNCHANGED <<visit, placeholders, cooling, catalog>>
  BY DEF Lands, WriteFails, ProxyInv, TasksSuit
<1>2. proxyLeft' \in [keys : SUBSET CacheKeys, visits : Int, turns : Int]
  BY <1>1, SpendsType DEF Lands, WriteFails, ProxyType
<1>3. /\ NoEntryRow \in [body : Bodies, fresh : BOOLEAN] /\ NoEntryRow.body = Absent
      /\ \A body \in Bodies : Entry(body) \in [body : Bodies, fresh : BOOLEAN] /\ Entry(body).body = body
  BY PicturesApart DEF NoEntryRow, Entry
<1>4. /\ l2' \in [CacheKeys -> [body : Bodies, fresh : BOOLEAN]]
      /\ \A j \in CacheKeys : \/ l2'[j] = l2[j]
                              \/ l2'[j] = NoEntryRow
                              \/ t.do = "put" /\ j = t.key /\ l2'[j] = Entry(t.body) /\ t.body \in Bodies
  <2>1. CASE t.do = "put" /\ l2' = [l2 EXCEPT ![t.key] = Entry(t.body)]
    <3>1. t \in Writing
      BY <1>1, <2>1 DEF TaskOK, Sweeping, ClearTask, Rechecking
    <3>2. t.key \in CacheKeys /\ t.body \in Bodies
      BY <3>1 DEF Writing, CacheKeys
    <3>3. Entry(t.body) \in [body : Bodies, fresh : BOOLEAN]
      BY <1>3, <3>2
    <3>4. l2 \in [CacheKeys -> [body : Bodies, fresh : BOOLEAN]]
      BY <1>1 DEF ProxyType
    <3> QED BY <2>1, <3>2, <3>3, <3>4
  <2>2. CASE l2' = [j \in DOMAIN l2 |-> IF l2[j].body = t.body THEN NoEntryRow ELSE l2[j]]
    BY <1>1, <1>3, <2>2 DEF ProxyType
  <2>3. CASE l2' = [j \in DOMAIN l2 |-> IF j \in Covers THEN NoEntryRow ELSE l2[j]]
    BY <1>1, <1>3, <2>3 DEF ProxyType
  <2>4. CASE l2' = l2
    BY <1>1, <2>4 DEF ProxyType
  <2> QED BY <2>1, <2>2, <2>3, <2>4 DEF Lands, WriteFails
<1>5. RowsSuit'
  BY <1>1, <1>3, <1>4 DEF RowsSuit, TaskOK
<1>6. TasksSuit' /\ Remembered' /\ placeholders' \subseteq Pictures /\ cooling' \subseteq Covers /\ catalog' \in Nat
  <2>1. TasksSuit'
    BY <1>1 DEF ProxyInv, TasksSuit
  <2>2. Remembered'
    BY <1>1 DEF ProxyInv, Remembered
  <2> QED BY <1>1, <2>1, <2>2 DEF ProxyType
<1> QED BY <1>1, <1>2, <1>4, <1>5, <1>6, BackgroundStep

\* A placeholder is looked up again.
LEMMA RevalidationSteps ==
    ASSUME ProxyInv, NEW t \in spawned, Refetches(t) \/ Compares(t)
    PROVE  ProxyInv'
<1>1. ProxyType /\ RowsSuit /\ TaskOK(t) /\ UNCHANGED <<l2, visit, cooling, catalog, proxyLeft>>
  BY DEF Refetches, Compares, ProxyInv, TasksSuit
<1>2. t \in Rechecking /\ t.key \in Covers /\ t.key \in CacheKeys
  <2>1. t \in Rechecking
    BY <1>1 DEF Refetches, Compares, TaskOK, Writing, Sweeping, ClearTask
  <2> QED BY <2>1 DEF Rechecking, CacheKeys
<1>3. TasksSuit' /\ placeholders \subseteq placeholders' /\ placeholders' \subseteq Pictures /\ Remembered'
  <2>1. CASE Refetches(t)
    <3> DEFINE body == Upstream(IdOf[t.key])
               next == [t EXCEPT !.do = "compare", !.body = body]
    <3>1. body \in ShownFor(IdOf[t.key]) /\ body \in Bodies
      BY <1>2, PicturesApart
    <3> HIDE DEF body
    <3>2. next \in Rechecking /\ next.do = "compare" /\ next.key = t.key /\ next.body = body
      BY <1>2, <3>1 DEF Rechecking
    <3>3. spawned' \subseteq spawned \cup {next} /\ placeholders' = placeholders
      BY <2>1 DEF Refetches, body
    <3> HIDE DEF next
    <3>4. TaskOK(next)
      BY <3>1, <3>2 DEF TaskOK
    <3>5. TasksSuit'
      BY <3>3, <3>4 DEF ProxyInv, TasksSuit
    <3>6. Remembered'
      BY <3>3 DEF ProxyInv, Remembered
    <3> QED BY <1>1, <3>3, <3>5, <3>6 DEF ProxyType
  <2>2. CASE Compares(t)
    <3>1. t.body \in ShownFor(IdOf[t.key]) /\ t.body \in Bodies /\ t.body \in Pictures
      BY <1>1, <1>2, <2>2, PicturesApart DEF Compares, TaskOK
    <3>2. CASE /\ Duplicate(t.body, IdOf[t.key])
               /\ placeholders' = placeholders \cup {t.body} /\ spawned' = spawned \ {t}
      <4>1. placeholders' = placeholders \cup {t.body} /\ spawned' = spawned \ {t}
        BY <3>2
      <4>2. Cardinality(Albums(t.body)) >= Threshold
        BY <1>1, <3>1, <3>2, DuplicatesAreStandIns
      <4>3. Remembered'
        BY <4>1, <4>2 DEF ProxyInv, Remembered
      <4>4. TasksSuit'
        BY <4>1 DEF ProxyInv, TasksSuit
      <4> QED BY <1>1, <3>1, <4>1, <4>3, <4>4 DEF ProxyType
    <3>3. CASE spawned' = (spawned \ {t}) \cup {PutTask(t.key, t.body)} /\ UNCHANGED placeholders
      <4>1. placeholders' = placeholders /\ spawned' = (spawned \ {t}) \cup {PutTask(t.key, t.body)}
        BY <3>3
      <4>2. TaskOK(PutTask(t.key, t.body))
        BY <1>1, <1>2, <3>1, TasksOK DEF Suits
      <4>3. Remembered'
        BY <4>1 DEF ProxyInv, Remembered
      <4>4. TasksSuit'
        BY <4>1, <4>2 DEF ProxyInv, TasksSuit
      <4> QED BY <1>1, <4>1, <4>3, <4>4 DEF ProxyType
    <3> QED BY <2>2, <3>2, <3>3 DEF Compares
  <2> QED BY <2>1, <2>2
<1>4. RowsSuit'
  BY <1>1 DEF RowsSuit
<1>5. /\ l2' \in [CacheKeys -> [body : Bodies, fresh : BOOLEAN]] /\ cooling' \subseteq Covers /\ catalog' \in Nat
      /\ proxyLeft' \in [keys : SUBSET CacheKeys, visits : Int, turns : Int] /\ visit' = visit
  BY <1>1 DEF ProxyType
<1> QED BY <1>3, <1>4, <1>5, BackgroundStep

\* A request comes.
LEMMA VisitsStep == ASSUME ProxyInv, NEW w \in Visitors, NEW k \in proxyLeft.keys, Visits(w, k) PROVE ProxyInv'
<1> DEFINE r == [at |-> "look", key |-> k, hidden |-> placeholders, body |-> Absent]
<1>1. k \in CacheKeys /\ placeholders \subseteq Pictures /\ proxyLeft' \in [keys : SUBSET CacheKeys, visits : Int, turns : Int]
  BY SpendsType DEF ProxyInv, ProxyType, Visits
<1>2. r \in Visiting
  BY <1>1, PicturesApart DEF Visiting, CacheKeys
<1>3. VisitOK(r, placeholders)
  BY DEF VisitOK, Judged
<1>4. /\ visit' = [visit EXCEPT ![w] = r] /\ UNCHANGED <<l2, spawned, placeholders, cooling, catalog>>
  BY DEF Visits
<1> HIDE DEF r
<1>5. Remembered' /\ cooling' \subseteq Covers
  BY <1>4 DEF ProxyInv, ProxyType, Remembered
<1> QED BY <1>1, <1>2, <1>3, <1>4, <1>5, VisitStep

\* The rows change, and neither a request nor a task does.
LEMMA RowStep ==
    ASSUME ProxyInv, UNCHANGED <<visit, spawned, placeholders>>, cooling' \subseteq Covers, catalog' \in Nat,
           l2' \in [CacheKeys -> [body : Bodies, fresh : BOOLEAN]],
           \A j \in CacheKeys : l2'[j].body \in {l2[j].body, Absent},
           proxyLeft' \in [keys : SUBSET CacheKeys, visits : Int, turns : Int]
    PROVE  ProxyInv'
<1>1. RowsSuit'
  BY DEF ProxyInv, RowsSuit
<1>2. TasksSuit'
  BY DEF ProxyInv, TasksSuit
<1>3. Remembered'
  BY DEF ProxyInv, Remembered
<1>4. placeholders' = placeholders /\ placeholders' \subseteq Pictures
  BY DEF ProxyInv, ProxyType
<1> QED BY <1>1, <1>2, <1>3, <1>4, BackgroundStep

\* Time, the operator's browse lists, Navidrome.
LEMMA WorldSteps ==
    ASSUME ProxyInv,
           \/ \E k \in CacheKeys : Expires(k) \/ CoolsDown(k)
           \/ \E id \in DOMAIN Art : Uploads(id)
           \/ InvalidateCache \/ NavidromeTurns
    PROVE  ProxyInv'
<1>1. ProxyType /\ UNCHANGED <<visit, spawned, placeholders>>
  BY DEF ProxyInv, Expires, CoolsDown, Uploads, InvalidateCache, NavidromeTurns
<1>2. proxyLeft' \in [keys : SUBSET CacheKeys, visits : Int, turns : Int]
  <2>1. proxyLeft' = proxyLeft \/ Spends("turns")
    BY DEF Expires, CoolsDown, Uploads, InvalidateCache, NavidromeTurns
  <2>2. proxyLeft \in [keys : SUBSET CacheKeys, visits : Int, turns : Int]
    BY <1>1 DEF ProxyType
  <2> QED BY <1>1, <2>1, <2>2, SpendsType
<1>3. cooling' \subseteq Covers /\ catalog' \in Nat
  BY <1>1 DEF ProxyType, Expires, CoolsDown, Uploads, InvalidateCache, NavidromeTurns
<1>4. NoEntryRow \in [body : Bodies, fresh : BOOLEAN] /\ NoEntryRow.body = Absent
  BY PicturesApart DEF NoEntryRow
<1>5. l2 \in [CacheKeys -> [body : Bodies, fresh : BOOLEAN]]
  BY <1>1 DEF ProxyType
<1>6. /\ l2' \in [CacheKeys -> [body : Bodies, fresh : BOOLEAN]]
      /\ \A j \in CacheKeys : l2'[j].body \in {l2[j].body, Absent}
  <2>1. CASE l2' = l2
    BY <1>5, <2>1
  <2>2. CASE \E k \in CacheKeys : Expires(k)
    <3>1. PICK k \in CacheKeys : l2' = [l2 EXCEPT ![k] = [l2[k] EXCEPT !.fresh = FALSE]]
      BY <2>2 DEF Expires
    <3> DEFINE aged == [l2[k] EXCEPT !.fresh = FALSE]
    <3>2. aged \in [body : Bodies, fresh : BOOLEAN] /\ aged.body = l2[k].body
      BY <1>5
    <3> HIDE DEF aged
    <3> QED BY <1>5, <3>1, <3>2 DEF aged
  <2>3. CASE InvalidateCache
    BY <1>4, <1>5, <2>3 DEF InvalidateCache
  <2> QED BY <2>1, <2>2, <2>3 DEF CoolsDown, Uploads, NavidromeTurns
<1> QED BY <1>1, <1>2, <1>3, <1>6, RowStep

\* What was known of stand-ins is forgotten, by the operator or with the process.
LEMMA ForgetSteps == ASSUME ProxyInv, InvalidateCovers \/ ProxyRestart PROVE ProxyInv'
<1>1. ProxyType /\ UNCHANGED <<l2, catalog>> /\ placeholders' = {} /\ cooling' \subseteq cooling /\ Spends("turns")
  BY DEF ProxyInv, InvalidateCovers, ProxyRestart
<1>2. proxyLeft' \in [keys : SUBSET CacheKeys, visits : Int, turns : Int]
  BY <1>1, SpendsType
<1>3. /\ visit' \in [Visitors -> {NoVisit} \cup Visiting]
      /\ \A w \in Visitors : visit'[w] # NoVisit => VisitOK(visit'[w], {})
  <2>1. CASE ProxyRestart
    BY <2>1 DEF ProxyRestart
  <2>2. CASE InvalidateCovers
    <3>1. visit' = [w \in Visitors |-> IF visit[w] = NoVisit THEN NoVisit ELSE [visit[w] EXCEPT !.hidden = {}]]
      BY <2>2 DEF InvalidateCovers
    <3>2. ASSUME NEW w \in Visitors, visit[w] # NoVisit
          PROVE  visit'[w] \in Visiting /\ VisitOK(visit'[w], {})
      <4> DEFINE r == [visit[w] EXCEPT !.hidden = {}]
      <4>1. visit'[w] = r
        BY <3>1, <3>2
      <4>2. visit[w] \in Visiting /\ VisitOK(visit[w], placeholders)
        BY <3>2 DEF ProxyInv, ProxyType, VisitsSuit
      <4>3. r \in Visiting /\ r.at = visit[w].at /\ r.key = visit[w].key /\ r.body = visit[w].body /\ r.hidden = {}
        BY <4>2 DEF Visiting
      <4> HIDE DEF r
      <4>4. VisitOK(r, {})
        BY <4>2, <4>3 DEF VisitOK
      <4> QED BY <4>1, <4>3, <4>4
    <3> QED BY <3>1, <3>2
  <2> QED BY <2>1, <2>2
<1>4. ProxyType'
  BY <1>1, <1>2, <1>3 DEF ProxyType
<1>5. RowsSuit' /\ Remembered' /\ VisitsSuit'
  BY <1>1, <1>3 DEF ProxyInv, RowsSuit, Remembered, VisitsSuit
<1>6. TasksSuit'
  <2>1. TaskOK(ClearTask)
    BY <1>1, TasksOK
  <2>2. spawned' \subseteq spawned \cup {ClearTask}
    BY DEF InvalidateCovers, ProxyRestart
  <2> QED BY <2>1, <2>2 DEF ProxyInv, TasksSuit
<1> QED BY <1>4, <1>5, <1>6 DEF ProxyInv

LEMMA ProxyNextInv == ProxyInv /\ [ProxyNext]_proxyVars => ProxyInv'
<1> SUFFICES ASSUME ProxyInv, [ProxyNext]_proxyVars PROVE ProxyInv'
  OBVIOUS
<1>1. CASE UNCHANGED proxyVars
  <2>1. cooling' \subseteq Covers /\ catalog' \in Nat /\ l2' \in [CacheKeys -> [body : Bodies, fresh : BOOLEAN]]
        /\ proxyLeft' \in [keys : SUBSET CacheKeys, visits : Int, turns : Int]
    BY <1>1 DEF proxyVars, ProxyInv, ProxyType
  <2>2. UNCHANGED <<visit, spawned, placeholders, l2>>
    BY <1>1 DEF proxyVars
  <2> QED BY <2>1, <2>2, RowStep
<1>2. ASSUME NEW w \in Visitors,
             \/ \E k \in proxyLeft.keys : Visits(w, k)
             \/ BrowseLook(w) \/ BrowseFetch(w) \/ CoverLook(w) \/ CoverFetch(w) \/ CoverPut(w)
             \/ ClassifyKnown(w) \/ ClassifyCount(w) \/ DuplicatesUnknown(w)
      PROVE  ProxyInv'
  BY <1>2, VisitsStep, BrowseSteps, CoverLookStep, CoverFetchStep, CoverPutStep, ClassifySteps
<1>3. ASSUME NEW t \in spawned, Lands(t) \/ WriteFails(t) \/ Refetches(t) \/ Compares(t)
      PROVE  ProxyInv'
  BY <1>3, WritesLand, RevalidationSteps
<1> QED BY <1>1, <1>2, <1>3, WorldSteps, ForgetSteps DEF ProxyNext, CacheKeys

\* proxy.rs: whatever races, fails, expires, is forgotten or restarted, art is
\* never mistaken for a stand-in, and a stand-in that was known when a request
\* came is never shown to it.  The process boots over covers an earlier one cached.
THEOREM StandInsStayHidden ==
    ASSUME NEW cached, NEW withArt, NEW bounds,
           DOMAIN cached \subseteq Covers, \A k \in DOMAIN cached : cached[k] \in {Svg} \cup ShownFor(IdOf[k]),
           bounds \in [keys : SUBSET CacheKeys, visits : Nat, turns : Nat]
    PROVE  ProxyInit(cached, withArt, bounds) /\ [][ProxyNext]_proxyVars => []StandInsHidden
<1>1. ASSUME ProxyInit(cached, withArt, bounds) PROVE ProxyInv
  <2>1. \A k \in DOMAIN cached : k \in CacheKeys /\ cached[k] \in Bodies /\ Suits(k, cached[k])
    BY PicturesApart DEF Suits, CacheKeys
  <2>2. NoEntryRow \in [body : Bodies, fresh : BOOLEAN] /\ NoEntryRow.body = Absent
    BY PicturesApart DEF NoEntryRow
  <2>3. \A k \in CacheKeys : l2[k] = IF k \in DOMAIN cached
                                     THEN [body |-> cached[k], fresh |-> TRUE] ELSE NoEntryRow
    BY <1>1 DEF ProxyInit, CacheKeys
  <2>4. l2 \in [CacheKeys -> [body : Bodies, fresh : BOOLEAN]] /\ RowsSuit
    <3>1. l2 = [k \in CacheKeys |-> l2[k]]
      BY <1>1 DEF ProxyInit, CacheKeys
    <3>2. ASSUME NEW k \in CacheKeys
          PROVE  l2[k] \in [body : Bodies, fresh : BOOLEAN] /\ (l2[k].body = Absent \/ Suits(k, l2[k].body))
      <4>1. CASE k \in DOMAIN cached
        <5>1. l2[k] = [body |-> cached[k], fresh |-> TRUE] /\ l2[k].body = cached[k]
          BY <2>3, <4>1
        <5>2. cached[k] \in Bodies /\ Suits(k, cached[k])
          BY <2>1, <4>1
        <5> QED BY <5>1, <5>2
      <4>2. CASE k \notin DOMAIN cached
        BY <2>2, <2>3, <4>2
      <4> QED BY <4>1, <4>2
    <3> QED BY <3>1, <3>2 DEF RowsSuit
  <2>5. ProxyType
    BY <1>1, <2>4 DEF ProxyInit, ProxyType
  <2> QED BY <1>1, <2>4, <2>5 DEF ProxyInit, ProxyInv, TasksSuit, VisitsSuit, Remembered
<1>2. ProxyInv => StandInsHidden
  <2> SUFFICES ASSUME ProxyInv PROVE StandInsHidden
    OBVIOUS
  <2>1. \A b \in placeholders :
          Cardinality({id \in DOMAIN Art \ TrackIds : b \in {Default, Art[id]}}) >= Threshold
    BY DEF ProxyInv, Remembered, Albums, ShownFor
  <2>2. \A w \in Visitors : visit[w].at = "answered" => visit[w].body \notin visit[w].hidden
    BY UnderWay DEF VisitOK
  <2> QED BY <2>1, <2>2 DEF StandInsHidden
<1> QED BY <1>1, <1>2, ProxyNextInv, PTL

-----------------------------------------------------------------------------
(* The audio cache.                                                          *)

Evicting == {"evict", "choose", "unlink", "delete"}
AudioTask == [at : {"idle", "put", "row", "count", "pin", "pinning"} \cup Evicting,
              key : Entries \cup {NoEntry}, pin : BOOLEAN, total : Nat, victim : Entries \cup {NoEntry}]

AudioType ==
    /\ entry \in [Entries -> {"absent", "regular", "pinned"}]
    /\ task \in [Tasks -> AudioTask] /\ regularBudget \in Nat /\ cut \in BOOLEAN

\* A task that will still bring the regular entries within their budget, or find
\* that they are.
MakesRoom(w, quota) == w.at \in Evicting \/ (w.at = "count" /\ w.total > quota)

AudioInv == AudioType /\ (cut \/ Fits \/ \E t \in Tasks : MakesRoom(task[t], regularBudget))

\* Fewer entries have no more bytes.
LEMMA SizeFacts ==
    ASSUME NEW T \in SUBSET Entries, NEW S \in SUBSET T
    PROVE  /\ SizeOf(S) \in Nat /\ SizeOf(T) \in Nat /\ SizeOf(S) <= SizeOf(T)
           /\ Cardinality(S) \in Nat /\ Cardinality(T) \in Nat /\ Cardinality(S) <= Cardinality(T)
<1> DEFINE Of(k) == {k} \X (1 .. Bytes[k])
           All(X) == UNION {Of(k) : k \in X}
<1>1. IsFiniteSet(T) /\ IsFiniteSet(S) /\ Cardinality(S) <= Cardinality(T)
  BY AudioAssumption, FS_Subset
<1>2. ASSUME NEW k \in T PROVE IsFiniteSet(Of(k))
  <2>1. Bytes[k] \in Int /\ 1 \in Int
    BY AudioAssumption
  <2>2. IsFiniteSet(1 .. Bytes[k])
    BY <2>1, FS_Interval
  <2>3. IsFiniteSet({k})
    BY FS_Singleton
  <2> QED BY <2>2, <2>3, FS_Product
<1>3. IsFiniteSet({Of(k) : k \in T})
  <2> HIDE DEF Of
  <2> DEFINE f == [k \in T |-> Of(k)]
  <2>1. f \in Surjection(T, {Of(k) : k \in T})
    BY DEF Surjection
  <2> QED BY <1>1, <2>1, FS_Surjection
<1>4. IsFiniteSet(All(T))
  <2>1. \A X \in {Of(k) : k \in T} : IsFiniteSet(X)
    BY <1>2
  <2> HIDE DEF Of
  <2> QED BY <1>3, <2>1, FS_UNION
<1>5. All(S) \subseteq All(T)
  <2> HIDE DEF Of
  <2> QED OBVIOUS
<1>6. IsFiniteSet(All(S)) /\ Cardinality(All(S)) <= Cardinality(All(T))
  BY <1>4, <1>5, FS_Subset
<1>7. SizeOf(S) = Cardinality(All(S)) /\ SizeOf(T) = Cardinality(All(T))
  BY DEF SizeOf
<1> HIDE DEF All
<1> QED BY <1>1, <1>4, <1>6, <1>7, FS_CardinalityType

Becomes(t, w) == task' = [task EXCEPT ![t] = w]

\* A step of one task keeps the promise if that task still makes room, if there is
\* room, or if it made none and took no room either; and if it is known to be cut short.
LEMMA RoomStep ==
    ASSUME AudioInv, NEW t \in Tasks, NEW w \in AudioTask, Becomes(t, w),
           entry' \in [Entries -> {"absent", "regular", "pinned"}],
           regularBudget' \in Nat, regularBudget' <= regularBudget, cut' \in BOOLEAN,
           \/ cut'
           \/ MakesRoom(w, regularBudget')
           \/ Fits'
           \/ /\ ~MakesRoom(task[t], regularBudget) /\ regularBudget' = regularBudget
              /\ Rows("regular")' \subseteq Rows("regular") /\ (cut => cut')
    PROVE  AudioInv'
<1>1. AudioType /\ AudioType'
  BY DEF AudioInv, AudioType, Becomes
<1>2. task'[t] = w /\ \A u \in Tasks \ {t} : task'[u] = task[u]
  BY <1>1 DEF AudioType, Becomes
<1>0. CASE cut'
  BY <1>0, <1>1 DEF AudioInv
<1>3. CASE MakesRoom(w, regularBudget')
  BY <1>1, <1>2, <1>3 DEF AudioInv
<1>4. CASE Fits'
  BY <1>1, <1>4 DEF AudioInv
<1>5. CASE /\ ~MakesRoom(task[t], regularBudget) /\ regularBudget' = regularBudget
           /\ Rows("regular")' \subseteq Rows("regular") /\ (cut => cut')
  <2>0. CASE cut
    BY <1>0, <1>5, <2>0
  <2>1. CASE Fits
    <3>1. Rows("regular") \subseteq Entries
      BY DEF Rows
    <3>2. /\ SizeOf(Rows("regular")') \in Nat /\ SizeOf(Rows("regular")) \in Nat
          /\ SizeOf(Rows("regular")') <= SizeOf(Rows("regular"))
          /\ Cardinality(Rows("regular")') \in Nat /\ Cardinality(Rows("regular")) \in Nat
          /\ Cardinality(Rows("regular")') <= Cardinality(Rows("regular"))
      BY <1>5, <3>1, SizeFacts
    <3>3. regularBudget \in Nat
      BY <1>1 DEF AudioType
    <3>4. SizeOf(Rows("regular"))' = SizeOf(Rows("regular")')
      BY DEF SizeOf
    <3>5. Fits'
      BY <1>5, <2>1, <3>2, <3>3, <3>4 DEF Fits
    <3> QED BY <1>1, <3>5 DEF AudioInv
  <2>2. CASE ~cut /\ ~Fits
    <3>1. PICK u \in Tasks : MakesRoom(task[u], regularBudget)
      BY <2>2 DEF AudioInv
    <3>2. u # t /\ MakesRoom(task'[u], regularBudget')
      BY <1>2, <1>5, <3>1
    <3> QED BY <1>1, <3>2 DEF AudioInv
  <2> QED BY <2>0, <2>1, <2>2
<1> QED BY <1>0, <1>3, <1>4, <1>5


\* What a task is after it moved to a step, ended, or returned from the eviction.
LEMMA TaskFacts ==
    ASSUME AudioInv, NEW t \in Tasks
    PROVE  /\ task[t] \in AudioTask /\ NoTask \in AudioTask /\ ~MakesRoom(NoTask, regularBudget)
           /\ NoTask.at = "idle"
           /\ \A step \in {"idle", "put", "row", "count", "pin", "pinning"} \cup Evicting :
                [task[t] EXCEPT !.at = step] \in AudioTask /\ [task[t] EXCEPT !.at = step].at = step
           /\ \A k \in Entries, pin \in BOOLEAN, step \in {"put", "pin", "evict"} :
                /\ [NoTask EXCEPT !.at = step, !.key = k, !.pin = pin] \in AudioTask
                /\ [NoTask EXCEPT !.at = step, !.key = k] \in AudioTask
                /\ [NoTask EXCEPT !.at = step] \in AudioTask
           /\ \A n \in Nat : [task[t] EXCEPT !.at = "count", !.total = n] \in AudioTask
           /\ \A k \in Entries : [task[t] EXCEPT !.at = "unlink", !.victim = k] \in AudioTask
           /\ [task[t] EXCEPT !.at = "evict", !.victim = NoEntry] \in AudioTask
<1>1. task[t] \in AudioTask
  BY DEF AudioInv, AudioType
<1>2. NoTask \in AudioTask /\ ~MakesRoom(NoTask, regularBudget) /\ NoTask.at = "idle"
  BY DEF NoTask, AudioTask, MakesRoom, Evicting
<1>3. ASSUME NEW step \in {"idle", "put", "row", "count", "pin", "pinning"} \cup Evicting
      PROVE  [task[t] EXCEPT !.at = step] \in AudioTask /\ [task[t] EXCEPT !.at = step].at = step
  BY <1>1 DEF AudioTask
<1>4. ASSUME NEW k \in Entries, NEW pin \in BOOLEAN, NEW step \in {"put", "pin", "evict"}
      PROVE  /\ [NoTask EXCEPT !.at = step, !.key = k, !.pin = pin] \in AudioTask
             /\ [NoTask EXCEPT !.at = step, !.key = k] \in AudioTask
             /\ [NoTask EXCEPT !.at = step] \in AudioTask
  BY <1>2 DEF AudioTask, Evicting
<1>5. ASSUME NEW n \in Nat PROVE [task[t] EXCEPT !.at = "count", !.total = n] \in AudioTask
  BY <1>1 DEF AudioTask
<1>6. ASSUME NEW k \in Entries PROVE [task[t] EXCEPT !.at = "unlink", !.victim = k] \in AudioTask
  BY <1>1 DEF AudioTask, Evicting
<1>7. [task[t] EXCEPT !.at = "evict", !.victim = NoEntry] \in AudioTask
  BY <1>1 DEF AudioTask, Evicting
<1> QED BY <1>1, <1>2, <1>3, <1>4, <1>5, <1>6, <1>7


\* fetch_track_bytes, put up to its row, pin, unpin and the settings.
LEMMA TaskSteps ==
    ASSUME AudioInv, NEW t \in Tasks,
           \/ \E k \in Entries, pin \in BOOLEAN : Fetch(t, k, pin)
           \/ \E k \in Entries : Unpin(t, k)
           \/ PutBlob(t) \/ PutRow(t) \/ PinCheck(t) \/ PinSet(t) \/ LowerBudget(t) \/ Fails(t)
    PROVE  AudioInv'
<1>01. task[t] \in AudioTask /\ NoTask \in AudioTask
  BY TaskFacts
<1>02. \A step \in {"idle", "put", "row", "count", "pin", "pinning"} \cup Evicting :
         [task[t] EXCEPT !.at = step] \in AudioTask /\ [task[t] EXCEPT !.at = step].at = step
  BY TaskFacts
<1>03. \A k \in Entries, pin \in BOOLEAN, step \in {"put", "pin", "evict"} :
         /\ [NoTask EXCEPT !.at = step, !.key = k, !.pin = pin] \in AudioTask
         /\ [NoTask EXCEPT !.at = step, !.key = k] \in AudioTask
  BY TaskFacts
<1>1. entry \in [Entries -> {"absent", "regular", "pinned"}] /\ regularBudget \in Nat /\ cut \in BOOLEAN
  BY DEF AudioInv, AudioType
<1>2. ASSUME NEW k \in Entries, NEW pin \in BOOLEAN, Fetch(t, k, pin)
      PROVE  AudioInv'
  <2>1. PICK w \in AudioTask : Becomes(t, w)
    <3>1. CASE task' = [task EXCEPT ![t] = NoTask]
      BY <1>01, <3>1 DEF Becomes
    <3>2. CASE task' = [task EXCEPT ![t] = [NoTask EXCEPT !.at = "pin", !.key = k]]
      <4>1. [NoTask EXCEPT !.at = "pin", !.key = k] \in AudioTask
        BY <1>03
      <4> QED BY <3>2, <4>1 DEF Becomes
    <3>3. CASE task' = [task EXCEPT ![t] = [NoTask EXCEPT !.at = "put", !.key = k, !.pin = pin]]
      <4>1. [NoTask EXCEPT !.at = "put", !.key = k, !.pin = pin] \in AudioTask
        BY <1>03
      <4> QED BY <3>3, <4>1 DEF Becomes
    <3> QED BY <1>2, <3>1, <3>2, <3>3 DEF Fetch, Hit, Miss
  <2>2. ~MakesRoom(task[t], regularBudget) /\ UNCHANGED <<entry, regularBudget, cut>>
    BY <1>2 DEF Fetch, At, MakesRoom, Evicting
  <2>3. Rows("regular")' \subseteq Rows("regular")
    BY <2>2 DEF Rows
  <2> QED BY <1>1, <2>1, <2>2, <2>3, RoomStep
<1>3. ASSUME NEW k \in Entries, Unpin(t, k)
      PROVE  AudioInv'
  <2> DEFINE w == [NoTask EXCEPT !.at = "evict", !.key = k]
  <2>1. w \in AudioTask /\ w.at = "evict"
    BY <1>03 DEF NoTask
  <2>2. /\ Becomes(t, w) /\ UNCHANGED <<regularBudget, cut>>
        /\ entry' \in [Entries -> {"absent", "regular", "pinned"}]
    BY <1>1, <1>3 DEF Unpin, Becomes
  <2>3. MakesRoom(w, regularBudget')
    BY <2>1 DEF MakesRoom, Evicting
  <2> HIDE DEF w
  <2> QED BY <1>1, <2>1, <2>2, <2>3, RoomStep
<1>4. CASE LowerBudget(t)
  <2> DEFINE w == [NoTask EXCEPT !.at = "evict"]
  <2>1. w \in AudioTask /\ w.at = "evict"
    BY <1>01 DEF NoTask, AudioTask, Evicting
  <2>2. Becomes(t, w) /\ UNCHANGED <<entry, cut>> /\ regularBudget' \in Nat /\ regularBudget' <= regularBudget
    BY <1>1, <1>4, AudioAssumption DEF LowerBudget, Becomes
  <2>3. MakesRoom(w, regularBudget')
    BY <2>1 DEF MakesRoom, Evicting
  <2> HIDE DEF w
  <2> QED BY <1>1, <2>1, <2>2, <2>3, RoomStep
<1>5. CASE PutRow(t)
  <2> DEFINE w == [task[t] EXCEPT !.at = "evict"]
  <2>1. w \in AudioTask /\ w.at = "evict"
    BY <1>02 DEF Evicting
  <2>2. /\ Becomes(t, w) /\ UNCHANGED <<regularBudget, cut>>
        /\ entry' \in [Entries -> {"absent", "regular", "pinned"}]
    BY <1>1, <1>5 DEF PutRow, Moves, Becomes
  <2>3. MakesRoom(w, regularBudget')
    BY <2>1 DEF MakesRoom, Evicting
  <2> HIDE DEF w
  <2> QED BY <1>1, <2>1, <2>2, <2>3, RoomStep
<1>6. CASE PutBlob(t) \/ PinCheck(t) \/ PinSet(t)
  <2>1. PICK w \in AudioTask : Becomes(t, w)
    BY <1>01, <1>02, <1>6 DEF PutBlob, PinCheck, PinSet, Moves, Ends, Becomes
  <2>2. ~MakesRoom(task[t], regularBudget) /\ UNCHANGED <<regularBudget, cut>>
    BY <1>6 DEF PutBlob, PinCheck, PinSet, At, MakesRoom, Evicting
  <2>3. entry' \in [Entries -> {"absent", "regular", "pinned"}] /\ Rows("regular")' \subseteq Rows("regular")
    BY <1>1, <1>6 DEF PutBlob, PinCheck, PinSet, Rows
  <2> QED BY <1>1, <2>1, <2>2, <2>3, RoomStep
<1>7. CASE Fails(t)
  <2>1. Becomes(t, NoTask) /\ UNCHANGED <<entry, regularBudget>> /\ cut' \in BOOLEAN /\ (cut => cut')
    BY <1>1, <1>7 DEF Fails, Ends, Becomes
  <2>2. cut' \/ ~MakesRoom(task[t], regularBudget)
    BY <1>7 DEF Fails, InEviction, MakesRoom, Evicting
  <2>3. Rows("regular")' \subseteq Rows("regular")
    BY <2>1 DEF Rows
  <2> QED BY <1>01, <1>1, <2>1, <2>2, <2>3, RoomStep
<1> QED BY <1>2, <1>3, <1>4, <1>5, <1>6, <1>7

\* evict_lru_to_fit: a task leaves it only when it has seen that there is room.
LEMMA EvictionSteps ==
    ASSUME AudioInv, NEW t \in Tasks,
           SumUp(t) \/ Count(t) \/ Choose(t) \/ Unlink(t) \/ DeleteRow(t)
    PROVE  AudioInv'
<1>01. task[t] \in AudioTask /\ NoTask \in AudioTask
  BY TaskFacts
<1>02. \A step \in {"idle", "put", "row", "count", "pin", "pinning"} \cup Evicting :
         [task[t] EXCEPT !.at = step] \in AudioTask /\ [task[t] EXCEPT !.at = step].at = step
  BY TaskFacts
<1>03. \A k \in Entries, pin \in BOOLEAN, step \in {"put", "pin", "evict"} :
         /\ [NoTask EXCEPT !.at = step, !.key = k, !.pin = pin] \in AudioTask
         /\ [NoTask EXCEPT !.at = step, !.key = k] \in AudioTask
  BY TaskFacts
<1>1. entry \in [Entries -> {"absent", "regular", "pinned"}] /\ regularBudget \in Nat /\ cut \in BOOLEAN
  BY DEF AudioInv, AudioType
<1>2. Rows("regular") \subseteq Entries
  BY DEF Rows
<1>3. SizeOf(Rows("regular")) \in Nat /\ Cardinality(Rows("regular")) \in Nat
  BY <1>2, SizeFacts
<1>4. UNCHANGED <<entry, regularBudget>> => (Fits => Fits') /\ Rows("regular")' = Rows("regular")
  BY DEF Fits, Rows, SizeOf
<1>5. CASE SumUp(t)
  <2> DEFINE w == [task[t] EXCEPT !.at = "count", !.total = SizeOf(Rows("regular"))]
  <2>1. w \in AudioTask /\ w.at = "count" /\ w.total = SizeOf(Rows("regular"))
    BY <1>01, <1>3 DEF AudioTask
  <2>2. Becomes(t, w) /\ UNCHANGED <<entry, regularBudget>> /\ cut' \in BOOLEAN
    BY <1>5 DEF SumUp, Becomes
  <2> HIDE DEF w
  <2>3. MakesRoom(w, regularBudget') \/ Fits'
    <3>1. CASE SizeOf(Rows("regular")) <= regularBudget
      BY <1>4, <2>2, <3>1 DEF Fits
    <3>2. CASE SizeOf(Rows("regular")) > regularBudget
      BY <2>1, <2>2, <3>2 DEF MakesRoom
    <3> QED BY <1>1, <1>3, <3>1, <3>2
  <2> QED BY <1>1, <2>1, <2>2, <2>3, RoomStep
<1>6. CASE Count(t)
  <2>1. UNCHANGED <<entry, regularBudget, cut>> /\ task[t].at = "count"
    BY <1>6 DEF Count, At
  <2>2. CASE task[t].total <= regularBudget \/ Cardinality(Rows("regular")) <= 1
    <3>1. PICK w \in AudioTask : Becomes(t, w)
      BY <1>01, <1>02, <1>6, <2>2 DEF Count, Returns, Moves, Ends, Becomes
    <3>2. CASE Cardinality(Rows("regular")) <= 1
      <4>1. Fits'
        BY <1>4, <2>1, <3>2 DEF Fits
      <4> QED BY <1>1, <2>1, <3>1, <4>1, RoomStep
    <3>3. CASE task[t].total <= regularBudget
      <4>1. ~MakesRoom(task[t], regularBudget)
        BY <1>01, <1>1, <2>1, <3>3 DEF MakesRoom, Evicting, AudioTask
      <4>2. Rows("regular")' \subseteq Rows("regular")
        BY <1>4, <2>1
      <4> QED BY <1>1, <2>1, <3>1, <4>1, <4>2, RoomStep
    <3> QED BY <2>2, <3>2, <3>3
  <2>3. CASE ~(task[t].total <= regularBudget \/ Cardinality(Rows("regular")) <= 1)
    <3> DEFINE w == [task[t] EXCEPT !.at = "choose"]
    <3>1. w \in AudioTask /\ w.at = "choose"
      BY <1>02 DEF Evicting
    <3>2. Becomes(t, w)
      BY <1>6, <2>3 DEF Count, Moves, Becomes
    <3>3. MakesRoom(w, regularBudget')
      BY <3>1 DEF MakesRoom, Evicting
    <3> HIDE DEF w
    <3> QED BY <1>1, <2>1, <3>1, <3>2, <3>3, RoomStep
  <2> QED BY <2>2, <2>3
<1>7. CASE Choose(t)
  <2>1. UNCHANGED <<entry, regularBudget, cut>>
    BY <1>7 DEF Choose
  <2>2. CASE Rows("regular") = {} /\ Returns(t)
    <3>1. PICK w \in AudioTask : Becomes(t, w)
      BY <1>01, <1>02, <2>2 DEF Returns, Moves, Ends, Becomes
    <3>2. Fits'
      BY <1>4, <2>1, <2>2, FS_EmptySet DEF Fits
    <3> QED BY <1>1, <2>1, <3>1, <3>2, RoomStep
  <2>3. ASSUME NEW k \in Rows("regular"), task' = [task EXCEPT ![t].at = "unlink", ![t].victim = k]
        PROVE  AudioInv'
    <3> DEFINE w == [task[t] EXCEPT !.at = "unlink", !.victim = k]
    <3>1. w \in AudioTask /\ w.at = "unlink"
      BY <1>01, <1>2 DEF AudioTask, Evicting
    <3>2. Becomes(t, w)
      BY <2>3 DEF Becomes
    <3>3. MakesRoom(w, regularBudget')
      BY <3>1 DEF MakesRoom, Evicting
    <3> HIDE DEF w
    <3> QED BY <1>1, <2>1, <3>1, <3>2, <3>3, RoomStep
  <2> QED BY <1>7, <2>2, <2>3 DEF Choose
<1>8. CASE Unlink(t) \/ DeleteRow(t)
  <2>1. UNCHANGED <<regularBudget, cut>> /\ entry' \in [Entries -> {"absent", "regular", "pinned"}]
    BY <1>1, <1>8 DEF Unlink, DeleteRow
  <2>2. PICK w \in AudioTask : Becomes(t, w) /\ w.at \in Evicting
    <3>1. CASE Unlink(t)
      <4> DEFINE w == [task[t] EXCEPT !.at = "delete"]
      <4>1. w \in AudioTask /\ w.at \in Evicting
        BY <1>02 DEF Evicting
      <4>2. Becomes(t, w)
        BY <3>1 DEF Unlink, Moves, Becomes
      <4> HIDE DEF w
      <4> QED BY <4>1, <4>2
    <3>2. CASE DeleteRow(t)
      <4> DEFINE w == [task[t] EXCEPT !.at = "evict", !.victim = NoEntry]
      <4>1. w \in AudioTask
        BY TaskFacts
      <4>2. w.at \in Evicting
        BY <1>01 DEF AudioTask, Evicting
      <4>3. Becomes(t, w)
        BY <3>2 DEF DeleteRow, Becomes
      <4> HIDE DEF w
      <4> QED BY <4>1, <4>2, <4>3
    <3> QED BY <1>8, <3>1, <3>2
  <2>3. MakesRoom(w, regularBudget')
    BY <2>2 DEF MakesRoom
  <2> QED BY <1>1, <2>1, <2>2, <2>3, RoomStep
<1> QED BY <1>5, <1>6, <1>7, <1>8

\* The program is left and started again.
LEMMA Reopened == AudioInv /\ Reopen => AudioInv'
<1> SUFFICES ASSUME AudioInv, Reopen PROVE AudioInv'
  OBVIOUS
<1>1. AudioType'
  BY AudioAssumption DEF AudioInv, AudioType, AudioTask, NoTask, Reopen
<1>2. CASE cut \/ regularBudget' < regularBudget \/ \E t \in Tasks : task[t].at \in InEviction
  BY <1>1, <1>2 DEF AudioInv, Reopen
<1>3. CASE ~cut /\ ~(regularBudget' < regularBudget) /\ ~\E t \in Tasks : task[t].at \in InEviction
  <2>1. Fits
    BY <1>3 DEF AudioInv, MakesRoom, Evicting, InEviction
  <2>2. SizeOf(Rows("regular")) \in Nat
    BY SizeFacts DEF Rows
  <2>3. regularBudget' \in Nat /\ regularBudget \in Nat /\ regularBudget <= regularBudget' /\ entry' = entry
    BY <1>1, <1>3 DEF AudioInv, AudioType, Reopen
  <2>4. Rows("regular")' = Rows("regular") /\ SizeOf(Rows("regular"))' = SizeOf(Rows("regular"))
    BY <2>3 DEF Rows, SizeOf
  <2>5. Fits'
    BY <2>1, <2>2, <2>3, <2>4 DEF Fits
  <2> QED BY <1>1, <2>5 DEF AudioInv
<1> QED BY <1>2, <1>3

\* audio.rs: however fetches, puts, pins, evictions and the settings interleave, fail
\* and are cut off by the end of the program, once the tasks are done the regular
\* entries fit their budget, or one is left; unless an eviction was cut short (or the
\* budget lowered between two runs) and none has measured since.
THEOREM BudgetsHold == AudioInit /\ [][AudioNext]_audioVars => []BudgetHolds
<1>1. AudioInit => AudioInv
  <2> SUFFICES ASSUME AudioInit PROVE AudioInv
    OBVIOUS
  <2>1. AudioType
    BY AudioAssumption DEF AudioInit, AudioType, AudioTask, NoTask
  <2>2. Rows("regular") = {}
    BY DEF AudioInit, Rows
  <2> QED BY <2>1, <2>2, FS_EmptySet DEF AudioInv, Fits
<1>2. AudioInv /\ [AudioNext]_audioVars => AudioInv'
  <2> SUFFICES ASSUME AudioInv, [AudioNext]_audioVars PROVE AudioInv'
    OBVIOUS
  <2>1. CASE AudioNext
    BY <2>1, TaskSteps, EvictionSteps, Reopened DEF AudioNext
  <2>2. CASE UNCHANGED audioVars
    BY <2>2 DEF audioVars, AudioInv, AudioType, Fits, Rows, SizeOf
  <2> QED BY <2>1, <2>2
<1>3. AudioInv => BudgetHolds
  BY DEF AudioInv, BudgetHolds, At, MakesRoom, Evicting
<1> QED BY <1>1, <1>2, <1>3, PTL
=============================================================================
