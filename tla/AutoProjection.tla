--------------------------- MODULE AutoProjection ---------------------------
(***************************************************************************)
(* The task that keeps the projection of the embeddings fresh: once a       *)
(* minute it counts the embedded tracks and, when enough are new and the    *)
(* count has been quiet, has the sidecar reduce them to a flat (2D) and a   *)
(* deep (3D) set of points, stored under one time stamp, and prunes old     *)
(* sets.  The ingest goes on meanwhile, any call may fail, the gateway may  *)
(* restart.  Time is counted in minutes, a set of points is its size: the   *)
(* embedded tracks only ever grow.                                          *)
(***************************************************************************)
EXTENDS Integers, Sequences

CONSTANTS MinNew,        \* MIN_NEW_EMBEDDINGS
          QuietMinutes,  \* QUIET_INTERVAL, in ticks
          KeepRuns,      \* KEEP_AUTO_RUNS
          MaxEmbedded, MaxMinutes, ProjFaults    \* bounds; faults: failed calls and boots

ASSUME ProjAssumption == MinNew \in Nat \ {0} /\ QuietMinutes \in Nat /\ KeepRuns \in Nat \ {0}

VARIABLES embedded,      \* done rows of the embedding store
          loop,          \* LoopState: last_reduced_count, last_seen_count, last_change_at
          reduction,     \* what the loop is doing
          projections,   \* the auto-* versions by created_at_ms: stamp, dims, points
          minute, projFaults

projVars == <<embedded, loop, reduction, projections, minute, projFaults>>

Waiting == [at |-> "tick", count |-> 0, stamp |-> 0, points |-> 0]

ProjInit ==
    /\ embedded = 0 /\ minute = 0 /\ projFaults = ProjFaults
    /\ loop = [reduced |-> 0, seen |-> 0, changed |-> 0]
    /\ reduction = Waiting
    /\ projections = <<>>

Embeds ==
    /\ embedded < MaxEmbedded /\ embedded' = embedded + 1
    /\ UNCHANGED <<loop, reduction, projections, minute, projFaults>>

\* decide_action
DecideAction(now) ==
    CASE embedded # loop.seen -> "update"
      [] embedded = loop.seen /\ (embedded - loop.reduced < MinNew \/ now - loop.changed < QuietMinutes) -> "wait"
      [] OTHER -> "reduce"

\* One tick: the count is read and judged.
ProjTick ==
    /\ reduction = Waiting /\ minute < MaxMinutes
    /\ minute' = minute + 1
    /\ LET action == DecideAction(minute') IN
       /\ loop' = IF action = "update" THEN [loop EXCEPT !.seen = embedded, !.changed = minute'] ELSE loop
       /\ reduction' = IF action = "reduce"
                       THEN [at |-> "list", count |-> embedded, stamp |-> minute', points |-> 0] ELSE Waiting
    /\ UNCHANGED <<embedded, projections, projFaults>>

\* The count fails and the tick passes.
CountFails ==
    /\ reduction = Waiting /\ minute < MaxMinutes /\ minute' = minute + 1
    /\ projFaults > 0 /\ projFaults' = projFaults - 1
    /\ UNCHANGED <<embedded, loop, reduction, projections>>

\* The matrix is read once for both runs.
ListMatrix ==
    /\ reduction.at = "list"
    /\ reduction' = [reduction EXCEPT !.at = "flat", !.points = embedded]
    /\ UNCHANGED <<embedded, loop, projections, minute, projFaults>>

Stored(dims, points) ==
    projections' = Append(projections, [stamp |-> reduction.stamp, dims |-> dims, points |-> points])

\* Mutant: each run reads the matrix for itself.
ReduceFlatAfresh ==
    /\ reduction.at = "flat"
    /\ Stored(2, reduction.points)
    /\ reduction' = [reduction EXCEPT !.at = "deep", !.points = embedded]
    /\ UNCHANGED <<embedded, loop, minute, projFaults>>

\* run_one_reduce, the 2D run
ReduceFlat ==
    /\ reduction.at = "flat"
    /\ Stored(2, reduction.points)
    /\ reduction' = [reduction EXCEPT !.at = "deep"]
    /\ UNCHANGED <<embedded, loop, minute, projFaults>>

\* The 2D run failed: the 3D run is made all the same, the baseline stays.
ReduceFlatFails ==
    /\ reduction.at = "flat" /\ projFaults > 0 /\ projFaults' = projFaults - 1
    /\ reduction' = [reduction EXCEPT !.at = "deep_only"]
    /\ UNCHANGED <<embedded, loop, projections, minute>>

\* The 3D run; only when both landed is the baseline moved and the history pruned.
ReduceDeep ==
    /\ reduction.at \in {"deep", "deep_only"}
    /\ Stored(3, reduction.points)
    /\ IF reduction.at = "deep"
       THEN loop' = [loop EXCEPT !.reduced = reduction.count] /\ reduction' = [Waiting EXCEPT !.at = "prune"]
       ELSE UNCHANGED loop /\ reduction' = Waiting
    /\ UNCHANGED <<embedded, minute, projFaults>>

\* A failed list, 3D run or prune ends the tick.
ProjFails ==
    /\ reduction.at \in {"list", "deep", "deep_only", "prune"}
    /\ projFaults > 0 /\ projFaults' = projFaults - 1
    /\ reduction' = Waiting
    /\ UNCHANGED <<embedded, loop, projections, minute>>

\* prune_proj_versions: the newest KeepRuns stay.
PruneProjVersions ==
    /\ reduction.at = "prune"
    /\ LET n == Len(projections) IN
       projections' = IF n <= KeepRuns THEN projections
                      ELSE SubSeq(projections, n - KeepRuns + 1, n)
    /\ reduction' = Waiting
    /\ UNCHANGED <<embedded, loop, minute, projFaults>>

\* initial_baseline: the points of the newest version, whatever became of its
\* sibling; 0 when there is none or the query fails.
InitialBaseline ==
    {0} \cup (IF projections = <<>> THEN {} ELSE {projections[Len(projections)].points})

ProjBoot ==
    /\ projFaults > 0 /\ projFaults' = projFaults - 1
    /\ \E base \in InitialBaseline : loop' = [reduced |-> base, seen |-> 0, changed |-> minute]
    /\ reduction' = Waiting
    /\ UNCHANGED <<embedded, projections, minute>>

ProjNext ==
    \/ Embeds \/ ProjTick \/ CountFails \/ ListMatrix \/ ReduceFlat \/ ReduceFlatFails
    \/ ReduceDeep \/ ProjFails \/ PruneProjVersions \/ ProjBoot

ProjSpec == ProjInit /\ [][ProjNext]_projVars

-----------------------------------------------------------------------------
\* The flat and the deep points of one stamp describe the same tracks, whatever
\* the ingest embeds between the two calls.
SiblingsAgree ==
    \A i, j \in DOMAIN projections :
        projections[i].stamp = projections[j].stamp => projections[i].points = projections[j].points
=============================================================================
