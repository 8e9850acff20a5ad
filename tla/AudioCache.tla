----------------------------- MODULE AudioCache -----------------------------
(***************************************************************************)
(* The audio cache of music-cache/src/audio.rs under the terminal client's  *)
(* tasks: blobs on disk, one SQLite row each, a budget for the regular      *)
(* entries that an LRU loop enforces and one for the pinned entries that    *)
(* pin checks.  Every statement and every file operation is an await: the   *)
(* playback fetch, the prefetch, the pin gestures and an eviction from the  *)
(* settings interleave there, any of them may fail, and the program may be  *)
(* left between them.                                                       *)
(***************************************************************************)
EXTENDS Integers, Sequences, FiniteSets

CONSTANTS Entries,       \* cached bodies: a track at a quality
          NoEntry, Tasks,
          Bytes,         \* the size of each body
          Regular,       \* the regular budgets: the first, and the lowered one
          PinnedBudget,
          AudioBounds    \* bounds: fetches, pins, unpins, evictions asked for, failures

ASSUME AudioAssumption ==
    /\ IsFiniteSet(Entries) /\ NoEntry \notin Entries
    /\ Bytes \in [Entries -> Nat]
    /\ Regular \in Nat \X Nat /\ PinnedBudget \in Nat

VARIABLES entry,      \* audio_entries: "absent", "regular" or "pinned"
          lru,        \* the entries by last_accessed_at
          blobs,      \* files under blobs/
          regularBudget, \* regular_budget_bytes
          task,       \* what each task is doing, to which entry, the bytes it has
                      \* summed up, and its victim
          cut,        \* whether an eviction was cut short and no task has measured since
          audioLeft

audioVars == <<entry, lru, blobs, regularBudget, task, cut, audioLeft>>

NoTask == [at |-> "idle", key |-> NoEntry, pin |-> FALSE, total |-> 0, victim |-> NoEntry]

AudioInit ==
    /\ entry = [k \in Entries |-> "absent"] /\ lru = <<>> /\ blobs = {}
    /\ regularBudget = Regular[1]
    /\ task = [t \in Tasks |-> NoTask] /\ cut = FALSE
    /\ audioLeft \in AudioBounds

Takes(bound) == audioLeft[bound] > 0 /\ audioLeft' = [audioLeft EXCEPT ![bound] = @ - 1]
At(t, stage) == task[t].at = stage
Moves(t, stage) == task' = [task EXCEPT ![t].at = stage]
Ends(t) == task' = [task EXCEPT ![t] = NoTask]
Rows(kind) == {k \in Entries : entry[k] = kind}
\* SUM(bytes), counted byte by byte.
SizeOf(S) == Cardinality(UNION {{k} \X (1 .. Bytes[k]) : k \in S})
Touched(k) == Append(SelectSeq(lru, LAMBDA e : e # k), k)

-----------------------------------------------------------------------------
\* fetch_track_bytes on a hit: the row is touched and its file read.  ensure_cached,
\* on the way to a pin, only looks for the row.
Hit(t, k, pin) ==
    /\ entry[k] # "absent"
    /\ lru' = IF pin THEN lru ELSE Touched(k)
    /\ task' = [task EXCEPT ![t] = IF pin THEN [NoTask EXCEPT !.at = "pin", !.key = k] ELSE NoTask]

\* On a miss the body is fetched and put; a pin follows it.
Miss(t, k, pin) ==
    /\ entry[k] = "absent"
    /\ task' = [task EXCEPT ![t] = [NoTask EXCEPT !.at = "put", !.key = k, !.pin = pin]]
    /\ UNCHANGED lru

Fetch(t, k, pin) ==
    /\ At(t, "idle") /\ Takes(IF pin THEN "pins" ELSE "fetches")
    /\ Hit(t, k, pin) \/ Miss(t, k, pin)
    /\ UNCHANGED <<entry, blobs, regularBudget, cut>>

\* put: the body goes to a temporary file that is renamed; then the row, whose
\* pinned flag a replacement keeps; then the eviction loop.
PutBlob(t) ==
    /\ At(t, "put") /\ Moves(t, "row")
    /\ blobs' = blobs \cup {task[t].key}
    /\ UNCHANGED <<entry, lru, regularBudget, cut, audioLeft>>

PutRow(t) ==
    LET k == task[t].key IN
    /\ At(t, "row") /\ Moves(t, "evict")
    /\ entry' = IF entry[k] = "pinned" THEN entry ELSE [entry EXCEPT ![k] = "regular"]
    /\ lru' = Touched(k)
    /\ UNCHANGED <<blobs, regularBudget, cut, audioLeft>>

\* evict_lru_to_fit, one turn: sum up, count, choose, unlink, delete the row by its
\* key.  The last row is never evicted.
Fits == SizeOf(Rows("regular")) <= regularBudget \/ Cardinality(Rows("regular")) <= 1
Returns(t) == IF task[t].pin THEN Moves(t, "pin") ELSE Ends(t)

SumUp(t) ==
    /\ At(t, "evict")
    /\ task' = [task EXCEPT ![t].at = "count", ![t].total = SizeOf(Rows("regular"))]
    /\ cut' = FALSE
    /\ UNCHANGED <<entry, lru, blobs, regularBudget, audioLeft>>

Count(t) ==
    /\ At(t, "count")
    /\ IF task[t].total <= regularBudget \/ Cardinality(Rows("regular")) <= 1
       THEN Returns(t) ELSE Moves(t, "choose")
    /\ UNCHANGED <<entry, lru, blobs, regularBudget, cut, audioLeft>>

\* With every regular row gone meanwhile there is nothing to choose, and the put returns.
LeastRecent(k) ==
    \A i, j \in DOMAIN lru : lru[i] = k /\ lru[j] \in Rows("regular") => i <= j
Choose(t) ==
    /\ At(t, "choose")
    /\ \/ Rows("regular") = {} /\ Returns(t)
       \/ \E k \in Rows("regular") :
            LeastRecent(k) /\ task' = [task EXCEPT ![t].at = "unlink", ![t].victim = k]
    /\ UNCHANGED <<entry, lru, blobs, regularBudget, cut, audioLeft>>

Unlink(t) ==
    /\ At(t, "unlink") /\ Moves(t, "delete")
    /\ blobs' = blobs \ {task[t].victim}
    /\ UNCHANGED <<entry, lru, regularBudget, cut, audioLeft>>

DeleteRow(t) ==
    LET k == task[t].victim IN
    /\ At(t, "delete")
    /\ entry' = [entry EXCEPT ![k] = "absent"]
    /\ lru' = SelectSeq(lru, LAMBDA e : e # k)
    /\ task' = [task EXCEPT ![t].at = "evict", ![t].victim = NoEntry]
    /\ UNCHANGED <<blobs, regularBudget, cut, audioLeft>>

\* pin: refused without a row, when it is pinned already or when the pinned total
\* would exceed its budget; the update is a statement of its own.
PinCheck(t) ==
    LET k == task[t].key IN
    /\ At(t, "pin")
    /\ IF entry[k] = "regular" /\ SizeOf(Rows("pinned")) + Bytes[k] <= PinnedBudget
       THEN Moves(t, "pinning") ELSE Ends(t)
    /\ UNCHANGED <<entry, lru, blobs, regularBudget, cut, audioLeft>>

PinSet(t) ==
    LET k == task[t].key IN
    /\ At(t, "pinning") /\ Ends(t)
    /\ entry' = IF entry[k] = "absent" THEN entry ELSE [entry EXCEPT ![k] = "pinned"]
    /\ UNCHANGED <<lru, blobs, regularBudget, cut, audioLeft>>

\* Mutant: the bytes that come back to the regular bucket are not made room for.
UnpinInPlace(t, k) ==
    /\ At(t, "idle") /\ entry[k] = "pinned" /\ Takes("unpins")
    /\ entry' = [entry EXCEPT ![k] = "regular"]
    /\ UNCHANGED <<lru, blobs, regularBudget, task, cut>>

Unpin(t, k) ==
    /\ At(t, "idle") /\ entry[k] = "pinned" /\ Takes("unpins")
    /\ entry' = [entry EXCEPT ![k] = "regular"]
    /\ task' = [task EXCEPT ![t] = [NoTask EXCEPT !.at = "evict", !.key = k]]
    /\ UNCHANGED <<lru, blobs, regularBudget, cut>>

\* The settings lower the budget and evict at once; E evicts within the one there is.
LowerBudget(t) ==
    /\ At(t, "idle") /\ Takes("evictions")
    /\ regularBudget' \in {regularBudget, Regular[2]} /\ regularBudget' <= regularBudget
    /\ task' = [task EXCEPT ![t] = [NoTask EXCEPT !.at = "evict"]]
    /\ UNCHANGED <<entry, lru, blobs, cut>>

\* Any file operation or statement returns an error, and with it the task: what it did
\* before stays done, a row inserted or unpinned among it.
InEviction == {"evict", "count", "choose", "unlink", "delete"}
Fails(t) ==
    /\ ~At(t, "idle") /\ Ends(t) /\ Takes("failures")
    /\ cut' = (cut \/ task[t].at \in InEviction)
    /\ UNCHANGED <<entry, lru, blobs, regularBudget>>

\* The program is left with its tasks under way and started again: open reads the
\* budget from the settings, which may name a lower one, and evicts nothing.
Reopen ==
    /\ Takes("failures")
    /\ regularBudget' \in {Regular[1], Regular[2]}
    /\ task' = [t \in Tasks |-> NoTask]
    /\ cut' = (cut \/ regularBudget' < regularBudget \/ \E t \in Tasks : task[t].at \in InEviction)
    /\ UNCHANGED <<entry, lru, blobs>>

AudioNext ==
    \/ Reopen
    \/ \E t \in Tasks :
        \/ \E k \in Entries : (\E pin \in BOOLEAN : Fetch(t, k, pin)) \/ Unpin(t, k)
        \/ PutBlob(t) \/ PutRow(t) \/ SumUp(t) \/ Count(t) \/ Choose(t) \/ Unlink(t) \/ DeleteRow(t)
        \/ PinCheck(t) \/ PinSet(t) \/ LowerBudget(t) \/ Fails(t)

-----------------------------------------------------------------------------
\* However the tasks interleave, fail and are cut off, the regular entries fit their
\* budget (or a single one is left) once the tasks are done, unless an eviction was
\* cut short, by an error, by the end of the program or by a budget lowered while it
\* was not running: then from the first later one that gets to measure.  Every task
\* that adds regular bytes or lowers the budget measures after it did (put, unpin,
\* the settings' save).
BudgetHolds == (\A t \in Tasks : At(t, "idle")) /\ ~cut => Fits

=============================================================================
