----------------------------- MODULE Playlists -----------------------------
(***************************************************************************)
(* The gateway's playlists: membership in two SQLite tables, owner and      *)
(* visibility on the playlist row.  Every handler loads the row first (404  *)
(* hides what the caller may not see or change, 403 stops guests) and acts  *)
(* in a later statement; an append reads the members and then writes in one *)
(* deferred transaction, which fails when anyone wrote in between.          *)
(*                                                                          *)
(* Positions are contiguous from 0, so the members are a sequence.          *)
(***************************************************************************)
EXTENDS Integers, SequencesExt, Selections

CONSTANTS
    Lists,          \* ids a create may draw
    Writers,        \* requests that may be under way at once
    Users, Guests,  \* accounts, and the guests among them
    Edits,          \* the requests: [kind, user, list, tracks, visibility]
    MaxEdits

\* The tracks the requests name.
Named == UNION {ToSet(e.tracks) : e \in Edits}
ASSUME EditsAssumption == \A e \in Edits : e.tracks \in Seq(Named)

VARIABLES
    rows,           \* playlists: id -> [owner, visibility]
    members,        \* playlist_tracks: id -> sequence of tracks
    edit,           \* what each request under way is about to do
    edits,          \* how many requests were made
    replaced        \* history: lists whose members a replace wrote

listVars == <<rows, members, edit, edits, replaced>>

NoEdit == [step |-> "idle"]

PlaylistsInit ==
    /\ rows = <<>> /\ members = <<>>
    /\ edit = [w \in Writers |-> NoEdit]
    /\ edits = 0 /\ replaced = {}

\* A commit outdates every transaction that has read and not yet written.
Committed(w, to) ==
    edit' = [v \in Writers |->
        IF v = w THEN to
        ELSE IF edit[v].step = "insert" THEN [edit[v] EXCEPT !.stale = TRUE] ELSE edit[v]]
Moves(w, to) == edit' = [edit EXCEPT ![w] = to]

Without(f, k) == [x \in DOMAIN f \ {k} |-> f[x]]
With(f, k, v) == [x \in DOMAIN f \cup {k} |-> IF x = k THEN v ELSE f[x]]

Admitted(w, e) == edit[w] = NoEdit /\ edits < MaxEdits /\ edits' = edits + 1
MayWrite(e) == e.user \notin Guests

\* load_owned
Owned(e) == e.list \in DOMAIN rows /\ rows[e.list].owner = e.user

\* POST /v1/playlists: a fresh id, private, empty.
Create(w, e) ==
    /\ Admitted(w, e) /\ e.kind = "create" /\ MayWrite(e)
    /\ e.list \notin DOMAIN rows
    /\ rows' = With(rows, e.list, [owner |-> e.user, visibility |-> "private"])
    /\ members' = With(members, e.list, <<>>)
    /\ Committed(w, NoEdit)
    /\ UNCHANGED replaced

\* A request on one playlist: 403, 404, or on to its act.
Load(w, e) ==
    /\ Admitted(w, e) /\ e.kind # "create"
    /\ Moves(w, IF MayWrite(e) /\ Owned(e) THEN [step |-> "act", e |-> e] ELSE NoEdit)
    /\ UNCHANGED <<rows, members, replaced>>

\* PATCH: an update of a row that is gone touches nothing and answers 404.
Patch(w) ==
    LET e == edit[w].e IN
    /\ edit[w].step = "act" /\ e.kind = "patch"
    /\ rows' = IF e.list \in DOMAIN rows THEN [rows EXCEPT ![e.list].visibility = e.visibility] ELSE rows
    /\ Committed(w, NoEdit)
    /\ UNCHANGED <<members, edits, replaced>>

\* DELETE cascades to the members.
Delete(w) ==
    LET e == edit[w].e IN
    /\ edit[w].step = "act" /\ e.kind = "delete"
    /\ rows' = Without(rows, e.list)
    /\ members' = Without(members, e.list)
    /\ Committed(w, NoEdit)
    /\ UNCHANGED <<edits, replaced>>

\* set_tracks, replace: the write lock is taken by the first statement.  The
\* foreign key refuses members of a playlist that is gone.
Replace(w) ==
    LET e == edit[w].e IN
    /\ edit[w].step = "act" /\ e.kind = "replace"
    /\ IF e.list \in DOMAIN rows
       THEN /\ members' = [members EXCEPT ![e.list] = e.tracks]
            /\ replaced' = replaced \cup {e.list}
       ELSE UNCHANGED <<members, replaced>>
    /\ Committed(w, NoEdit)
    /\ UNCHANGED <<rows, edits>>

\* set_tracks, append: what is there is read first ...
AppendRead(w) ==
    LET e == edit[w].e IN
    /\ edit[w].step = "act" /\ e.kind = "append"
    /\ Moves(w, [step |-> "insert", e |-> e, stale |-> FALSE,
                 had |-> IF e.list \in DOMAIN members THEN members[e.list] ELSE <<>>])
    /\ UNCHANGED <<rows, members, edits, replaced>>

\* Mutant: a batch is only compared with the members, not with itself.
FreshAgainstMembers(had, tracks) == AtPlaces(tracks, {n \in DOMAIN tracks : tracks[n] \notin ToSet(had)})

\* The tracks of a batch that are neither members nor earlier in the batch.
FreshTracks(had, tracks) ==
    AtPlaces(tracks, {n \in DOMAIN tracks :
                        /\ tracks[n] \notin ToSet(had)
                        /\ \A m \in 1 .. n - 1 : tracks[m] # tracks[n]})

\* SQLite refuses to upgrade a read that is out of date.
InsertRefused(w) == edit[w].stale

\* ... and what is missing is inserted behind it, or the whole append fails.
AppendInsert(w) ==
    LET e == edit[w].e
        fresh == FreshTracks(edit[w].had, e.tracks) IN
    /\ edit[w].step = "insert"
    /\ IF InsertRefused(w) \/ e.list \notin DOMAIN rows \/ fresh = <<>>
       THEN Moves(w, NoEdit) /\ UNCHANGED members
       ELSE Committed(w, NoEdit) /\ members' = [members EXCEPT ![e.list] = @ \o fresh]
    /\ UNCHANGED <<rows, edits, replaced>>

PlaylistsNext ==
    \E w \in Writers :
        \/ \E e \in Edits : Create(w, e) \/ Load(w, e)
        \/ Patch(w) \/ Delete(w) \/ Replace(w) \/ AppendRead(w) \/ AppendInsert(w)

-----------------------------------------------------------------------------
\* However requests interleave, members belong to a playlist that exists, and a
\* track is in a playlist twice only where a replace wrote it twice.
MembersOnce ==
    /\ DOMAIN members = DOMAIN rows
    /\ \A l \in DOMAIN members \ replaced : IsInjective(members[l])
=============================================================================
