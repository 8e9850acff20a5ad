------------------------------ MODULE TuiViews ------------------------------
(***************************************************************************)
(* The terminal's sections: which pane is shown, what each pane holds, and *)
(* the requests whose answers come in any order, or not at all.            *)
(*                                                                         *)
(* A pane's content is abstracted to what it was asked for (an album, a    *)
(* query, an album-list kind) and the generation of the request it         *)
(* answers; rows and cursors are not kept.  The six                        *)
(* diagnostics tabs are represented by "recommender", which has a time     *)
(* window, and "latent", which has a neighbour list.                       *)
(***************************************************************************)
EXTENDS Integers, Bags

CONSTANTS
    Ids,           \* albums, artists, playlists, tracks and queries, as far as told apart
    NoId,
    Kinds,         \* album-list kinds
    ViewStarts     \* states a behaviour may start from, with its bounds

VARIABLES v, viewsLeft

viewVars == <<v, viewsLeft>>

Modes == <<"albums", "artists", "songs">>
Browsing == {"albums", "artists", "songs"}
Tabs == {"recommender", "latent"}
Empty == [state |-> "Idle", of |-> NoId, by |-> 0]
Slots == Browsing \cup Tabs \cup
         {"album", "similar", "artist", "search", "stations", "liked", "downloads",
          "playlists", "playlist", "suggestions", "lyrics", "neighbours"}

FirstView ==
    [ section |-> "Library", pane |-> "Browse", lists |-> "List", mode |-> 1, kind |-> CHOOSE k \in Kinds : TRUE,
      slot |-> [p \in Slots |-> Empty], nav_return |-> <<"none", "none">>,
      generation |-> [g \in {"library", "search", "stations", "playlists"} |-> 0],
      target |-> [p \in {"album", "artist", "playlist", "lyrics", "neighbours"} |-> NoId],
      query |-> [p \in {"search", "stations"} |-> NoId],
      playing |-> NoId, lyrics_open |-> FALSE, refreshing |-> FALSE,
      tab |-> "recommender", window |-> "24h", point |-> NoId,
      pending_delete |-> NoId, requests |-> EmptyBag ]

\* A start shows lists and results that were asked for, and waits for nothing.
ASSUME ViewAssumption ==
    /\ NoId \notin Ids
    /\ \A s \in ViewStarts :
         LET w == s.view IN
         /\ w = [FirstView EXCEPT !.section = w.section, !.tab = w.tab, !.slot = w.slot, !.query = w.query]
         /\ w.tab \in Tabs /\ DOMAIN w.slot = Slots /\ DOMAIN w.query = {"search", "stations"}
         /\ \A p \in Slots : w.slot[p].state = "Ready" => w.slot[p].by = 0
         /\ \A p \in Slots : w.slot[p].state = "Ready" =>
              \/ p \in Tabs \cup {"artists", "songs", "liked", "downloads", "playlists"}
              \/ p = "albums" /\ w.slot[p].of = w.kind
              \/ p \in {"search", "stations"} /\ w.slot[p].of = w.query[p]

ViewInit == \E s \in ViewStarts : v = s.view /\ viewsLeft = s.left
ViewSpend(budget) == viewsLeft[budget] > 0 /\ viewsLeft' = [viewsLeft EXCEPT ![budget] = @ - 1]

-----------------------------------------------------------------------------
(***************************************************************************)
(* Requests.  Each carries what its answer is recognised by.               *)
(***************************************************************************)
Send(s, p, generation, of) ==
    [s EXCEPT !.requests = @ (+) SetToBag({[slot |-> p, generation |-> generation, of |-> of]})]
Loading(s, p) == [s EXCEPT !.slot[p] = [state |-> "Loading", of |-> NoId, by |-> 0]]
Ask(s, p, of) == Send(Loading(s, p), p, 0, of)

Bumped(s, g, p, of) ==
    LET s2 == [s EXCEPT !.generation[g] = @ + 1] IN Send(Loading(s2, p), p, s2.generation[g], of)
ReloadBrowse(s) ==
    Bumped(s, "library", Modes[s.mode], IF s.mode = 1 THEN s.kind ELSE NoId)
ReloadList(s) == Bumped(s, "playlists", "playlists", NoId)

OpenAlbum(s, id) ==
    Ask([s EXCEPT !.nav_return = <<s.section, s.pane>>, !.section = "Library", !.pane = "AlbumDetail",
                  !.slot["similar"] = Empty, !.target["album"] = id], "album", id)
OpenArtist(s, id) ==
    Ask([s EXCEPT !.nav_return = <<s.section, s.pane>>, !.section = "Library", !.pane = "ArtistDetail",
                  !.target["artist"] = id], "artist", id)
OpenDetail(s, id) ==
    Ask([s EXCEPT !.lists = "Detail", !.slot["suggestions"] = Empty, !.target["playlist"] = id],
        "playlist", id)

\* A tab shows its spinner only the first time; later loads replace its data silently.
LoadActive(s) ==
    LET s2 == IF s.slot[s.tab].state = "Idle" THEN Loading(s, s.tab) ELSE s
    IN  Send(s2, s.tab, 0, s.window)
MaybeFetchNeighbours(s) ==
    IF s.tab # "latent" \/ s.slot["latent"].state # "Ready" \/ s.point \in {NoId, s.target["neighbours"]} THEN s
    ELSE Ask([s EXCEPT !.target["neighbours"] = s.point], "neighbours", s.point)

LoadIfStale(s, track) ==
    IF s.target["lyrics"] = track /\ s.slot["lyrics"].state # "Idle" THEN s
    ELSE Ask([s EXCEPT !.target["lyrics"] = track], "lyrics", track)

-----------------------------------------------------------------------------
(***************************************************************************)
(* Gestures.                                                               *)
(***************************************************************************)
GoSection(s, section) ==
    LET s2 == [s EXCEPT !.section = section]
    IN  CASE section = "Library" /\ s.slot[Modes[s.mode]].state \in {"Idle", "Failed"} -> ReloadBrowse(s2)
          [] section = "Liked"                                           -> Ask(s2, "liked", NoId)
          [] section = "Playlists" /\ s.slot["playlists"].state = "Idle" -> ReloadList(s2)
          [] section = "Downloads"                                       -> Ask(s2, "downloads", NoId)
          [] section = "Diagnostics"                                     -> LoadActive(s2)
          [] OTHER                                                       -> s2

Back(s) ==
    CASE s.lyrics_open -> [s EXCEPT !.lyrics_open = FALSE]
      [] ~s.lyrics_open /\ s.section = "Library" /\ s.pane # "Browse" ->
           IF s.nav_return = <<"none", "none">> THEN [s EXCEPT !.pane = "Browse"]
           ELSE [s EXCEPT !.section = s.nav_return[1], !.pane = s.nav_return[2],
                          !.nav_return = <<"none", "none">>]
      [] ~s.lyrics_open /\ s.section = "Playlists" ->
           [s EXCEPT !.lists = IF @ = "Suggestions" THEN "Detail" ELSE "List"]
      [] OTHER -> s

\* [ and ]; the list is asked for anew, "so a mode can't get stuck on a stale Loading".
CycleMode(s) ==
    IF s.section = "Library" /\ s.pane = "Browse" THEN ReloadBrowse([s EXCEPT !.mode = (@ % 3) + 1])
    ELSE s

\* h and l, among the albums.
CycleKind(s, kind) ==
    IF s.section = "Library" /\ s.pane = "Browse" /\ s.mode = 1 THEN ReloadBrowse([s EXCEPT !.kind = kind])
    ELSE s

\* Enter on a row: an album or artist of the browse list, of the search results, of
\* the liked list, or of the open detail; a playlist of the list.
Activate(s, id) ==
    LET ready(p) == s.slot[p].state = "Ready"
    IN  CASE s.section = "Library" /\ s.pane = "Browse" /\ s.mode = 1 /\ ready("albums")   -> {OpenAlbum(s, id)}
          [] s.section = "Library" /\ s.pane = "Browse" /\ s.mode = 2 /\ ready("artists")  -> {OpenArtist(s, id)}
          [] s.section = "Library" /\ s.pane = "AlbumDetail" /\ ready("album") /\ ready("similar")
                                                          -> {OpenAlbum(s, id), OpenArtist(s, id)}
          [] s.section = "Library" /\ s.pane = "ArtistDetail" /\ ready("artist")           -> {OpenAlbum(s, id)}
          [] s.section = "Search" /\ ready("search")      -> {OpenAlbum(s, id), OpenArtist(s, id)}
          [] s.section = "Liked" /\ ready("liked")        -> {OpenAlbum(s, id), OpenArtist(s, id)}
          [] s.section = "Playlists" /\ s.lists = "List" /\ ready("playlists")             -> {OpenDetail(s, id)}
          [] OTHER                                        -> {}

SubmitInput(s, text) ==
    CASE s.section = "Search"   -> Bumped([s EXCEPT !.query["search"] = text], "search", "search", text)
      [] s.section = "Stations" -> Bumped([s EXCEPT !.query["stations"] = text], "stations", "stations", text)
      [] OTHER                  -> s

ToggleLyrics(s) ==
    CASE s.lyrics_open                       -> [s EXCEPT !.lyrics_open = FALSE]
      [] ~s.lyrics_open /\ s.playing = NoId  -> s
      [] OTHER                               -> LoadIfStale([s EXCEPT !.lyrics_open = TRUE], s.playing)
LyricsTick(s) ==
    IF ~s.lyrics_open \/ s.playing \in {NoId, s.target["lyrics"]} THEN s ELSE LoadIfStale(s, s.playing)
LyricsRefresh(s) ==
    IF ~s.lyrics_open \/ s.refreshing \/ s.target["lyrics"] = NoId THEN s
    ELSE Send([s EXCEPT !.refreshing = TRUE], "refresh", 0, s.target["lyrics"])

CycleTab(s) == LoadActive([s EXCEPT !.tab = IF @ = "latent" THEN "recommender" ELSE "latent"])
CycleWindow(s) == LoadActive([s EXCEPT !.window = IF @ = "24h" THEN "all" ELSE "24h"])
DiagTick(s, due) == MaybeFetchNeighbours(IF due THEN LoadActive(s) ELSE s)

Suggest(s) ==
    IF s.slot["playlist"].state # "Ready" THEN s
    ELSE Ask([s EXCEPT !.lists = "Suggestions"], "suggestions", s.target["playlist"])
\* X twice; whether the second one comes in time is the clock's choice.
Delete(s, inTime) ==
    LET id == s.target["playlist"]
    IN  CASE s.slot["playlist"].state # "Ready" -> s
          [] s.slot["playlist"].state = "Ready" /\ s.pending_delete = id /\ inTime ->
               Send([s EXCEPT !.pending_delete = NoId, !.lists = "List", !.slot["playlist"] = Empty,
                              !.target["playlist"] = NoId], "delete", 0, id)
          [] OTHER -> [s EXCEPT !.pending_delete = id]
\* Rename, remove a track, add a suggestion.
Edit(s, op) == IF s.slot["playlist"].state # "Ready" THEN s ELSE Send(s, op, 0, s.target["playlist"])
\* The picker: add to a playlist or to a new one.
OpenPicker(s) == IF s.slot["playlists"].state = "Ready" THEN s ELSE ReloadList(s)
PickerAdds(s, id) ==
    IF s.slot["playlists"].state = "Ready" THEN Send(s, "add", 0, id) ELSE Send(s, "create", 0, NoId)

-----------------------------------------------------------------------------
(***************************************************************************)
(* Answers.                                                                *)
(***************************************************************************)
\* Mutant: the answer of an album list is taken whichever list is on screen.
AcceptsAnyAlbums(s, r) ==
    CASE r.slot = "albums" -> TRUE
      [] r.slot \in {"artists", "songs"}           -> r.generation = s.generation["library"]
      [] r.slot \in {"search", "stations", "playlists"} -> r.generation = s.generation[r.slot]
      [] r.slot \in {"album", "artist", "playlist", "neighbours"} -> r.of = s.target[r.slot]
      [] r.slot = "suggestions"                    -> r.of = s.target["playlist"]
      [] r.slot = "similar"                        -> s.slot["album"].state = "Ready" /\ s.slot["album"].of = r.of
      [] r.slot \in Tabs                           -> r.slot = s.tab
      [] OTHER                                     -> TRUE

Accepts(s, r) ==
    CASE r.slot \in Browsing                       -> r.generation = s.generation["library"]
      [] r.slot \in {"search", "stations", "playlists"} -> r.generation = s.generation[r.slot]
      [] r.slot \in {"album", "artist", "playlist", "neighbours"} -> r.of = s.target[r.slot]
      [] r.slot = "suggestions"                    -> r.of = s.target["playlist"]
      [] r.slot = "similar"                        -> s.slot["album"].state = "Ready" /\ s.slot["album"].of = r.of
      [] r.slot \in Tabs                           -> r.slot = s.tab
      [] OTHER                                     -> TRUE

Shown(s, p, r, ok) ==
    [s EXCEPT !.slot[p] = IF ok THEN [state |-> "Ready", of |-> r.of, by |-> r.generation]
                          ELSE [state |-> "Failed", of |-> NoId, by |-> 0]]

\* on_write_done: what is loaded again after a playlist write.
Writes == {"rename", "set", "add", "delete", "create"}
WriteDone(s, r, ok) ==
    LET reload == ok \/ r.slot = "delete"
        reopen == \/ r.slot \in {"rename", "add"} /\ ok
                  \/ r.slot \in {"add", "set"} /\ ~ok
        s2     == IF reload THEN ReloadList(s) ELSE s
    IN  IF reopen /\ r.of = s.target["playlist"] THEN Ask(s2, "playlist", r.of) ELSE s2

\* An answer has content ("ok"), is empty, or is an error.
\* An album with tracks asks for its footer.
AlbumLoaded(s, r, outcome) ==
    LET s2 == Shown(s, "album", r, outcome # "fails")
    IN  IF outcome = "ok" THEN Ask(s2, "similar", r.of) ELSE s2
\* Having nothing to suggest is shown as a failure.
SuggestionsLoaded(s, r, outcome) == Shown(s, "suggestions", r, outcome = "ok")
\* A load or a forced refresh; both carry the track they were asked for.
LyricsLoaded(s, r, outcome) ==
    LET s2 == [s EXCEPT !.refreshing = FALSE]
    IN  IF r.of = s.target["lyrics"] THEN Shown(s2, "lyrics", r, outcome # "fails") ELSE s2
\* The points keep the selection, or get a first one, whose neighbours are then fetched.
TabLoaded(s, r, outcome) ==
    LET first == IF s.point = NoId THEN CHOOSE i \in Ids : TRUE ELSE s.point
        s2 == Shown(s, r.slot, r, outcome # "fails")
    IN  IF r.slot = "latent" /\ outcome = "ok" THEN MaybeFetchNeighbours([s2 EXCEPT !.point = first]) ELSE s2
\* A pin, an unpin or an eviction is done: the open downloads are loaded again.
PinDone(s) == IF s.section = "Downloads" THEN Ask(s, "downloads", NoId) ELSE s

Answered(s0, r, outcome) ==
    LET s == [s0 EXCEPT !.requests = @ (-) SetToBag({r})]
    IN  CASE r.slot \in Writes                -> WriteDone(s, r, outcome # "fails")
          [] r.slot = "pin"                   -> PinDone(s)
          [] r.slot \in {"lyrics", "refresh"} -> LyricsLoaded(s, r, outcome)
          [] r.slot \in Slots \ {"lyrics"} /\ ~Accepts(s, r)            -> s
          [] r.slot = "album" /\ Accepts(s, r)       -> AlbumLoaded(s, r, outcome)
          [] r.slot = "suggestions" /\ Accepts(s, r) -> SuggestionsLoaded(s, r, outcome)
          [] r.slot \in Tabs /\ Accepts(s, r)        -> TabLoaded(s, r, outcome)
          [] OTHER                                   -> Shown(s, r.slot, r, outcome # "fails")

-----------------------------------------------------------------------------
Gestured(s) == ViewSpend("gestures") /\ s # v /\ v' = s
Navigate ==
    \/ \E section \in {"Library", "Search", "Stations", "Liked", "Playlists", "Downloads", "Diagnostics"} :
         Gestured(GoSection(v, section))
    \/ Gestured(Back(v))
Browse ==
    \/ Gestured(CycleMode(v)) \/ \E kind \in Kinds : Gestured(CycleKind(v, kind))
    \/ \E id \in Ids : (\E s \in Activate(v, id) : Gestured(s)) \/ Gestured(SubmitInput(v, id))
ReadLyrics == Gestured(ToggleLyrics(v)) \/ Gestured(LyricsRefresh(v))
Diagnose ==
    /\ v.section = "Diagnostics"
    /\ \/ Gestured(CycleTab(v)) \/ Gestured(CycleWindow(v))
       \/ v.slot["latent"].state = "Ready" /\ \E id \in Ids : Gestured([v EXCEPT !.point = id])
EditPlaylists ==
    /\ v.section = "Playlists" /\ v.lists = "Detail"
    /\ \/ Gestured(Suggest(v)) \/ \E inTime \in BOOLEAN : Gestured(Delete(v, inTime))
       \/ \E op \in {"rename", "set"} : Gestured(Edit(v, op))
AddSuggestion ==
    v.section = "Playlists" /\ v.lists = "Suggestions" /\ v.slot["suggestions"].state = "Ready" /\ Gestured(Edit(v, "add"))
PickPlaylist == Gestured(OpenPicker(v)) \/ \E id \in Ids : Gestured(PickerAdds(v, id))
SaveOffline == Gestured(Send(v, "pin", 0, NoId))
\* The 250 ms tick, and the player moving on to another track.
ViewTick ==
    \/ UNCHANGED viewsLeft /\ v' = LyricsTick(v)
    \/ v.section = "Diagnostics" /\ ViewSpend("refreshes") /\ v' = DiagTick(v, TRUE)
    \/ v.section = "Diagnostics" /\ UNCHANGED viewsLeft /\ v' = DiagTick(v, FALSE)
TrackChanges == ViewSpend("gestures") /\ \E id \in Ids : v' = [v EXCEPT !.playing = id]
RequestAnswered ==
    UNCHANGED viewsLeft /\ \E r \in BagToSet(v.requests), o \in {"ok", "empty"} : v' = Answered(v, r, o)
RequestFails == ViewSpend("faults") /\ \E r \in BagToSet(v.requests) : v' = Answered(v, r, "fails")

ViewNext ==
    \/ Navigate \/ Browse \/ ReadLyrics \/ Diagnose \/ EditPlaylists \/ AddSuggestion \/ PickPlaylist
    \/ SaveOffline \/ ViewTick \/ TrackChanges \/ RequestAnswered \/ RequestFails

-----------------------------------------------------------------------------
(***************************************************************************)
(* Properties.                                                             *)
(***************************************************************************)
MainPane(s) ==
    CASE s.section = "Library"     -> (CASE s.pane = "Browse"      -> Modes[s.mode]
                                         [] s.pane = "AlbumDetail" -> "album"
                                         [] OTHER                  -> "artist")
      [] s.section = "Playlists"   -> (CASE s.lists = "List"   -> "playlists"
                                         [] s.lists = "Detail" -> "playlist"
                                         [] OTHER              -> "suggestions")
      [] s.section = "Diagnostics" -> s.tab
      [] s.section = "Search"      -> "search"
      [] s.section = "Stations"    -> "stations"
      [] s.section = "Liked"       -> "liked"
      [] OTHER                     -> "downloads"

\* With the overlay, and what a detail shows beneath itself.
OnScreen(s) ==
    LET main == MainPane(s)
    IN  {main} \cup (IF s.lyrics_open THEN {"lyrics"} ELSE {})
               \cup (IF main = "album" /\ s.slot["album"].state = "Ready" THEN {"similar"} ELSE {})
               \cup (IF main = "latent" /\ s.slot["latent"].state = "Ready" THEN {"neighbours"} ELSE {})

\* The panes whose requests are numbered, and the last number given out.
Numbered == Browsing \cup {"search", "stations", "playlists"}
Newest(s, p) == s.generation[IF p \in Browsing THEN "library" ELSE p]

\* The panes asked for something by name, and what they were last asked for.
Named == {"albums", "search", "stations", "album", "artist", "playlist", "lyrics", "neighbours", "similar", "suggestions"}
Wanted(s, p) ==
    CASE p = "albums"                 -> s.kind
      [] p \in {"search", "stations"} -> s.query[p]
      [] p \in {"album", "artist", "playlist", "lyrics", "neighbours"} -> s.target[p]
      [] p = "similar"                -> s.target["album"]
      [] p = "suggestions"            -> s.target["playlist"]

\* Whatever order the answers come in: a browse list, a list of playlists, a search or
\* a station on screen answers the newest request of its pane; and a pane asked for
\* something by name shows what it was last asked for.  An album, artist, playlist,
\* document, footer or neighbour list carries no number: asked for twice, the older
\* answer may come last and show.  A diagnostics tab, the liked songs and the downloads
\* take whatever answer comes, and are not spoken of.
NothingStale ==
    \A p \in OnScreen(v) : v.slot[p].state = "Ready" =>
        /\ p \in Numbered => v.slot[p].by = Newest(v, p)
        /\ p \in Named => v.slot[p].of = Wanted(v, p)

=============================================================================
