------------------------------ MODULE MCTaste ------------------------------
(***************************************************************************)
(* The listener's signals, the recommendations made from them, and the      *)
(* playlists, on small instances.  The three parts start apart, each with   *)
(* bounds of its own; "slates" lets ratings, votes and plays run between    *)
(* the steps of two recommendation requests.                                *)
(***************************************************************************)
EXTENDS Recommend, Playlists

CONSTANTS s1, s2, i1, i2, i3

\* Two offline skips that arrive after newer ones, a lone play, votes, a guest.
E(id, type, track, at, heard, completion) ==
    [id |-> id, type |-> type, track |-> track, at |-> at, heard |-> heard, completion |-> completion]
Batch(es) == [kind |-> "events", guest |-> FALSE, batch |-> es]
Newer == Batch(<<E(i1, "skip", 1, 4, 1, 0)>>)
Older == Batch(<<E(i2, "skip", 1, 2, 1, 1), E(i3, "skip", 1, 3, 0, Nothing), E(i2, "skip", 1, 2, 1, 1)>>)
Played == [kind |-> "scrobble", guest |-> FALSE, batch |-> <<E(NoId, "scrobble", 1, 3, 0, 2)>>]
Other == [kind |-> "scrobble", guest |-> FALSE, batch |-> <<E(NoId, "scrobble", 4, 1, 0, 2)>>]
Late == [kind |-> "scrobble", guest |-> FALSE, batch |-> <<E(NoId, "scrobble", 1, 1, 0, 2)>>]
Up == [kind |-> "vote", guest |-> FALSE, track |-> 1, session |-> s1, dir |-> "up", at |-> 3]
Down == [kind |-> "vote", guest |-> FALSE, track |-> 2, session |-> s1, dir |-> "down", at |-> 1]
Unvote == [kind |-> "vote", guest |-> FALSE, track |-> 2, session |-> s1, dir |-> "none", at |-> 1]
Guest == [Newer EXCEPT !.guest = TRUE]
MCSignals == {Newer, Older, Played, Other, Late, Up, Down, Unvote, Guest}
\* What the clients send in one run of the part.
Programs == {{Newer, Older}, {Newer, Played, Guest}, {Older, Late}, {Played, Late}, {Newer, Up}, {Up, Down, Unvote}}

\* Six tracks: 6 is not embedded, 5 has no metadata, 1 and 2 are one title, 2 and
\* 5 point away from each other.
MCNear ==
    LET upper == << <<10, 9, 7, 4, 2>>, <<9, 10, 8, 1, -3>>, <<7, 8, 10, 6, 0>>,
                    <<4, 1, 6, 10, 5>>, <<2, -3, 0, 5, 10>> >>
    IN  [s \in 1..5 |-> [t \in 1..5 |-> upper[s][t]]]
Row(artist, album, name, parts) ==
    [artistId |-> artist, artist |-> "a", album |-> album, title |-> [name |-> name, parts |-> parts]]
MCMeta == (1 :> Row(11, 21, "x", <<>>)) @@ (2 :> Row(11, 22, "x", <<"live">>))
          @@ (3 :> Row(11, 21, "x", <<"live", "part 2">>)) @@ (4 :> Row(None, None, "z", <<>>))

Cfg(mode, cap, dedup, lambda, mu) ==
    [mode |-> mode, cap |-> cap, dedup |-> dedup, lambda |-> lambda, mu |-> mu]
Queue(queue, playing, cfg) == [given |-> TRUE, queue |-> queue, playing |-> playing, cfg |-> cfg]
NoQueue == [given |-> FALSE, queue |-> <<>>, playing |-> Nothing, cfg |-> Cfg("off", 0, FALSE, 0, 0)]
Refill(seeds, weights, qc) ==
    [kind |-> "from_seeds", seeds |-> seeds, weights |-> weights, perSeed |-> 5, sample |-> 2,
     n |-> 2, exclude |-> {}, qc |-> qc, session |-> s1, anchors |-> {1}, tau |-> 3, lambda |-> 10]
MmrRefill == Refill(<<1, 6>>, <<1, 1>>, Queue(<<1>>, 1, Cfg("mmr", 0, TRUE, 5, 1)))
CapRefill == Refill(<<4, 5, 1>>, <<2, 1, -1>>, Queue(<<4>>, 4, Cfg("hard_cap", 1, TRUE, 7, 1)))
More == [kind |-> "next", seeds |-> <<1>>, n |-> 2, qc |-> NoQueue]
Station == [kind |-> "station", text |-> MCNear[4], n |-> 2, qc |-> NoQueue]
FromAny(seeds, session, qc) ==
    [kind |-> "from_any", seeds |-> seeds, n |-> 2, qc |-> qc, session |-> session]
Unqueue == FromAny(<<6, 3>>, s2, NoQueue)
NoneIndexed == FromAny(<<6>>, Nothing, NoQueue)
Baseline == FromAny(<<3, 1>>, s1, Queue(<<5, 5>>, Nothing, Cfg("off", 0, FALSE, 0, 0)))
Albums == [kind |-> "similar", seeds |-> <<1, 4>>, perSeed |-> 2, sample |-> 1, n |-> 1,
           exclude |-> {22}, field |-> "album", qc |-> NoQueue]
\* Requests that overlap, and what happens meanwhile: signals, ratings, faults.
Scene(asks, signals, ratings, f) ==
    [asks |-> asks, signals |-> signals, ratings |-> ratings, faults |-> f]
Scenes ==
    { Scene({MmrRefill, CapRefill}, {Down}, 0, 0), Scene({MmrRefill, CapRefill}, {}, 0, 1),
      Scene({MmrRefill, More}, {Played}, 0, 0), Scene({MmrRefill, More}, {Other}, 0, 0),
      Scene({MmrRefill, More}, {}, 1, 0),
      Scene({CapRefill, Station}, {}, 0, 1), Scene({CapRefill, Station}, {}, 1, 0),
      Scene({Unqueue, Albums}, {}, 1, 1),
      Scene({NoneIndexed, Baseline}, {Down}, 1, 0) }
MCJitters == {[t \in 1..5 |-> 0], [t \in 1..5 |-> IF t = 4 THEN 3 ELSE 0]}

Edit(kind, user, list, tracks, visibility) ==
    [kind |-> kind, user |-> user, list |-> list, tracks |-> tracks, visibility |-> visibility]
MCEdits ==
    { Edit("create", 1, 1, <<>>, ""), Edit("create", 2, 1, <<>>, ""), Edit("create", 3, 1, <<>>, ""),
      Edit("append", 1, 1, <<1, 1, 2>>, ""), Edit("append", 1, 1, <<2>>, ""),
      Edit("replace", 1, 1, <<2, 2>>, ""), Edit("patch", 1, 1, <<>>, "shared"),
      Edit("append", 2, 1, <<1>>, ""), Edit("delete", 1, 1, <<>>, "") }

VARIABLES
    part,           \* which part runs
    rated           \* ratings the listener may still give
vars == <<part, rated, tasteVars, recVars, listVars>>

Opinions == {<<<<"track", 2>>, "dislike">>, <<<<"track", 2>>, "none">>,
             <<<<"album", 21>>, "dislike">>, <<<<"artist", 11>>, "dislike">>,
             <<<<"artist", 11>>, "like">>, <<<<"track", 4>>, "like">>}

Init ==
    /\ PlaylistsInit
    /\ \/ /\ part = "signals" /\ rated = 0
          /\ RecommendInit({}, TRUE)
          /\ \E p \in Programs, f \in {0, 1} : TasteInit(p, 2, f, <<>>)
       \/ /\ part = "slates"
          /\ \E s \in Scenes, old \in {<<>>, <<"track", 2>> :> "dislike"} :
                /\ rated = s.ratings
                /\ RecommendInit(s.asks, NoneIndexed \notin s.asks)
                /\ TasteInit(s.signals, 1, s.faults, old)
                /\ old = <<>> \/ rated = 1
       \/ /\ part = "playlists" /\ rated = 0
          /\ RecommendInit({}, TRUE) /\ TasteInit({}, 0, 0, <<>>)

Opine ==
    /\ rated > 0 /\ rated' = rated - 1
    /\ \E o \in Opinions : Rate(o[1], o[2])

Next ==
    /\ \/ part = "signals" /\ TasteNext /\ UNCHANGED <<rated, recVars, listVars>>
       \/ part = "slates" /\ RecommendNext /\ UNCHANGED <<rated, listVars>>
       \/ part = "slates" /\ TasteNext /\ Watch /\ UNCHANGED <<wanted, served, provenance, now, rated, listVars>>
       \/ part = "slates" /\ Opine /\ Watch /\ UNCHANGED <<wanted, served, provenance, now, listVars>>
       \/ part = "playlists" /\ PlaylistsNext /\ UNCHANGED <<rated, tasteVars, recVars>>
    /\ UNCHANGED part
Spec == Init /\ [][Next]_vars
Symmetric == Permutations(Callers) \cup Permutations(Handlers) \cup Permutations(Writers)
=============================================================================
