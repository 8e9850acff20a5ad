---------------------------- MODULE MCCatalogue ----------------------------
(***************************************************************************)
(* The gateway's catalogue work and caches, the terminal's audio cache and  *)
(* the limiters on small instances: parts that share no state, each         *)
(* explored on its own, with bounds of its own.                             *)
(***************************************************************************)
EXTENDS Ingest, Lyrics, AudioCache, RateLimit, AutoProjection, ProxyCache, TLC

CONSTANTS small, large, second, third, song, list,   \* cache keys
          al1, al2, al3, mf1, Album                  \* cover ids, and the art of an album

\* Ingest: scans, refits, boots, store faults and refusals.
B(s, r, b, f, n) == [scans |-> s, refits |-> r, boots |-> b, faults |-> f, refusals |-> n]
MCBudgets == {B(1, 1, 2, 0, 0), B(1, 0, 2, 1, 0), B(2, 0, 1, 0, 0), B(1, 1, 1, 0, 1), B(1, 0, 2, 0, 1)}

MCListed == [s \in Songs |-> IF s \in Nameless THEN "none" ELSE "exact"]
MCLyricsBudget == [requests |-> 2, refreshes |-> 1, outages |-> 1, departures |-> 1]

MCBytes == [k \in Entries |-> 1]
MCRegular == <<2, 1>>
A(f, p, u, e, x) == [fetches |-> f, pins |-> p, unpins |-> u, evictions |-> e, failures |-> x]
MCAudioBounds == {A(3, 1, 1, 1, 0), A(3, 0, 0, 1, 1), A(2, 1, 1, 0, 1)}

\* Covers: two sizes of one album, two albums without art, a track of the first.
MCIdOf == small :> al1 @@ large :> al1 @@ second :> al2 @@ third :> al3 @@ song :> mf1
MCArt == al1 :> Album @@ al2 :> Missing @@ al3 :> Missing @@ mf1 :> Album

Asked(keys, visits, turns) == [keys |-> keys, visits |-> visits, turns |-> turns]
StandInScene == ProxyInit(second :> Default @@ third :> Default, {}, Asked({small, second}, 3, 1))
AlbumScene == ProxyInit(large :> Album @@ song :> Album, {al1, mf1}, Asked({small, large}, 2, 1))
BrowseScene == ProxyInit(<<>>, {}, Asked({list}, 3, 2))

VARIABLE part

vars == <<part, ingestVars, lyricsVars, audioVars, limitVars, projVars, proxyVars>>
Init == /\ part \in {"ingest", "lyrics", "audio", "logins", "windows", "projection", "proxy"}
        /\ IngestInit /\ LyricsInit /\ AudioInit /\ LimitInit /\ ProjInit
        /\ part # "ingest" => budget = B(2, 0, 1, 0, 0)
        /\ part # "audio" => audioLeft = A(2, 1, 1, 0, 1)
        /\ BrowseScene \/ (part = "proxy" /\ (StandInScene \/ AlbumScene))
Next ==
    /\ \/ part = "ingest" /\ IngestNext /\ UNCHANGED <<lyricsVars, audioVars, limitVars, projVars, proxyVars>>
       \/ part = "lyrics" /\ LyricsNext /\ UNCHANGED <<ingestVars, audioVars, limitVars, projVars, proxyVars>>
       \/ part = "audio" /\ AudioNext /\ UNCHANGED <<ingestVars, lyricsVars, limitVars, projVars, proxyVars>>
       \/ part = "logins" /\ LoginNext /\ UNCHANGED <<ingestVars, lyricsVars, audioVars, projVars, proxyVars>>
       \/ part = "windows" /\ WindowNext /\ UNCHANGED <<ingestVars, lyricsVars, audioVars, projVars, proxyVars>>
       \/ part = "projection" /\ ProjNext /\ UNCHANGED <<ingestVars, lyricsVars, audioVars, limitVars, proxyVars>>
       \/ part = "proxy" /\ ProxyNext /\ UNCHANGED <<ingestVars, lyricsVars, audioVars, limitVars, projVars>>
    /\ UNCHANGED part
Spec == Init /\ [][Next]_vars
Symmetric == Permutations(Workers)

\* One part alone.
OutageSpec == Init /\ part = "ingest" /\ [][Next]_vars
ProjectionSpec == Init /\ part = "projection" /\ [][Next]_vars
=============================================================================
