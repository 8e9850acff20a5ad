--------------------------- MODULE TerminalProofs ---------------------------
(* Proofs about the terminal's reducer, for any tracks, queues, gestures and *)
(* answers, in whatever order the answers come.  Autoplay: the refill lock   *)
(* and the optimistic votes are backed by what is under way.  The views: no  *)
(* screen shows what it was not asked for.  Playback: the queue in a room is *)
(* the room's, a load gets one verdict of each kind, a remote is silent.     *)
EXTENDS TuiPlayback, TuiAutoplay, TuiViews, TLAPS

-----------------------------------------------------------------------------
(* Autoplay.                                                                 *)

AutoFields == {"enabled", "inflight", "generation", "cooling", "online", "queue", "recommended",
               "pending_push", "wire", "refills", "votes", "feedback_inflight", "writes",
               "session", "stored", "filed", "doubtful"}

\* The lock stands for the one refill of this generation; the others are older.
RefillsBacked(inflight, refills, generation) ==
    /\ generation \in Nat /\ inflight \in BOOLEAN
    /\ inflight <=> \E r \in refills : r.generation = generation
    /\ \A r, q \in refills : r.generation = q.generation => r = q
    /\ \A r \in refills : r.generation \in Nat /\ r.generation <= generation

\* What this device's votes left at the gateway, in the session each track was last
\* voted in.
Left(stored, filed) == [t \in TrackId |-> stored[<<t, filed[t]>>]]

\* A write knows the vote it makes and the one it would restore; what has no write
\* out for it, and lost no answer, is what was left at the gateway.
VotesBacked(votes, kept, doubtful, busy, writes) ==
    /\ votes \in [TrackId -> Opinion]
    /\ \A w \in writes :
         /\ w.track \in TrackId => w.vote = votes[w.track]
         /\ w.track \in TrackId \ doubtful => w.previous = kept[w.track]
    /\ \A w, x \in writes : w.track = x.track => w = x
    /\ \A w \in writes : w.track \in busy
    /\ \A t \in TrackId \ (doubtful \cup {w.track : w \in writes}) : votes[t] = kept[t]

\* A write is filed under a session, and a thumb restored is one.
Filing(s) ==
    /\ s.session \in Sessions /\ s.filed \in [TrackId -> Sessions]
    /\ s.stored \in [TrackId \X Sessions -> Opinion]
    /\ \A w \in s.writes : w.session \in Sessions /\ w.vote \in Opinion
                            /\ (w.track \in TrackId => w.previous \in Opinion)

Backed(s) ==
    /\ DOMAIN s = AutoFields
    /\ RefillsBacked(s.inflight, s.refills, s.generation)
    /\ VotesBacked(s.votes, Left(s.stored, s.filed), s.doubtful, s.feedback_inflight, s.writes)
    /\ Filing(s)

\* The steps that leave the refills, the lock and the votes alone.
SameVotes(s, u) ==
    /\ u.votes = s.votes /\ u.stored = s.stored /\ u.filed = s.filed /\ u.doubtful = s.doubtful
    /\ u.feedback_inflight = s.feedback_inflight /\ u.writes = s.writes /\ u.session = s.session
Untouched(s, u) ==
    /\ DOMAIN u = DOMAIN s /\ u.inflight = s.inflight /\ u.refills = s.refills /\ u.generation = s.generation
    /\ SameVotes(s, u)

LEMMA UntouchedBacked == ASSUME NEW s, NEW u, Backed(s), Untouched(s, u) PROVE Backed(u)
BY DEF Backed, Untouched, SameVotes, Filing

\* MaybeRefill takes the lock only when it is free, and asks then.
LEMMA MaybeRefillBacked == ASSUME NEW s, Backed(s) PROVE Backed(MaybeRefill(s))
<1> DEFINE s2 == Reconcile(s)
           ask == [generation |-> s.generation, need |-> Shortfall(s2),
                   seeds |-> BuildSeeds(s.queue.items, s.queue.current, s2.recommended, NoTrack)]
           s3 == [s2 EXCEPT !.inflight = TRUE, !.refills = @ \cup {ask}]
<1>1. Untouched(s, s2)
  <2> DEFINE u == [s EXCEPT !.recommended = @ \cap QueueTracks(s)]
  <2>1. Untouched(s, u)
    BY DEF Untouched, SameVotes, Backed, AutoFields
  <2>2. s2 = [u EXCEPT !.pending_push = @ \ QueueTracks(s)]
    BY DEF Reconcile
  <2>3. DOMAIN u = AutoFields
    BY <2>1 DEF Untouched, Backed
  <2> HIDE DEF u
  <2>4. Untouched(u, s2)
    BY <2>2, <2>3 DEF Untouched, SameVotes, AutoFields
  <2> QED BY <2>1, <2>4 DEF Untouched, SameVotes
<1>2. Backed(s2) /\ s2.generation = s.generation
  BY <1>1, UntouchedBacked DEF Untouched
<1>3. CASE ~s.enabled \/ s.inflight \/ s.cooling \/ s.queue.current = 0
  BY <1>3 DEF MaybeRefill
<1>4. CASE ~(~s.enabled \/ s.inflight \/ s.cooling \/ s.queue.current = 0)
  <2>1. CASE Shortfall(s2) <= 0
    BY <1>2, <1>4, <2>1 DEF MaybeRefill
  <2>2. CASE ~(Shortfall(s2) <= 0)
    <3>1. MaybeRefill(s) = s3
      BY <1>4, <2>2 DEF MaybeRefill
    <3>2. ask.generation = s.generation
      OBVIOUS
    <3> HIDE DEF ask, s2
    <3>3. /\ DOMAIN s3 = AutoFields /\ s3.inflight = TRUE /\ s3.refills = s2.refills \cup {ask}
          /\ s3.generation = s2.generation /\ SameVotes(s2, s3)
      BY <1>2 DEF Backed, AutoFields, SameVotes
    <3> HIDE DEF s3
    <3>4. ~(s2.inflight)
      BY <1>1, <1>4 DEF Untouched
    <3>5. RefillsBacked(s3.inflight, s3.refills, s3.generation)
      <4>1. RefillsBacked(FALSE, s2.refills, s.generation)
        BY <1>2, <3>4 DEF Backed, RefillsBacked
      <4>2. RefillsBacked(TRUE, s2.refills \cup {ask}, s.generation)
        BY <3>2, <4>1 DEF RefillsBacked
      <4> QED BY <1>2, <3>3, <4>2
    <3> QED BY <1>2, <3>1, <3>3, <3>5 DEF Backed, SameVotes, Filing
  <2> QED BY <2>1, <2>2
<1> QED BY <1>3, <1>4


\* The key gives a new generation, whose lock is free: the refills under way are
\* all older.
LEMMA ToggledBacked == ASSUME NEW s, Backed(s) PROVE Backed(Toggled(s))
<1> DEFINE s1 == [s EXCEPT !.enabled = ~@, !.generation = @ + 1, !.inflight = FALSE]
           s2 == [s1 EXCEPT !.cooling = FALSE, !.pending_push = {}]
<1>1. /\ DOMAIN s1 = AutoFields /\ s1.generation = s.generation + 1 /\ s1.inflight = FALSE
      /\ s1.refills = s.refills /\ SameVotes(s, s1)
  BY DEF Backed, AutoFields, SameVotes
<1>2. RefillsBacked(FALSE, s.refills, s.generation + 1)
  BY DEF Backed, RefillsBacked
<1>3. Toggled(s) = IF s2.enabled THEN MaybeRefill(s2) ELSE s2
  BY DEF Toggled
<1> HIDE DEF s1
<1>4. Backed(s1)
  BY <1>1, <1>2 DEF Backed, SameVotes, Filing
<1>5. Untouched(s1, s2)
  BY <1>1 DEF Untouched, SameVotes, AutoFields
<1> HIDE DEF s2
<1>6. Backed(s2)
  BY <1>4, <1>5, UntouchedBacked
<1> QED BY <1>3, <1>6, MaybeRefillBacked

\* An answer of this generation releases the lock; an older one changes nothing.
LEMMA RefilledBacked ==
    ASSUME NEW s, Backed(s), NEW r \in s.refills, NEW tracks
    PROVE  Backed(Refilled([s EXCEPT !.refills = @ \ {r}], r, tracks))
<1> DEFINE s1 == [s EXCEPT !.refills = @ \ {r}]
           s2 == [s1 EXCEPT !.inflight = FALSE, !.cooling = TRUE]
<1>1. /\ DOMAIN s1 = AutoFields /\ s1.refills = s.refills \ {r} /\ s1.generation = s.generation
      /\ s1.inflight = s.inflight /\ SameVotes(s, s1)
  BY DEF Backed, AutoFields, SameVotes
<1> HIDE DEF s1
<1>2. CASE r.generation # s.generation
  <2>1. Refilled(s1, r, tracks) = s1
    BY <1>1, <1>2 DEF Refilled
  <2>2. RefillsBacked(s.inflight, s.refills \ {r}, s.generation)
    BY <1>2 DEF Backed, RefillsBacked
  <2> QED BY <1>1, <2>1, <2>2 DEF Backed, SameVotes, Filing, s1
<1>3. CASE r.generation = s.generation
  <2>1. /\ DOMAIN s2 = AutoFields /\ s2.refills = s1.refills /\ s2.generation = s1.generation
        /\ s2.inflight = FALSE /\ SameVotes(s1, s2)
    BY <1>1 DEF AutoFields, SameVotes
  <2> HIDE DEF s2
  <2>2. RefillsBacked(FALSE, s.refills \ {r}, s.generation)
    BY <1>3 DEF Backed, RefillsBacked
  <2>3. Backed(s2)
    BY <1>1, <2>1, <2>2 DEF Backed, SameVotes, Filing
  <2>4. PICK added, fresh, pending :
          Refilled(s1, r, tracks)
            = Pushed([s2 EXCEPT !.recommended = @ \cup added, !.pending_push = pending], fresh)
    BY <1>1, <1>3 DEF Refilled, s2
  <2> DEFINE s3 == [s2 EXCEPT !.recommended = @ \cup added, !.pending_push = pending]
  <2>5. Untouched(s2, s3)
    BY <2>1 DEF Untouched, SameVotes, AutoFields
  <2>6. DOMAIN s3 = AutoFields
    BY <2>1, <2>5 DEF Untouched
  <2> HIDE DEF s3
  <2>7. Untouched(s3, Pushed(s3, fresh))
    BY <2>6 DEF Untouched, SameVotes, Pushed, AutoFields
  <2> QED BY <2>3, <2>4, <2>5, <2>7, UntouchedBacked DEF s3, s1
<1> QED BY <1>2, <1>3 DEF s1

\* A thumb is taken only for a track with no write out.
LEMMA ThumbBacked == ASSUME Backed(ap), NEW vote \in {"up", "down"}, Thumb(vote) PROVE Backed(ap')
<1> DEFINE t == Current(ap.queue)
           target == IF ap.votes[t] = vote THEN "none" ELSE vote
           w == [track |-> t, vote |-> target, previous |-> ap.votes[t], session |-> ap.session]
           newVotes == [ap.votes EXCEPT ![t] = target]
           kept == Left(ap.stored, ap.filed)
<1>1. t \notin ap.feedback_inflight
  BY DEF Thumb
<1>2. ap' = [ap EXCEPT !.votes = newVotes, !.feedback_inflight = @ \cup {t}, !.writes = @ \cup {w}]
  BY DEF Thumb
<1>3. target \in Opinion
  BY DEF Opinion
<1>4. w.track = t /\ w.vote = target /\ w.previous = ap.votes[t] /\ w.session = ap.session
  OBVIOUS
<1>5. VotesBacked(ap.votes, kept, ap.doubtful, ap.feedback_inflight, ap.writes)
  BY DEF Backed
<1> HIDE DEF t, target, w, kept
<1>6. /\ DOMAIN ap' = AutoFields /\ ap'.votes = newVotes /\ ap'.stored = ap.stored /\ ap'.filed = ap.filed
      /\ ap'.feedback_inflight = ap.feedback_inflight \cup {t} /\ ap'.writes = ap.writes \cup {w}
      /\ ap'.inflight = ap.inflight /\ ap'.refills = ap.refills /\ ap'.generation = ap.generation
      /\ ap'.doubtful = ap.doubtful /\ ap'.session = ap.session
  BY <1>2 DEF Backed, AutoFields
<1>7. newVotes \in [TrackId -> Opinion]
      /\ \A u \in TrackId : newVotes[u] = IF u = t THEN target ELSE ap.votes[u]
  BY <1>3, <1>5 DEF VotesBacked
<1>8. t \notin {x.track : x \in ap.writes}
  BY <1>1, <1>5 DEF VotesBacked
<1> HIDE DEF newVotes
<1>9. VotesBacked(newVotes, kept, ap.doubtful, ap.feedback_inflight \cup {t}, ap.writes \cup {w})
  <2>1. t \in TrackId \ ap.doubtful => ap.votes[t] = kept[t]
    BY <1>5, <1>8 DEF VotesBacked
  <2> QED BY <1>4, <1>5, <1>7, <1>8, <2>1 DEF VotesBacked
<1>10. Filing(ap')
  <2>1. t \in TrackId => ap.votes[t] \in Opinion
    BY <1>5 DEF VotesBacked
  <2>2. Filing(ap)
    BY DEF Backed
  <2> QED BY <1>3, <1>4, <1>6, <2>1, <2>2 DEF Filing
<1> QED BY <1>6, <1>9, <1>10 DEF Backed, kept


\* A write that landed shows what it left; one rolled back shows what was left before,
\* unless it was stored.
LEMMA FeedbackBacked ==
    ASSUME Backed(ap), NEW w \in ap.writes, FeedbackDone(w) \/ FeedbackFails(w) \/ FeedbackAnswerLost(w)
    PROVE  Backed(ap')
<1> DEFINE t == w.track
           k == <<t, w.session>>
           kept == Left(ap.stored, ap.filed)
           newStored == [ap.stored EXCEPT ![k] = w.vote]
           newFiled == [ap.filed EXCEPT ![t] = w.session]
           newVotes == [ap.votes EXCEPT ![t] = w.previous]
           busy == ap.feedback_inflight \ {t}
           writes == ap.writes \ {w}
<1>1. VotesBacked(ap.votes, kept, ap.doubtful, ap.feedback_inflight, ap.writes) /\ Filing(ap)
  BY DEF Backed
<1>2. \A x \in writes : x.track # t /\ x.track \in busy
  BY <1>1 DEF VotesBacked
<1>3. {x.track : x \in ap.writes} = {x.track : x \in writes} \cup {t}
  OBVIOUS
<1>4. /\ newStored \in [TrackId \X Sessions -> Opinion]
      /\ newFiled \in [TrackId -> Sessions]
      /\ \A u \in TrackId, x \in Sessions : u # t => newStored[<<u, x>>] = ap.stored[<<u, x>>]
      /\ \A u \in TrackId : newFiled[u] = IF u = t THEN w.session ELSE ap.filed[u]
      /\ t \in TrackId => newStored[<<t, w.session>>] = w.vote
  BY <1>1 DEF Filing
<1>5. /\ \A x, y \in writes : x.track = y.track => x = y
      /\ \A x \in writes : x.session \in Sessions /\ x.vote \in Opinion
                           /\ (x.track \in TrackId => x.previous \in Opinion)
  BY <1>1 DEF VotesBacked, Filing
<1>6. newVotes \in [TrackId -> Opinion]
      /\ \A u \in TrackId : newVotes[u] = IF u = t THEN w.previous ELSE ap.votes[u]
  BY <1>1 DEF VotesBacked, Filing
<1>7. kept = [u \in TrackId |-> ap.stored[<<u, ap.filed[u]>>]]
  BY DEF Left
<1>8. CASE FeedbackDone(w)
  <2> DEFINE newKept == Left(newStored, newFiled)
             sure == ap.doubtful \ {t}
  <2>1. ap' = [ap EXCEPT !.writes = writes, !.feedback_inflight = busy,
                         !.stored = newStored, !.filed = newFiled, !.doubtful = sure]
    BY <1>8 DEF FeedbackDone
  <2> HIDE DEF newStored, newFiled, busy, writes, t
  <2>2. \A u \in TrackId : newKept[u] = IF u = t THEN w.vote ELSE kept[u]
    BY <1>1, <1>4, <1>7 DEF Left, Filing
  <2> HIDE DEF newKept, sure
  <2>3. /\ DOMAIN ap' = AutoFields /\ ap'.votes = ap.votes /\ ap'.stored = newStored /\ ap'.filed = newFiled
        /\ ap'.feedback_inflight = busy /\ ap'.writes = writes /\ ap'.session = ap.session
        /\ ap'.inflight = ap.inflight /\ ap'.refills = ap.refills /\ ap'.generation = ap.generation
        /\ ap'.doubtful = sure
    BY <2>1 DEF Backed, AutoFields
  <2>4. VotesBacked(ap.votes, newKept, sure, busy, writes)
    <3>1. \A x \in writes : /\ x.track \in TrackId => x.vote = ap.votes[x.track]
                            /\ x.track \in TrackId \ sure => x.previous = newKept[x.track]
      BY <1>1, <1>2, <2>2 DEF VotesBacked, writes, sure
    <3>2. t \in TrackId => w.vote = ap.votes[t]
      BY <1>1 DEF VotesBacked, t
    <3>3. \A u \in TrackId \ (sure \cup {x.track : x \in writes}) : ap.votes[u] = newKept[u]
      BY <1>1, <1>3, <2>2, <3>2 DEF VotesBacked, sure
    <3> QED BY <1>1, <1>2, <1>5, <3>1, <3>3 DEF VotesBacked
  <2>5. Filing(ap')
    BY <1>1, <1>4, <1>5, <2>3 DEF Filing
  <2> QED BY <2>3, <2>4, <2>5 DEF Backed, newKept
<1>9. RolledBack(w) = [ap EXCEPT !.writes = writes, !.feedback_inflight = busy, !.votes = newVotes]
  BY DEF RolledBack
<1> DEFINE s == RolledBack(w)
<1> HIDE DEF newVotes, newStored, newFiled, busy, writes, t, k
<1>10. /\ DOMAIN s = AutoFields /\ s.votes = newVotes /\ s.stored = ap.stored /\ s.filed = ap.filed
       /\ s.feedback_inflight = busy /\ s.writes = writes /\ s.session = ap.session
       /\ s.inflight = ap.inflight /\ s.refills = ap.refills /\ s.generation = ap.generation
       /\ s.doubtful = ap.doubtful
  BY <1>9 DEF Backed, AutoFields
<1> HIDE DEF s, kept
<1>11. \A x \in writes : x.track \in TrackId => x.vote = newVotes[x.track]
  BY <1>1, <1>2, <1>6 DEF VotesBacked, writes
<1>12. CASE FeedbackFails(w)
  <2>1. ap' = s
    BY <1>12 DEF FeedbackFails, s
  <2>2. VotesBacked(newVotes, kept, ap.doubtful, busy, writes)
    <3>1. \A x \in writes : x.track \in TrackId \ ap.doubtful => x.previous = kept[x.track]
      BY <1>1 DEF VotesBacked, writes
    <3>2. t \in TrackId \ ap.doubtful => w.previous = kept[t]
      BY <1>1 DEF VotesBacked, t
    <3>3. \A u \in TrackId \ (ap.doubtful \cup {x.track : x \in writes}) : newVotes[u] = kept[u]
      BY <1>1, <1>3, <1>6, <3>2 DEF VotesBacked
    <3> QED BY <1>2, <1>5, <1>6, <1>11, <3>1, <3>3 DEF VotesBacked
  <2>3. Filing(ap')
    BY <1>1, <1>5, <1>10, <2>1 DEF Filing
  <2> QED BY <1>10, <2>1, <2>2, <2>3 DEF Backed, kept
<1>13. CASE FeedbackAnswerLost(w)
  <2> DEFINE newKept == Left(newStored, ap.filed)
             doubtful == ap.doubtful \cup {t}
  <2>1. ap' = [s EXCEPT !.stored = newStored, !.doubtful = doubtful]
    BY <1>10, <1>13 DEF FeedbackAnswerLost, s, t, k, newStored
  <2>2. \A u \in TrackId : u # t => newKept[u] = kept[u]
    BY <1>1, <1>4, <1>7 DEF Left, Filing, kept
  <2> HIDE DEF newKept, doubtful
  <2>3. /\ DOMAIN ap' = AutoFields /\ ap'.votes = newVotes /\ ap'.stored = newStored /\ ap'.filed = ap.filed
        /\ ap'.feedback_inflight = busy /\ ap'.writes = writes /\ ap'.session = ap.session
        /\ ap'.inflight = ap.inflight /\ ap'.refills = ap.refills /\ ap'.generation = ap.generation
        /\ ap'.doubtful = doubtful
    BY <1>10, <2>1 DEF AutoFields
  <2>4. VotesBacked(newVotes, newKept, doubtful, busy, writes)
    <3>1. \A x \in writes : x.track \in TrackId \ doubtful => x.previous = newKept[x.track]
      BY <1>1, <1>2, <2>2 DEF VotesBacked, writes, doubtful
    <3>2. \A u \in TrackId \ (doubtful \cup {x.track : x \in writes}) : newVotes[u] = newKept[u]
      BY <1>1, <1>3, <1>6, <2>2 DEF VotesBacked, doubtful
    <3> QED BY <1>2, <1>5, <1>6, <1>11, <3>1, <3>2 DEF VotesBacked
  <2>5. Filing(ap')
    BY <1>1, <1>4, <1>5, <2>3 DEF Filing
  <2> QED BY <2>3, <2>4, <2>5 DEF Backed, newKept
<1> QED BY <1>8, <1>12, <1>13

\* The room and the connection move on, or a tick comes.
LEMMA RoomMovesBacked ==
    ASSUME Backed(ap),
           \/ AutoTick \/ PushEchoed \/ CursorMoves \/ ConnectionTurns
           \/ (\E x \in Sessions : SessionMoves(x)) \/ \E i \in DOMAIN ap.queue.items : ListenerRemoves(i)
    PROVE  Backed(ap')
<1>1. DOMAIN ap = AutoFields
  BY DEF Backed
<1>2. CASE AutoTick
  <2>1. PICK cooling : ap' = MaybeRefill([ap EXCEPT !.cooling = cooling])
    BY <1>2 DEF AutoTick
  <2> DEFINE s == [ap EXCEPT !.cooling = cooling]
  <2>2. Untouched(ap, s)
    BY <1>1 DEF Untouched, SameVotes, AutoFields
  <2> HIDE DEF s
  <2> QED BY <2>1, <2>2, UntouchedBacked, MaybeRefillBacked DEF s
<1>3. CASE PushEchoed
  BY <1>1, <1>3, UntouchedBacked DEF PushEchoed, Untouched, SameVotes, AutoFields
<1>4. CASE CursorMoves
  BY <1>1, <1>4, UntouchedBacked DEF CursorMoves, Untouched, SameVotes, AutoFields
<1>5. CASE ConnectionTurns
  BY <1>1, <1>5, UntouchedBacked DEF ConnectionTurns, Untouched, SameVotes, AutoFields
<1>6. CASE \E i \in DOMAIN ap.queue.items : ListenerRemoves(i)
  BY <1>1, <1>6, UntouchedBacked DEF ListenerRemoves, Untouched, SameVotes, AutoFields
<1>7. CASE \E x \in Sessions : SessionMoves(x)
  <2>1. PICK x \in Sessions, t \in TrackId : ap' = [ap EXCEPT !.session = x, !.queue = Replace(<<t>>, 1)]
    BY <1>7 DEF SessionMoves
  <2>2. /\ DOMAIN ap' = AutoFields /\ ap'.inflight = ap.inflight /\ ap'.refills = ap.refills
        /\ ap'.generation = ap.generation /\ ap'.votes = ap.votes /\ ap'.stored = ap.stored
        /\ ap'.filed = ap.filed /\ ap'.doubtful = ap.doubtful
        /\ ap'.feedback_inflight = ap.feedback_inflight /\ ap'.writes = ap.writes /\ ap'.session = x
    BY <1>1, <2>1 DEF AutoFields
  <2> QED BY <2>2 DEF Backed, Filing
<1> QED BY <1>2, <1>3, <1>4, <1>5, <1>6, <1>7

\* autoplay.rs: the lock is held exactly while one refill of this generation is out,
\* and a track with no write out shows the vote that this device left at the gateway, in
\* the session it was last voted in, unless a stored vote's answer was lost.
THEOREM AutoplayStaysBacked == AutoInit /\ [][AutoNext]_autoVars => []AutoplayBacked
<1>1. AutoInit => Backed(ap)
  <2> SUFFICES ASSUME NEW s \in AutoStarts, ap = s.app PROVE Backed(ap)
    BY DEF AutoInit
  <2>1. RefillsBacked(ap.inflight, ap.refills, ap.generation)
    <3>1. ap.generation \in Nat /\ ap.inflight = FALSE /\ ap.refills = {}
      BY AutoAssumption
    <3>2. RefillsBacked(FALSE, {}, ap.generation)
      BY <3>1 DEF RefillsBacked
    <3> QED BY <3>1, <3>2
  <2>2. VotesBacked(ap.votes, Left(ap.stored, ap.filed), ap.doubtful, ap.feedback_inflight, ap.writes)
    BY AutoAssumption DEF VotesBacked, Left
  <2>3. Filing(ap)
    BY AutoAssumption DEF Filing
  <2> QED BY <2>1, <2>2, <2>3, AutoAssumption DEF Backed, AutoFields
<1>2. Backed(ap) /\ [AutoNext]_autoVars => Backed(ap)'
  <2> SUFFICES ASSUME Backed(ap), [AutoNext]_autoVars PROVE Backed(ap')
    OBVIOUS
  <2>1. CASE ToggleAutoplay
    BY <2>1, ToggledBacked DEF ToggleAutoplay
  <2>2. CASE \E r \in ap.refills : RefillAnswered(r)
    <3>1. PICK r \in ap.refills : RefillAnswered(r)
      BY <2>2
    <3>2. PICK tracks : ap' = Refilled([ap EXCEPT !.refills = @ \ {r}], r, tracks)
      BY <3>1 DEF RefillAnswered
    <3> QED BY <3>2, RefilledBacked
  <2>3. CASE \E vote \in {"up", "down"} : Thumb(vote)
    BY <2>3, ThumbBacked
  <2>4. CASE \E w \in ap.writes : FeedbackDone(w) \/ FeedbackFails(w) \/ FeedbackAnswerLost(w)
    BY <2>4, FeedbackBacked
  <2>5. CASE UNCHANGED autoVars
    BY <2>5 DEF autoVars
  <2> QED BY <2>1, <2>2, <2>3, <2>4, <2>5, RoomMovesBacked DEF AutoNext
<1>3. Backed(ap) => AutoplayBacked
  BY DEF Backed, RefillsBacked, VotesBacked, AutoplayBacked, Left
<1> QED BY <1>1, <1>2, <1>3, PTL

-----------------------------------------------------------------------------
(* The views.                                                                *)

ViewFields == {"section", "pane", "lists", "mode", "kind", "slot", "nav_return", "generation", "target",
               "query", "playing", "lyrics_open", "refreshing", "tab", "window", "point",
               "pending_delete", "requests"}
Targets == {"album", "artist", "playlist", "lyrics", "neighbours"}
Asked(s) == BagToSet(s.requests)

ViewShape(s) ==
    /\ DOMAIN s = ViewFields /\ DOMAIN s.slot = Slots /\ DOMAIN s.target = Targets
    /\ DOMAIN s.query = {"search", "stations"}
    /\ DOMAIN s.generation = {"library", "search", "stations", "playlists"}
    /\ s.mode \in 1 .. 3 /\ s.tab \in Tabs /\ s.lists \in {"List", "Detail", "Suggestions"}

\* A pane whose answers carry a generation: only the latest request is told apart from
\* it, and asks for what is wanted now.
Latest(p, held, wanted, now, asked) ==
    /\ now \in Nat
    /\ held.state = "Ready" => held.of = wanted
    /\ \A r \in asked : r.slot = p => /\ r.generation \in Nat /\ r.generation <= now
                                      /\ r.generation = now => r.of = wanted

\* A pane whose answers carry an id: what it shows is its target.
Targeted(slot, target) ==
    /\ \A p \in Targets : slot[p].state = "Ready" => slot[p].of = target[p]
    /\ slot["similar"].state = "Ready" => slot["similar"].of = target["album"]

\* Suggestions are of the open playlist, and there is one whenever it or they show.
Listed(slot, target, lists, asked) ==
    /\ slot["suggestions"].state = "Ready" =>
         target["playlist"] = NoId \/ slot["suggestions"].of = target["playlist"]
    /\ slot["playlist"].state = "Ready" \/ lists = "Suggestions" => target["playlist"] # NoId
    /\ \A r \in asked : r.slot \in {"playlist", "rename", "set", "add"} => r.of # NoId

\* The browse list of the current mode, the playlists, a search and a station show the
\* answer of the newest request.
Fresh(slot, mode, generation) ==
    /\ slot[Modes[mode]].state = "Ready" => slot[Modes[mode]].by = generation["library"]
    /\ \A p \in {"search", "stations", "playlists"} : slot[p].state = "Ready" => slot[p].by = generation[p]

ViewOK(s) ==
    /\ ViewShape(s) /\ Fresh(s.slot, s.mode, s.generation)
    /\ Latest("albums", s.slot["albums"], s.kind, s.generation["library"], Asked(s))
    /\ Latest("search", s.slot["search"], s.query["search"], s.generation["search"], Asked(s))
    /\ Latest("stations", s.slot["stations"], s.query["stations"], s.generation["stations"], Asked(s))
    /\ s.generation["playlists"] \in Nat
    /\ Targeted(s.slot, s.target)
    /\ Listed(s.slot, s.target, s.lists, Asked(s))

\* What the screen holds is what was last asked for.
LEMMA ViewOKSuffices == ViewOK(v) => NothingStale
<1> SUFFICES ASSUME ViewOK(v), NEW p \in OnScreen(v), v.slot[p].state = "Ready"
             PROVE  /\ p \in Numbered => v.slot[p].by = Newest(v, p)
                    /\ p \in Named => v.slot[p].of = Wanted(v, p)
  BY DEF NothingStale
<1>0. /\ MainPane(v) \in Slots
      /\ MainPane(v) \in Browsing => MainPane(v) = Modes[v.mode]
      /\ MainPane(v) = "suggestions" => v.lists \notin {"List", "Detail"}
  <2>1. Modes[v.mode] \in {"albums", "artists", "songs"} /\ v.tab \in {"recommender", "latent"}
    BY DEF ViewOK, ViewShape, Modes, Tabs
  <2> QED BY <2>1 DEF MainPane, Slots, Browsing, Tabs
<1>7. p \in Numbered => v.slot[p].by = Newest(v, p)
  <2>1. p \in Browsing => p = Modes[v.mode]
    BY <1>0 DEF OnScreen, Browsing
  <2>2. CASE p \in Browsing
    BY <2>1, <2>2 DEF ViewOK, Fresh, Newest
  <2>3. CASE p \in {"search", "stations", "playlists"}
    BY <2>3 DEF ViewOK, Fresh, Newest, Browsing
  <2> QED BY <2>2, <2>3 DEF Numbered
<1> SUFFICES ASSUME p \in Named PROVE v.slot[p].of = Wanted(v, p)
  BY <1>7
<1>1. p \in {"albums", "search", "stations", "similar", "suggestions"} \cup Targets
  BY DEF Named, Targets
<1>2. CASE p = "albums"
  BY <1>2 DEF ViewOK, Latest, Wanted
<1>3. CASE p \in {"search", "stations"}
  BY <1>3 DEF ViewOK, Latest, Wanted
<1>4. CASE p \in Targets
  <2>1. Wanted(v, p) = v.target[p]
    BY <1>4 DEF Wanted, Targets
  <2> QED BY <2>1, <1>4 DEF ViewOK, Targeted
<1>5. CASE p = "similar"
  BY <1>5 DEF ViewOK, Targeted, Wanted
<1>6. CASE p = "suggestions"
  <2>1. v.lists = "Suggestions"
    BY <1>0, <1>6 DEF OnScreen, ViewOK, ViewShape
  <2> QED BY <2>1, <1>6 DEF ViewOK, Listed, Wanted
<1> QED BY <1>1, <1>2, <1>3, <1>4, <1>5, <1>6

\* The requests under way, after one more or one less.
LEMMA OneMoreAsked ==
    ASSUME NEW bag, NEW r PROVE BagToSet(bag (+) SetToBag({r})) = BagToSet(bag) \cup {r}
BY DEF (+), BagToSet, SetToBag
LEMMA AskedMore ==
    ASSUME NEW s, NEW u, NEW r, u.requests = s.requests (+) SetToBag({r})
    PROVE  Asked(u) = Asked(s) \cup {r}
BY OneMoreAsked DEF Asked
LEMMA OneLessAsked ==
    ASSUME NEW bag, NEW r PROVE BagToSet(bag (-) SetToBag({r})) \subseteq BagToSet(bag)
BY DEF (-), BagToSet, SetToBag

\* What the invariant looks at.
SameView(s, u) ==
    /\ DOMAIN u = ViewFields /\ u.lists = s.lists /\ u.mode = s.mode /\ u.kind = s.kind /\ u.slot = s.slot
    /\ u.generation = s.generation /\ u.target = s.target /\ u.query = s.query /\ u.tab \in Tabs
    /\ Asked(u) \subseteq Asked(s)
LEMMA SameViewOK == ASSUME NEW s, NEW u, ViewOK(s), SameView(s, u) PROVE ViewOK(u)
BY DEF ViewOK, ViewShape, SameView, Latest, Targeted, Listed

\* What is still shown after some panes were cleared.
Fewer(slot, slot2) ==
    DOMAIN slot2 = Slots /\ \A q \in Slots : slot2[q] = slot[q] \/ slot2[q].state # "Ready"

LEMMA FewerFresh ==
    ASSUME NEW slot, NEW slot2, NEW mode \in 1 .. 3, NEW generation,
           Fresh(slot, mode, generation), Fewer(slot, slot2)
    PROVE  Fresh(slot2, mode, generation)
<1>1. Modes[mode] \in Slots /\ {"search", "stations", "playlists"} \subseteq Slots
  BY DEF Modes, Slots, Browsing
<1> QED BY <1>1 DEF Fresh, Fewer

\* A pane that stops showing anything.
LEMMA SlotCleared ==
    ASSUME NEW s, ViewOK(s), NEW p, NEW held, held.state # "Ready", NEW u,
           u = [s EXCEPT !.slot[p] = held]
    PROVE  ViewOK(u)
<1> DEFINE slot2 == [s.slot EXCEPT ![p] = held]
<1>1. /\ DOMAIN u = ViewFields /\ u.slot = slot2
      /\ u.lists = s.lists /\ u.mode = s.mode /\ u.kind = s.kind /\ u.generation = s.generation
      /\ u.target = s.target /\ u.query = s.query /\ u.tab = s.tab /\ u.requests = s.requests
  BY DEF ViewOK, ViewShape, ViewFields
<1>2. DOMAIN slot2 = Slots /\ \A q \in Slots : slot2[q] = s.slot[q] \/ slot2[q].state # "Ready"
  BY DEF ViewOK, ViewShape
<1>3. {"albums", "search", "stations", "similar", "suggestions"} \cup Targets \subseteq Slots
  BY DEF Slots, Browsing, Targets
<1>4. Fresh(slot2, s.mode, s.generation)
  BY <1>2, FewerFresh DEF Fewer, ViewOK, ViewShape
<1> HIDE DEF slot2
<1> QED BY <1>1, <1>2, <1>3, <1>4 DEF ViewOK, ViewShape, Latest, Targeted, Listed, Asked
LEMMA LoadingOK == ASSUME NEW s, ViewOK(s), NEW p PROVE ViewOK(Loading(s, p))
BY SlotCleared DEF Loading

\* A request that asks for what is wanted.
Proper(s, p, generation, of) ==
    /\ p = "albums" => generation = s.generation["library"] /\ of = s.kind
    /\ p \in {"search", "stations"} => generation = s.generation[p] /\ of = s.query[p]
    /\ p \in {"playlist", "rename", "set", "add"} => of # NoId
LEMMA SendOK ==
    ASSUME NEW s, ViewOK(s), NEW p, NEW generation, NEW of, Proper(s, p, generation, of)
    PROVE  ViewOK(Send(s, p, generation, of))
<1> DEFINE r == [slot |-> p, generation |-> generation, of |-> of]
           u == Send(s, p, generation, of)
<1>1. /\ DOMAIN u = ViewFields /\ u.slot = s.slot /\ u.requests = s.requests (+) SetToBag({r})
      /\ u.lists = s.lists /\ u.mode = s.mode /\ u.kind = s.kind /\ u.generation = s.generation
      /\ u.target = s.target /\ u.query = s.query /\ u.tab = s.tab
  BY DEF ViewOK, ViewShape, ViewFields, Send
<1>2. Asked(u) = Asked(s) \cup {r}
  <2> HIDE DEF r, u
  <2> QED BY <1>1, AskedMore
<1>3. r.slot = p /\ r.generation = generation /\ r.of = of
  OBVIOUS
<1> HIDE DEF r, u
<1>4. Latest("albums", u.slot["albums"], u.kind, u.generation["library"], Asked(u))
  BY <1>1, <1>2, <1>3 DEF ViewOK, Latest, Proper
<1>5. ASSUME NEW q \in {"search", "stations"}
      PROVE  Latest(q, u.slot[q], u.query[q], u.generation[q], Asked(u))
  <2>1. Latest(q, s.slot[q], s.query[q], s.generation[q], Asked(s))
    BY <1>5 DEF ViewOK
  <2>2. p = q => generation = s.generation[q] /\ of = s.query[q]
    BY <1>5 DEF Proper
  <2> QED BY <1>1, <1>2, <1>3, <2>1, <2>2 DEF Latest
<1>6. Listed(u.slot, u.target, u.lists, Asked(u))
  BY <1>1, <1>2, <1>3 DEF ViewOK, Listed, Proper
<1>7. ViewOK(u)
  BY <1>1, <1>4, <1>5, <1>6 DEF ViewOK, ViewShape
<1> QED BY <1>7 DEF u

\* Panes recognised by nothing but their slot or their target.
LEMMA AskOK ==
    ASSUME NEW s, ViewOK(s), NEW p, p \notin {"albums", "search", "stations"}, NEW of,
           p \in {"playlist", "rename", "set", "add"} => of # NoId
    PROVE  ViewOK(Ask(s, p, of))
BY LoadingOK, SendOK DEF Ask, Proper

\* What a list is wanted for, replaced: everything asked before is of an older generation.
LEMMA NewGeneration ==
    ASSUME NEW p, NEW held, NEW held2, NEW old, NEW wanted, NEW now, NEW asked, NEW asked2, NEW r,
           Latest(p, held, old, now, asked), held2.state # "Ready",
           asked2 = asked \cup {r}, r.slot = p => r.generation = now + 1 /\ r.of = wanted
    PROVE  Latest(p, held2, wanted, now + 1, asked2)
BY DEF Latest

\* [ and ], h and l, a first visit: the browse list is asked for anew.
LEMMA ReloadBrowseOK ==
    ASSUME NEW s, ViewOK(s), NEW s0, DOMAIN s0 = ViewFields,
           s0.mode \in 1 .. 3, s0.slot = s.slot, s0.generation = s.generation, s0.target = s.target,
           s0.query = s.query, s0.tab = s.tab, s0.lists = s.lists, s0.requests = s.requests,
           s0.mode = 1 \/ s0.kind = s.kind
    PROVE  ViewOK(ReloadBrowse(s0))
<1> DEFINE of == IF s0.mode = 1 THEN s0.kind ELSE NoId
           p == Modes[s0.mode]
           s1 == [s0 EXCEPT !.generation["library"] = @ + 1]
           s2 == Loading(s1, p)
           r == [slot |-> p, generation |-> s1.generation["library"], of |-> of]
           u == ReloadBrowse(s0)
           now == s.generation["library"]
<1>1. u = [s2 EXCEPT !.requests = @ (+) SetToBag({r})]
  BY DEF ReloadBrowse, Bumped, Send
<1>2. /\ DOMAIN s1 = ViewFields /\ s1.generation = [s.generation EXCEPT !["library"] = now + 1]
      /\ s1.mode = s0.mode /\ s1.slot = s.slot /\ s1.target = s.target /\ s1.query = s.query
      /\ s1.tab = s.tab /\ s1.lists = s.lists /\ s1.requests = s.requests /\ s1.kind = s0.kind
  BY DEF ViewFields
<1> HIDE DEF s1
<1>3. /\ DOMAIN s2 = ViewFields /\ s2.slot = [s.slot EXCEPT ![p] = [state |-> "Loading", of |-> NoId, by |-> 0]]
      /\ s2.mode = s0.mode /\ s2.generation = s1.generation /\ s2.target = s.target /\ s2.query = s.query
      /\ s2.tab = s.tab /\ s2.lists = s.lists /\ s2.requests = s.requests /\ s2.kind = s0.kind
  BY <1>2 DEF ViewFields, Loading
<1> HIDE DEF s2
<1>4. /\ DOMAIN u = ViewFields /\ u.slot = s2.slot /\ u.requests = s.requests (+) SetToBag({r})
      /\ u.mode = s0.mode /\ u.generation = s1.generation /\ u.target = s.target /\ u.query = s.query
      /\ u.tab = s.tab /\ u.lists = s.lists /\ u.kind = s0.kind
  BY <1>1, <1>3 DEF ViewFields
<1>5. Asked(u) = Asked(s) \cup {r}
  <2> HIDE DEF r, u
  <2> QED BY <1>4, AskedMore
<1>6. /\ p \in Browsing /\ p \in Slots /\ (p = "albums" <=> s0.mode = 1)
      /\ r.slot = p /\ r.of = of /\ r.generation = now + 1
  BY <1>2 DEF Modes, Browsing, Slots, ViewOK, ViewShape
<1>7. /\ DOMAIN u.slot = Slots /\ u.slot[p].state # "Ready"
      /\ \A q \in Slots \ {p} : u.slot[q] = s.slot[q]
      /\ DOMAIN u.generation = DOMAIN s.generation /\ u.generation["library"] = now + 1
      /\ \A g \in {"search", "stations", "playlists"} : u.generation[g] = s.generation[g]
  BY <1>2, <1>3, <1>4, <1>6 DEF ViewOK, ViewShape
<1> HIDE DEF r, u, p
<1>8. Latest("albums", u.slot["albums"], u.kind, u.generation["library"], Asked(u))
  <2>1. CASE p = "albums"
    BY <1>4, <1>5, <1>6, <1>7, <2>1 DEF ViewOK, Latest
  <2>2. CASE p # "albums"
    <3>1. u.slot["albums"] = s.slot["albums"] /\ u.kind = s.kind
      BY <1>4, <1>6, <1>7, <2>2 DEF Slots, Browsing
    <3> QED BY <1>5, <1>6, <1>7, <2>2, <3>1 DEF ViewOK, Latest
  <2> QED BY <2>1, <2>2
<1>9. {"search", "stations", "similar", "suggestions"} \cup Targets \subseteq Slots \ Browsing
  BY DEF Slots, Browsing, Targets
<1>10. ASSUME NEW q \in {"search", "stations"}
       PROVE  Latest(q, u.slot[q], u.query[q], u.generation[q], Asked(u))
  <2>1. Latest(q, s.slot[q], s.query[q], s.generation[q], Asked(s))
    BY <1>10 DEF ViewOK
  <2>2. u.slot[q] = s.slot[q] /\ u.query[q] = s.query[q] /\ u.generation[q] = s.generation[q] /\ p # q
    BY <1>4, <1>6, <1>7, <1>9, <1>10
  <2> QED BY <1>5, <1>6, <2>1, <2>2 DEF Latest
<1>11. Targeted(u.slot, u.target)
  BY <1>4, <1>6, <1>7, <1>9 DEF ViewOK, Targeted
<1>12. Listed(u.slot, u.target, u.lists, Asked(u))
  BY <1>4, <1>5, <1>6, <1>7, <1>9 DEF ViewOK, Listed, Browsing, Targets
<1>13. Fresh(u.slot, u.mode, u.generation)
  <2>1. {"search", "stations", "playlists"} \subseteq Slots \ Browsing
    BY DEF Slots, Browsing
  <2>2. \A q \in {"search", "stations", "playlists"} : u.slot[q] = s.slot[q]
    BY <1>6, <1>7, <2>1
  <2>3. u.slot[Modes[u.mode]].state # "Ready"
    BY <1>4, <1>7 DEF p
  <2> QED BY <1>7, <2>2, <2>3 DEF ViewOK, Fresh
<1>14. ViewOK(u)
  BY <1>4, <1>7, <1>8, <1>10, <1>11, <1>12, <1>13 DEF ViewOK, ViewShape
<1> QED BY <1>14 DEF u

\* A search or a station: the text is new, and so is the generation.
LEMMA SubmitOK ==
    ASSUME NEW s, ViewOK(s), NEW p \in {"search", "stations"}, NEW text
    PROVE  ViewOK(Bumped([s EXCEPT !.query[p] = text], p, p, text))
<1> DEFINE s0 == [s EXCEPT !.query[p] = text]
           s1 == [s0 EXCEPT !.generation[p] = @ + 1]
           s2 == Loading(s1, p)
           r == [slot |-> p, generation |-> s1.generation[p], of |-> text]
           u == Bumped(s0, p, p, text)
           now == s.generation[p]
<1>0. /\ DOMAIN s0 = ViewFields /\ s0.query = [s.query EXCEPT ![p] = text]
      /\ s0.mode = s.mode /\ s0.slot = s.slot /\ s0.target = s.target /\ s0.generation = s.generation
      /\ s0.tab = s.tab /\ s0.lists = s.lists /\ s0.requests = s.requests /\ s0.kind = s.kind
  BY DEF ViewFields, ViewOK, ViewShape
<1>1. u = [s2 EXCEPT !.requests = @ (+) SetToBag({r})]
  BY DEF Bumped, Send
<1> HIDE DEF s0
<1>2. /\ DOMAIN s1 = ViewFields /\ s1.generation = [s.generation EXCEPT ![p] = now + 1]
      /\ s1.mode = s.mode /\ s1.slot = s.slot /\ s1.target = s.target /\ s1.query = s0.query
      /\ s1.tab = s.tab /\ s1.lists = s.lists /\ s1.requests = s.requests /\ s1.kind = s.kind
  BY <1>0 DEF ViewFields
<1> HIDE DEF s1
<1>3. /\ DOMAIN s2 = ViewFields /\ s2.slot = [s.slot EXCEPT ![p] = [state |-> "Loading", of |-> NoId, by |-> 0]]
      /\ s2.mode = s.mode /\ s2.generation = s1.generation /\ s2.target = s.target /\ s2.query = s0.query
      /\ s2.tab = s.tab /\ s2.lists = s.lists /\ s2.requests = s.requests /\ s2.kind = s.kind
  BY <1>2 DEF ViewFields, Loading
<1> HIDE DEF s2
<1>4. /\ DOMAIN u = ViewFields /\ u.slot = s2.slot /\ u.requests = s.requests (+) SetToBag({r})
      /\ u.mode = s.mode /\ u.generation = s1.generation /\ u.target = s.target /\ u.query = s0.query
      /\ u.tab = s.tab /\ u.lists = s.lists /\ u.kind = s.kind
  BY <1>1, <1>3 DEF ViewFields
<1>5. Asked(u) = Asked(s) \cup {r}
  <2> HIDE DEF r, u
  <2> QED BY <1>4, AskedMore
<1>6. p \in Slots /\ r.slot = p /\ r.of = text /\ r.generation = now + 1
  BY <1>2 DEF Slots, ViewOK, ViewShape
<1>7. /\ DOMAIN u.slot = Slots /\ u.slot[p].state # "Ready" /\ DOMAIN u.query = DOMAIN s.query
      /\ \A q \in Slots \ {p} : u.slot[q] = s.slot[q]
      /\ DOMAIN u.generation = DOMAIN s.generation /\ u.generation[p] = now + 1
      /\ \A g \in DOMAIN s.generation \ {p} : u.generation[g] = s.generation[g]
      /\ u.query[p] = text /\ \A q \in DOMAIN s.query \ {p} : u.query[q] = s.query[q]
  BY <1>0, <1>2, <1>3, <1>4, <1>6 DEF ViewOK, ViewShape
<1> HIDE DEF r, u
<1>8. {"albums", "search", "stations", "similar", "suggestions"} \cup Targets \subseteq Slots
  BY DEF Slots, Browsing, Targets
<1>9. ViewShape(s) /\ "library" \in DOMAIN s.generation /\ "playlists" \in DOMAIN s.generation
  BY DEF ViewOK, ViewShape
<1>10. Latest("albums", u.slot["albums"], u.kind, u.generation["library"], Asked(u))
  BY <1>4, <1>5, <1>6, <1>7, <1>8, <1>9 DEF ViewOK, Latest
<1>11. ASSUME NEW q \in {"search", "stations"}
       PROVE  Latest(q, u.slot[q], u.query[q], u.generation[q], Asked(u))
  <2>1. Latest(q, s.slot[q], s.query[q], s.generation[q], Asked(s)) /\ q \in DOMAIN s.query \cap DOMAIN s.generation
    BY <1>11 DEF ViewOK, ViewShape
  <2>2. CASE q = p
    BY <1>5, <1>6, <1>7, <2>1, <2>2 DEF Latest
  <2>3. CASE q # p
    <3>1. u.slot[q] = s.slot[q] /\ u.query[q] = s.query[q] /\ u.generation[q] = s.generation[q]
      BY <1>7, <1>8, <2>1, <2>3
    <3> QED BY <1>5, <1>6, <2>1, <2>3, <3>1 DEF Latest
  <2> QED BY <2>2, <2>3
<1>12. Targeted(u.slot, u.target)
  BY <1>4, <1>6, <1>7, <1>8 DEF ViewOK, Targeted, Targets
<1>13. Listed(u.slot, u.target, u.lists, Asked(u))
  BY <1>4, <1>5, <1>6, <1>7, <1>8 DEF ViewOK, Listed, Targets
<1>14. u.generation["playlists"] \in Nat
  BY <1>7, <1>9 DEF ViewOK
<1>15. Fresh(u.slot, u.mode, u.generation)
  <2>1. u.slot[Modes[u.mode]] = s.slot[Modes[s.mode]] /\ u.generation["library"] = s.generation["library"]
    BY <1>4, <1>7, <1>9 DEF ViewShape, Modes, Slots, Browsing
  <2>2. ASSUME NEW q \in {"search", "stations", "playlists"}
        PROVE  u.slot[q].state # "Ready" \/ (u.slot[q] = s.slot[q] /\ u.generation[q] = s.generation[q])
    BY <1>7, <1>9 DEF ViewShape, Slots
  <2> QED BY <2>1, <2>2 DEF ViewOK, Fresh
<1>16. ViewOK(u)
  BY <1>4, <1>7, <1>9, <1>10, <1>11, <1>12, <1>13, <1>14, <1>15 DEF ViewOK, ViewShape
<1> QED BY <1>16 DEF u, s0

\* The playlists are told apart by generation, but all ask for the same.
LEMMA ReloadListOK == ASSUME NEW s, ViewOK(s) PROVE ViewOK(ReloadList(s))
<1> DEFINE s1 == [s EXCEPT !.generation["playlists"] = @ + 1]
           w == Loading(s1, "playlists")
<1>1. /\ DOMAIN w = ViewFields /\ w.generation = [s.generation EXCEPT !["playlists"] = @ + 1]
      /\ w.mode = s.mode /\ w.target = s.target /\ w.query = s.query /\ w.tab = s.tab
      /\ w.lists = s.lists /\ w.requests = s.requests /\ w.kind = s.kind
      /\ w.slot = [s.slot EXCEPT !["playlists"] = [state |-> "Loading", of |-> NoId, by |-> 0]]
  BY DEF ViewFields, ViewOK, ViewShape, Loading
<1>2. w.generation["playlists"] = s1.generation["playlists"]
  BY DEF ViewFields, ViewOK, ViewShape, Loading
<1> HIDE DEF w, s1
<1>3. /\ DOMAIN w.generation = DOMAIN s.generation /\ w.generation["playlists"] \in Nat
      /\ \A g \in DOMAIN s.generation \ {"playlists"} : w.generation[g] = s.generation[g]
      /\ DOMAIN w.slot = Slots /\ w.slot["playlists"].state # "Ready"
      /\ \A p \in Slots \ {"playlists"} : w.slot[p] = s.slot[p]
  <2>1. DOMAIN s.slot = Slots /\ "playlists" \in Slots /\ DOMAIN s.generation = {"library", "search", "stations", "playlists"}
    BY DEF ViewOK, ViewShape, Slots
  <2>2. s.generation["playlists"] \in Nat
    BY DEF ViewOK
  <2> QED BY <1>1, <2>1, <2>2
<1>4. {"albums", "search", "stations", "similar", "suggestions"} \cup Targets \cup Browsing \subseteq Slots \ {"playlists"}
  BY DEF Slots, Browsing, Targets
<1>5. ViewShape(s) /\ {"library", "search", "stations"} \subseteq DOMAIN s.generation \ {"playlists"}
  BY DEF ViewOK, ViewShape
<1>6. Fresh(w.slot, w.mode, w.generation)
  <2>1. Modes[s.mode] \in Browsing
    BY <1>5 DEF ViewShape, Modes, Browsing
  <2> QED BY <1>1, <1>3, <1>4, <1>5, <2>1 DEF ViewOK, Fresh
<1>7. Asked(w) = Asked(s)
  BY <1>1 DEF Asked
<1>8. /\ w.slot["albums"] = s.slot["albums"] /\ w.generation["library"] = s.generation["library"]
      /\ \A q \in {"search", "stations"} : w.slot[q] = s.slot[q] /\ w.generation[q] = s.generation[q]
  BY <1>3, <1>4, <1>5
<1>9. Targeted(w.slot, w.target) /\ Listed(w.slot, w.target, w.lists, Asked(w))
  BY <1>1, <1>3, <1>4, <1>7 DEF ViewOK, Targeted, Listed, Targets
<1>10. ViewOK(w)
  BY <1>1, <1>3, <1>5, <1>6, <1>7, <1>8, <1>9 DEF ViewOK, ViewShape
<1>11. ViewOK(Send(w, "playlists", w.generation["playlists"], NoId))
  BY <1>10, SendOK DEF Proper
<1> QED BY <1>2, <1>11 DEF ReloadList, Bumped, s1, w

\* A detail is asked for under a new target, which its pane does not show yet.
LEMMA RetargetOK ==
    ASSUME NEW s, ViewOK(s), NEW u, NEW p \in Targets, NEW of, p = "playlist" => of # NoId,
           DOMAIN u = ViewFields, u.mode = s.mode, u.kind = s.kind, u.generation = s.generation,
           u.query = s.query, u.tab = s.tab, u.requests = s.requests,
           u.target = [s.target EXCEPT ![p] = of], Fewer(s.slot, u.slot),
           p = "album" => u.slot["similar"].state # "Ready",
           p = "playlist" => u.slot["suggestions"].state # "Ready",
           u.lists = s.lists \/ u.lists = "Detail"
    PROVE  ViewOK(Ask(u, p, of))
<1> DEFINE w == Loading(u, p)
<1>1. /\ DOMAIN w = ViewFields /\ w.slot = [u.slot EXCEPT ![p] = [state |-> "Loading", of |-> NoId, by |-> 0]]
      /\ w.mode = s.mode /\ w.kind = s.kind /\ w.generation = s.generation /\ w.query = s.query
      /\ w.tab = s.tab /\ w.requests = s.requests /\ w.target = u.target /\ w.lists = u.lists
  BY DEF ViewFields, Loading
<1> HIDE DEF w
<1>2. {"albums", "search", "stations", "similar", "suggestions"} \cup Targets \subseteq Slots
  BY DEF Slots, Browsing, Targets
<1>3. /\ Fewer(s.slot, w.slot) /\ w.slot[p].state # "Ready"
      /\ p = "album" => w.slot["similar"].state # "Ready"
      /\ p = "playlist" => w.slot["suggestions"].state # "Ready"
  BY <1>1, <1>2 DEF Fewer, Targets
<1>4. DOMAIN w.target = Targets /\ w.target[p] = of /\ \A q \in Targets \ {p} : w.target[q] = s.target[q]
  BY <1>1 DEF ViewOK, ViewShape
<1>5. Targeted(w.slot, w.target)
  <2>1. Targeted(s.slot, s.target)
    BY DEF ViewOK
  <2>2. "album" \in Targets
    BY DEF Targets
  <2> QED BY <1>2, <1>3, <1>4, <2>1, <2>2 DEF Targeted, Fewer
<1>6. Listed(w.slot, w.target, w.lists, Asked(w))
  <2>1. Listed(s.slot, s.target, s.lists, Asked(s)) /\ Asked(w) = Asked(s)
    BY <1>1 DEF ViewOK, Asked
  <2>2. "playlist" \in Targets
    BY DEF Targets
  <2> QED BY <1>1, <1>2, <1>3, <1>4, <2>1, <2>2 DEF Listed, Fewer
<1>7. /\ w.slot["albums"].state = "Ready" => w.slot["albums"] = s.slot["albums"]
      /\ \A q \in {"search", "stations"} : w.slot[q].state = "Ready" => w.slot[q] = s.slot[q]
  BY <1>2, <1>3 DEF Fewer
<1>8. Fresh(w.slot, w.mode, w.generation)
  BY <1>1, <1>3, FewerFresh DEF ViewOK, ViewShape
<1>9. ViewOK(w)
  BY <1>1, <1>3, <1>4, <1>5, <1>6, <1>7, <1>8 DEF ViewOK, ViewShape, Latest, Fewer, Asked
<1>10. Proper(w, p, 0, of)
  BY DEF Proper, Targets
<1> QED BY <1>9, <1>10, SendOK DEF Ask, w

LEMMA OpenAlbumOK == ASSUME NEW s, ViewOK(s), NEW id PROVE ViewOK(OpenAlbum(s, id))
<1> DEFINE slot2 == [s.slot EXCEPT !["similar"] = Empty]
           u == [s EXCEPT !.nav_return = <<s.section, s.pane>>, !.section = "Library", !.pane = "AlbumDetail",
                          !.slot["similar"] = Empty, !.target["album"] = id]
<1>1. /\ DOMAIN u = ViewFields /\ u.mode = s.mode /\ u.kind = s.kind /\ u.generation = s.generation
      /\ u.query = s.query /\ u.tab = s.tab /\ u.requests = s.requests
      /\ u.target = [s.target EXCEPT !["album"] = id] /\ u.slot = slot2 /\ u.lists = s.lists
  BY DEF ViewOK, ViewShape, ViewFields
<1>2. Fewer(s.slot, slot2) /\ slot2["similar"].state # "Ready"
  BY DEF Fewer, ViewOK, ViewShape, Slots, Empty
<1>3. ViewOK(Ask(u, "album", id))
  <2> HIDE DEF u, slot2
  <2> QED BY <1>1, <1>2, RetargetOK DEF Targets
<1> QED BY <1>3 DEF OpenAlbum

LEMMA OpenArtistOK == ASSUME NEW s, ViewOK(s), NEW id PROVE ViewOK(OpenArtist(s, id))
<1> DEFINE u == [s EXCEPT !.nav_return = <<s.section, s.pane>>, !.section = "Library", !.pane = "ArtistDetail",
                          !.target["artist"] = id]
<1>1. /\ DOMAIN u = ViewFields /\ u.mode = s.mode /\ u.kind = s.kind /\ u.generation = s.generation
      /\ u.query = s.query /\ u.tab = s.tab /\ u.requests = s.requests
      /\ u.target = [s.target EXCEPT !["artist"] = id] /\ u.slot = s.slot /\ u.lists = s.lists
  BY DEF ViewOK, ViewShape, ViewFields
<1>2. Fewer(s.slot, s.slot)
  BY DEF Fewer, ViewOK, ViewShape
<1>3. ViewOK(Ask(u, "artist", id))
  <2> HIDE DEF u
  <2> QED BY <1>1, <1>2, RetargetOK DEF Targets
<1> QED BY <1>3 DEF OpenArtist

LEMMA OpenDetailOK == ASSUME NEW s, ViewOK(s), NEW id \in Ids PROVE ViewOK(OpenDetail(s, id))
<1> DEFINE slot2 == [s.slot EXCEPT !["suggestions"] = Empty]
           u == [s EXCEPT !.lists = "Detail", !.slot["suggestions"] = Empty, !.target["playlist"] = id]
<1>1. /\ DOMAIN u = ViewFields /\ u.mode = s.mode /\ u.kind = s.kind /\ u.generation = s.generation
      /\ u.query = s.query /\ u.tab = s.tab /\ u.requests = s.requests
      /\ u.target = [s.target EXCEPT !["playlist"] = id] /\ u.slot = slot2 /\ u.lists = "Detail"
  BY DEF ViewOK, ViewShape, ViewFields
<1>2. Fewer(s.slot, slot2) /\ slot2["suggestions"].state # "Ready"
  BY DEF Fewer, ViewOK, ViewShape, Slots, Empty
<1>3. ViewOK(Ask(u, "playlist", id))
  <2> HIDE DEF u, slot2
  <2> QED BY <1>1, <1>2, RetargetOK, ViewAssumption DEF Targets
<1> QED BY <1>3 DEF OpenDetail

\* A tab's data and a tab's neighbours.
LEMMA LoadActiveOK == ASSUME NEW s, ViewOK(s) PROVE ViewOK(LoadActive(s)) /\ LoadActive(s).tab = s.tab
<1> DEFINE s2 == IF s.slot[s.tab].state = "Idle" THEN Loading(s, s.tab) ELSE s
<1>1. ViewOK(s2)
  BY LoadingOK
<1>2. s2.tab = s.tab /\ s.tab \in Tabs /\ DOMAIN s2 = ViewFields
  BY <1>1 DEF Loading, ViewOK, ViewShape, ViewFields
<1> HIDE DEF s2
<1>3. Proper(s2, s.tab, 0, s.window)
  BY <1>2 DEF Proper, Tabs
<1>4. ViewOK(Send(s2, s.tab, 0, s.window)) /\ Send(s2, s.tab, 0, s.window).tab = s.tab
  BY <1>1, <1>2, <1>3, SendOK DEF Send, ViewFields
<1> QED BY <1>4 DEF LoadActive, s2

LEMMA NeighboursOK == ASSUME NEW s, ViewOK(s) PROVE ViewOK(MaybeFetchNeighbours(s))
<1> DEFINE u == [s EXCEPT !.target["neighbours"] = s.point]
<1>1. /\ DOMAIN u = ViewFields /\ u.mode = s.mode /\ u.kind = s.kind /\ u.generation = s.generation
      /\ u.query = s.query /\ u.tab = s.tab /\ u.requests = s.requests
      /\ u.target = [s.target EXCEPT !["neighbours"] = s.point] /\ u.slot = s.slot /\ u.lists = s.lists
  BY DEF ViewOK, ViewShape, ViewFields
<1>2. Fewer(s.slot, s.slot)
  BY DEF Fewer, ViewOK, ViewShape
<1>3. ViewOK(Ask(u, "neighbours", s.point))
  <2> HIDE DEF u
  <2> QED BY <1>1, <1>2, RetargetOK DEF Targets
<1> QED BY <1>3 DEF MaybeFetchNeighbours

LEMMA LoadIfStaleOK == ASSUME NEW s, ViewOK(s), NEW track PROVE ViewOK(LoadIfStale(s, track))
<1> DEFINE u == [s EXCEPT !.target["lyrics"] = track]
<1>1. /\ DOMAIN u = ViewFields /\ u.mode = s.mode /\ u.kind = s.kind /\ u.generation = s.generation
      /\ u.query = s.query /\ u.tab = s.tab /\ u.requests = s.requests
      /\ u.target = [s.target EXCEPT !["lyrics"] = track] /\ u.slot = s.slot /\ u.lists = s.lists
  BY DEF ViewOK, ViewShape, ViewFields
<1>2. Fewer(s.slot, s.slot)
  BY DEF Fewer, ViewOK, ViewShape
<1>3. ViewOK(Ask(u, "lyrics", track))
  <2> HIDE DEF u
  <2> QED BY <1>1, <1>2, RetargetOK DEF Targets
<1> QED BY <1>3 DEF LoadIfStale

\* The gestures.
LEMMA GoSectionOK == ASSUME NEW s, ViewOK(s), NEW section PROVE ViewOK(GoSection(s, section))
<1> DEFINE s2 == [s EXCEPT !.section = section]
<1>1. ViewOK(s2) /\ SameView(s, s2)
  <2>1. SameView(s, s2)
    BY DEF SameView, ViewOK, ViewShape, ViewFields, Asked
  <2> QED BY <2>1, SameViewOK
<1> HIDE DEF s2
<1>2. ViewOK(ReloadBrowse(s2))
  <2>1. /\ DOMAIN s2 = ViewFields /\ s2.mode \in 1 .. 3
    BY <1>1 DEF ViewOK, ViewShape
  <2> QED BY <1>1, <2>1, ReloadBrowseOK
<1>3. ViewOK(Ask(s2, "liked", NoId)) /\ ViewOK(Ask(s2, "downloads", NoId))
  BY <1>1, AskOK
<1>4. ViewOK(ReloadList(s2)) /\ ViewOK(LoadActive(s2))
  BY <1>1, ReloadListOK, LoadActiveOK
<1>5. GoSection(s, section) \in {s2, ReloadBrowse(s2), Ask(s2, "liked", NoId), Ask(s2, "downloads", NoId),
                                 ReloadList(s2), LoadActive(s2)}
  BY DEF GoSection, s2
<1> QED BY <1>1, <1>2, <1>3, <1>4, <1>5

LEMMA BackOK == ASSUME NEW s, ViewOK(s) PROVE ViewOK(Back(s))
<1>1. s.lists \in {"List", "Detail", "Suggestions"} /\ DOMAIN s = ViewFields
  BY DEF ViewOK, ViewShape
<1>2. CASE ~s.lyrics_open /\ s.section = "Playlists"
  <2> DEFINE lists2 == IF s.lists = "Suggestions" THEN "Detail" ELSE "List"
             u == [s EXCEPT !.lists = lists2]
  <2>1. Back(s) = u
    BY <1>1, <1>2 DEF Back, ViewFields
  <2>2. lists2 \in {"List", "Detail"}
    OBVIOUS
  <2> HIDE DEF lists2
  <2>3. /\ DOMAIN u = ViewFields /\ u.lists = lists2 /\ u.mode = s.mode /\ u.kind = s.kind /\ u.slot = s.slot
        /\ u.generation = s.generation /\ u.target = s.target /\ u.query = s.query /\ u.tab = s.tab
        /\ u.requests = s.requests
    BY <1>1 DEF ViewFields
  <2> HIDE DEF u
  <2>4. ViewOK(u)
    BY <2>2, <2>3 DEF ViewOK, ViewShape, Listed, Asked
  <2> QED BY <2>1, <2>4
<1>3. CASE ~(~s.lyrics_open /\ s.section = "Playlists")
  <2>1. \/ Back(s) = s
        \/ Back(s) = [s EXCEPT !.lyrics_open = FALSE]
        \/ Back(s) = [s EXCEPT !.pane = "Browse"]
        \/ Back(s) = [s EXCEPT !.section = s.nav_return[1], !.pane = s.nav_return[2],
                               !.nav_return = <<"none", "none">>]
    BY <1>3 DEF Back
  <2>2. SameView(s, Back(s))
    BY <1>1, <2>1 DEF SameView, ViewOK, ViewShape, ViewFields, Asked
  <2> QED BY <2>2, SameViewOK
<1> QED BY <1>2, <1>3

LEMMA CycleModeOK == ASSUME NEW s, ViewOK(s) PROVE ViewOK(CycleMode(s))
<1> DEFINE u == [s EXCEPT !.mode = (@ % 3) + 1]
<1>1. ViewShape(s)
  BY DEF ViewOK
<1>2. /\ DOMAIN u = ViewFields /\ u.mode = (s.mode % 3) + 1 /\ u.slot = s.slot /\ u.generation = s.generation
      /\ u.target = s.target /\ u.query = s.query /\ u.tab = s.tab /\ u.lists = s.lists
      /\ u.requests = s.requests /\ u.kind = s.kind
  BY <1>1 DEF ViewShape, ViewFields
<1>3. (s.mode % 3) + 1 \in 1 .. 3
  BY <1>1 DEF ViewShape
<1>4. ViewOK(ReloadBrowse(u))
  <2> HIDE DEF u
  <2> QED BY <1>2, <1>3, ReloadBrowseOK
<1> QED BY <1>4 DEF CycleMode

LEMMA CycleKindOK == ASSUME NEW s, ViewOK(s), NEW kind PROVE ViewOK(CycleKind(s, kind))
<1> SUFFICES ASSUME s.mode = 1 PROVE ViewOK(ReloadBrowse([s EXCEPT !.kind = kind]))
  BY DEF CycleKind
<1> DEFINE u == [s EXCEPT !.kind = kind]
<1>1. /\ DOMAIN u = ViewFields /\ u.mode = 1 /\ u.slot = s.slot /\ u.generation = s.generation
      /\ u.target = s.target /\ u.query = s.query /\ u.tab = s.tab /\ u.lists = s.lists
      /\ u.requests = s.requests
  BY DEF ViewOK, ViewShape, ViewFields
<1>2. ViewOK(ReloadBrowse(u))
  <2> HIDE DEF u
  <2> QED BY <1>1, ReloadBrowseOK
<1> QED BY <1>2

LEMMA ActivateOK == ASSUME NEW s, ViewOK(s), NEW id \in Ids, NEW u \in Activate(s, id) PROVE ViewOK(u)
<1>1. u \in {OpenAlbum(s, id), OpenArtist(s, id), OpenDetail(s, id)}
  BY DEF Activate
<1> QED BY <1>1, OpenAlbumOK, OpenArtistOK, OpenDetailOK

LEMMA SubmitInputOK == ASSUME NEW s, ViewOK(s), NEW text PROVE ViewOK(SubmitInput(s, text))
<1>1. CASE s.section = "Search"
  <2>1. ViewOK(Bumped([s EXCEPT !.query["search"] = text], "search", "search", text))
    BY SubmitOK
  <2> QED BY <1>1, <2>1 DEF SubmitInput
<1>2. CASE s.section = "Stations"
  <2>1. ViewOK(Bumped([s EXCEPT !.query["stations"] = text], "stations", "stations", text))
    BY SubmitOK
  <2> QED BY <1>2, <2>1 DEF SubmitInput
<1>3. CASE s.section \notin {"Search", "Stations"}
  BY <1>3 DEF SubmitInput
<1> QED BY <1>1, <1>2, <1>3

LEMMA LyricsGesturesOK ==
    ASSUME NEW s, ViewOK(s) PROVE ViewOK(ToggleLyrics(s)) /\ ViewOK(LyricsTick(s)) /\ ViewOK(LyricsRefresh(s))
<1>1. \A b \in BOOLEAN : ViewOK([s EXCEPT !.lyrics_open = b])
  <2> SUFFICES ASSUME NEW b \in BOOLEAN PROVE ViewOK([s EXCEPT !.lyrics_open = b])
    OBVIOUS
  <2>1. SameView(s, [s EXCEPT !.lyrics_open = b])
    BY DEF SameView, ViewOK, ViewShape, ViewFields, Asked
  <2> QED BY <2>1, SameViewOK
<1>2. ViewOK(ToggleLyrics(s))
  <2>1. ToggleLyrics(s) \in {s, [s EXCEPT !.lyrics_open = FALSE],
                             LoadIfStale([s EXCEPT !.lyrics_open = TRUE], s.playing)}
    BY DEF ToggleLyrics
  <2>2. ViewOK(LoadIfStale([s EXCEPT !.lyrics_open = TRUE], s.playing))
    BY <1>1, LoadIfStaleOK
  <2> QED BY <1>1, <2>1, <2>2
<1>3. ViewOK(LyricsTick(s))
  BY LoadIfStaleOK DEF LyricsTick
<1>4. ViewOK(LyricsRefresh(s))
  <2> DEFINE u == [s EXCEPT !.refreshing = TRUE]
  <2>1. SameView(s, u)
    BY DEF SameView, ViewOK, ViewShape, ViewFields, Asked
  <2>2. ViewOK(u)
    BY <2>1, SameViewOK
  <2> HIDE DEF u
  <2>3. ViewOK(Send(u, "refresh", 0, s.target["lyrics"]))
    BY <2>2, SendOK DEF Proper
  <2> QED BY <2>3 DEF LyricsRefresh, u
<1> QED BY <1>2, <1>3, <1>4

LEMMA TabGesturesOK ==
    ASSUME NEW s, ViewOK(s)
    PROVE  /\ ViewOK(CycleTab(s)) /\ ViewOK(CycleWindow(s)) /\ \A due \in BOOLEAN : ViewOK(DiagTick(s, due))
           /\ \A id : ViewOK([s EXCEPT !.point = id])
<1>1. ViewOK(CycleTab(s))
  <2> DEFINE tab2 == IF s.tab = "latent" THEN "recommender" ELSE "latent"
             u == [s EXCEPT !.tab = tab2]
  <2>1. CycleTab(s) = LoadActive(u)
    BY DEF CycleTab, ViewOK, ViewShape, ViewFields
  <2>2. tab2 \in Tabs
    BY DEF Tabs
  <2> HIDE DEF tab2
  <2>3. SameView(s, u)
    BY <2>2 DEF SameView, ViewOK, ViewShape, ViewFields, Asked
  <2>4. ViewOK(u)
    BY <2>3, SameViewOK
  <2> QED BY <2>1, <2>4, LoadActiveOK
<1>2. ViewOK(CycleWindow(s))
  <2> DEFINE window2 == IF s.window = "24h" THEN "all" ELSE "24h"
             u == [s EXCEPT !.window = window2]
  <2>1. CycleWindow(s) = LoadActive(u)
    BY DEF CycleWindow, ViewOK, ViewShape, ViewFields
  <2> HIDE DEF window2
  <2>2. SameView(s, u)
    BY DEF SameView, ViewOK, ViewShape, ViewFields, Asked
  <2>3. ViewOK(u)
    BY <2>2, SameViewOK
  <2> QED BY <2>1, <2>3, LoadActiveOK
<1>3. ASSUME NEW due \in BOOLEAN PROVE ViewOK(DiagTick(s, due))
  BY LoadActiveOK, NeighboursOK DEF DiagTick
<1>4. ASSUME NEW id PROVE ViewOK([s EXCEPT !.point = id])
  <2>1. SameView(s, [s EXCEPT !.point = id])
    BY DEF SameView, ViewOK, ViewShape, ViewFields, Asked
  <2> QED BY <2>1, SameViewOK
<1> QED BY <1>1, <1>2, <1>3, <1>4

\* The open playlist: suggest, delete, edit.
LEMMA PlaylistGesturesOK ==
    ASSUME NEW s, ViewOK(s)
    PROVE  /\ ViewOK(Suggest(s))
           /\ s.lists = "Detail" => \A inTime \in BOOLEAN : ViewOK(Delete(s, inTime))
           /\ \A op \in {"rename", "set", "add"} : ViewOK(Edit(s, op))
<1>1. s.slot["playlist"].state = "Ready" => s.target["playlist"] # NoId
  BY DEF ViewOK, Listed
<1>2. ViewOK(Suggest(s))
  <2> SUFFICES ASSUME s.slot["playlist"].state = "Ready"
               PROVE  ViewOK(Ask([s EXCEPT !.lists = "Suggestions"], "suggestions", s.target["playlist"]))
    BY DEF Suggest
  <2> DEFINE u == [s EXCEPT !.lists = "Suggestions"]
  <2>1. /\ DOMAIN u = ViewFields /\ u.mode = s.mode /\ u.slot = s.slot /\ u.generation = s.generation
        /\ u.target = s.target /\ u.query = s.query /\ u.tab = s.tab /\ u.lists = "Suggestions"
        /\ u.requests = s.requests /\ u.kind = s.kind
    BY DEF ViewOK, ViewShape, ViewFields
  <2>2. ViewOK(u)
    <3> HIDE DEF u
    <3> QED BY <1>1, <2>1 DEF ViewOK, ViewShape, Listed, Asked
  <2> QED BY <2>2, AskOK
<1>3. ASSUME s.lists = "Detail", NEW inTime \in BOOLEAN PROVE ViewOK(Delete(s, inTime))
  <2>1. CASE s.slot["playlist"].state = "Ready" /\ s.pending_delete = s.target["playlist"] /\ inTime
    <3> DEFINE slot2 == [s.slot EXCEPT !["playlist"] = Empty]
               target2 == [s.target EXCEPT !["playlist"] = NoId]
               u == [s EXCEPT !.pending_delete = NoId, !.lists = "List", !.slot["playlist"] = Empty,
                              !.target["playlist"] = NoId]
    <3>1. Delete(s, inTime) = Send(u, "delete", 0, s.target["playlist"])
      BY <2>1 DEF Delete
    <3>2. /\ DOMAIN u = ViewFields /\ u.mode = s.mode /\ u.slot = slot2 /\ u.generation = s.generation
          /\ u.target = target2 /\ u.query = s.query /\ u.tab = s.tab /\ u.lists = "List"
          /\ u.requests = s.requests /\ u.kind = s.kind
      BY DEF ViewOK, ViewShape, ViewFields
    <3> HIDE DEF u
    <3>3. /\ DOMAIN slot2 = Slots /\ slot2["playlist"].state # "Ready"
          /\ \A p \in Slots \ {"playlist"} : slot2[p] = s.slot[p]
          /\ DOMAIN target2 = Targets /\ target2["playlist"] = NoId
          /\ \A p \in Targets \ {"playlist"} : target2[p] = s.target[p]
      BY DEF ViewOK, ViewShape, Slots, Targets, Empty
    <3>4. {"albums", "search", "stations", "similar", "suggestions"} \cup Targets \subseteq Slots
      BY DEF Slots, Browsing, Targets
    <3> HIDE DEF slot2, target2
    <3>5. Targeted(slot2, target2)
      BY <3>3, <3>4 DEF ViewOK, Targeted, Targets
    <3>6. Listed(slot2, target2, "List", Asked(s))
      BY <3>3, <3>4 DEF ViewOK, Listed, Targets
    <3>7. /\ slot2["albums"] = s.slot["albums"] /\ slot2["search"] = s.slot["search"]
          /\ slot2["stations"] = s.slot["stations"]
      BY <3>3, <3>4
    <3>8. Asked(u) = Asked(s)
      BY <3>2 DEF Asked
    <3>9. Fresh(slot2, s.mode, s.generation)
      BY <3>3, FewerFresh DEF Fewer, ViewOK, ViewShape
    <3>10. ViewOK(u)
      BY <3>2, <3>3, <3>5, <3>6, <3>7, <3>8, <3>9 DEF ViewOK, ViewShape
    <3> QED BY <3>1, <3>10, SendOK DEF Proper
  <2>2. CASE ~(s.slot["playlist"].state = "Ready" /\ s.pending_delete = s.target["playlist"] /\ inTime)
    <3>1. Delete(s, inTime) = s \/ Delete(s, inTime) = [s EXCEPT !.pending_delete = s.target["playlist"]]
      BY <2>2 DEF Delete
    <3>2. SameView(s, Delete(s, inTime))
      BY <3>1 DEF SameView, ViewOK, ViewShape, ViewFields, Asked
    <3> QED BY <3>2, SameViewOK
  <2> QED BY <2>1, <2>2
<1>4. ASSUME NEW op \in {"rename", "set", "add"} PROVE ViewOK(Edit(s, op))
  <2> SUFFICES ASSUME s.slot["playlist"].state = "Ready" PROVE ViewOK(Send(s, op, 0, s.target["playlist"]))
    BY DEF Edit
  <2> QED BY <1>1, SendOK DEF Proper
<1> QED BY <1>2, <1>3, <1>4

LEMMA PickerOK ==
    ASSUME NEW s, ViewOK(s) PROVE ViewOK(OpenPicker(s)) /\ \A id \in Ids : ViewOK(PickerAdds(s, id))
<1>1. ViewOK(OpenPicker(s))
  BY ReloadListOK DEF OpenPicker
<1>2. ASSUME NEW id \in Ids PROVE ViewOK(PickerAdds(s, id))
  <2>1. ViewOK(Send(s, "add", 0, id)) /\ ViewOK(Send(s, "create", 0, NoId))
    BY ViewAssumption, SendOK DEF Proper
  <2> QED BY <2>1 DEF PickerAdds
<1> QED BY <1>1, <1>2

\* What an answer that is taken shows is what is wanted.
Wants(s, p, by, of) ==
    /\ p \in Browsing => by = s.generation["library"]
    /\ p \in {"search", "stations", "playlists"} => by = s.generation[p]
    /\ p = "albums" => of = s.kind
    /\ p \in {"search", "stations"} => of = s.query[p]
    /\ p \in Targets => of = s.target[p]
    /\ p = "playlist" => of # NoId
    /\ p = "similar" => of = s.target["album"]
    /\ p = "suggestions" => of = s.target["playlist"]
LEMMA ShownOK ==
    ASSUME NEW s, ViewOK(s), NEW p, NEW r, NEW ok \in BOOLEAN, Wants(s, p, r.generation, r.of)
    PROVE  ViewOK(Shown(s, p, r, ok))
<1> DEFINE held == IF ok THEN [state |-> "Ready", of |-> r.of, by |-> r.generation]
                   ELSE [state |-> "Failed", of |-> NoId, by |-> 0]
           slot2 == [s.slot EXCEPT ![p] = held]
           u == Shown(s, p, r, ok)
<1>1. /\ DOMAIN u = ViewFields /\ u.mode = s.mode /\ u.slot = slot2 /\ u.generation = s.generation
      /\ u.target = s.target /\ u.query = s.query /\ u.tab = s.tab /\ u.lists = s.lists
      /\ u.requests = s.requests /\ u.kind = s.kind
  BY DEF Shown, ViewOK, ViewShape, ViewFields
<1>2. held.state = "Ready" => held.of = r.of /\ held.by = r.generation
  OBVIOUS
<1> HIDE DEF held, u
<1>3. DOMAIN slot2 = Slots /\ \A q \in Slots : slot2[q] = s.slot[q] \/ (q = p /\ slot2[q] = held)
  BY DEF ViewOK, ViewShape
<1>4. {"albums", "search", "stations", "similar", "suggestions"} \cup Targets \subseteq Slots
  BY DEF Slots, Browsing, Targets
<1> HIDE DEF slot2
<1>5. Latest("albums", slot2["albums"], s.kind, s.generation["library"], Asked(s))
  BY <1>2, <1>3, <1>4 DEF ViewOK, Latest, Wants
<1>6. ASSUME NEW q \in {"search", "stations"}
      PROVE  Latest(q, slot2[q], s.query[q], s.generation[q], Asked(s))
  <2>1. Latest(q, s.slot[q], s.query[q], s.generation[q], Asked(s))
    BY <1>6 DEF ViewOK
  <2>2. slot2[q] = s.slot[q] \/ (q = p /\ slot2[q] = held)
    BY <1>3, <1>4, <1>6
  <2>3. q = p => r.of = s.query[q]
    BY <1>6 DEF Wants
  <2> QED BY <1>2, <2>1, <2>2, <2>3 DEF Latest
<1>7. Targeted(slot2, s.target)
  BY <1>2, <1>3, <1>4 DEF ViewOK, Targeted, Wants
<1>8. Listed(slot2, s.target, s.lists, Asked(s))
  <2>1. "playlist" \in Targets
    BY DEF Targets
  <2> QED BY <1>2, <1>3, <1>4, <2>1 DEF ViewOK, Listed, Wants
<1>9. Asked(u) = Asked(s)
  BY <1>1 DEF Asked
<1>10. Fresh(slot2, s.mode, s.generation)
  <2>1. Modes[s.mode] \in Browsing /\ Browsing \cup {"search", "stations", "playlists"} \subseteq Slots
    BY DEF Modes, Slots, Browsing, ViewOK, ViewShape
  <2>2. Fresh(s.slot, s.mode, s.generation)
    BY DEF ViewOK
  <2>3. ASSUME NEW q \in Browsing \cup {"search", "stations", "playlists"}
        PROVE  slot2[q] = s.slot[q] \/ (q = p /\ slot2[q] = held)
    BY <1>3, <2>1
  <2>4. slot2[Modes[s.mode]].state = "Ready" => slot2[Modes[s.mode]].by = s.generation["library"]
    BY <1>2, <2>1, <2>2, <2>3 DEF Fresh, Wants
  <2>5. ASSUME NEW q \in {"search", "stations", "playlists"}, slot2[q].state = "Ready"
        PROVE  slot2[q].by = s.generation[q]
    BY <1>2, <2>2, <2>3, <2>5 DEF Fresh, Wants
  <2> QED BY <2>4, <2>5 DEF Fresh
<1>11. ViewOK(u)
  BY <1>1, <1>3, <1>5, <1>6, <1>7, <1>8, <1>9, <1>10 DEF ViewOK, ViewShape
<1> QED BY <1>11 DEF u

\* A request that was under way, seen by the state it is answered in.
Due(s, r) ==
    /\ r.slot = "albums" /\ r.generation = s.generation["library"] => r.of = s.kind
    /\ \A p \in {"search", "stations"} : r.slot = p /\ r.generation = s.generation[p] => r.of = s.query[p]
    /\ r.slot \in {"playlist", "rename", "set", "add"} => r.of # NoId

LEMMA AcceptedWants ==
    ASSUME NEW s, ViewOK(s), NEW r, Due(s, r), r.slot # "lyrics", Accepts(s, r)
    PROVE  Wants(s, r.slot, r.generation, r.of)
<1>1. CASE r.slot \in Browsing
  <2>1. r.generation = s.generation["library"]
    BY <1>1 DEF Accepts, Browsing, Tabs
  <2> QED BY <1>1, <2>1 DEF Wants, Due, Targets, Browsing
<1>2. CASE r.slot \in {"search", "stations", "playlists"}
  <2>1. r.generation = s.generation[r.slot]
    BY <1>2 DEF Accepts, Browsing, Tabs
  <2> QED BY <1>2, <2>1 DEF Wants, Due, Targets, Browsing
<1>3. CASE r.slot \in {"album", "artist", "playlist", "neighbours"}
  <2>1. r.of = s.target[r.slot]
    BY <1>3 DEF Accepts, Browsing, Tabs
  <2> QED BY <1>3, <2>1 DEF Wants, Due, Browsing
<1>4. CASE r.slot = "similar"
  <2>1. s.slot["album"].state = "Ready" /\ s.slot["album"].of = r.of
    BY <1>4 DEF Accepts, Browsing, Tabs
  <2>2. s.slot["album"].state = "Ready" => s.slot["album"].of = s.target["album"]
    BY DEF ViewOK, Targeted, Targets
  <2> QED BY <1>4, <2>1, <2>2 DEF Wants, Targets, Browsing
<1>5. CASE r.slot = "suggestions"
  BY <1>5 DEF Accepts, Wants, Targets, Browsing, Tabs
<1>6. CASE r.slot \notin Browsing \cup {"search", "stations", "playlists", "album", "artist", "playlist",
                                        "neighbours", "similar", "suggestions"}
  BY <1>6 DEF Wants, Targets, Browsing
<1> QED BY <1>1, <1>2, <1>3, <1>4, <1>5, <1>6

LEMMA WriteDoneOK ==
    ASSUME NEW s, ViewOK(s), NEW r, Due(s, r), NEW ok \in BOOLEAN PROVE ViewOK(WriteDone(s, r, ok))
<1> DEFINE s2 == IF ok \/ r.slot = "delete" THEN ReloadList(s) ELSE s
           reopen == \/ r.slot \in {"rename", "add"} /\ ok
                     \/ r.slot \in {"add", "set"} /\ ~ok
<1>1. ViewOK(s2)
  BY ReloadListOK
<1>2. WriteDone(s, r, ok) = IF reopen /\ r.of = s.target["playlist"] THEN Ask(s2, "playlist", r.of) ELSE s2
  BY DEF WriteDone
<1>3. reopen => r.of # NoId
  BY DEF Due
<1> HIDE DEF s2, reopen
<1>4. reopen => ViewOK(Ask(s2, "playlist", r.of))
  BY <1>1, <1>3, AskOK
<1> QED BY <1>1, <1>2, <1>4

LEMMA AnsweredOK ==
    ASSUME NEW s0, ViewOK(s0), NEW r \in Asked(s0), NEW outcome
    PROVE  ViewOK(Answered(s0, r, outcome))
<1> DEFINE s == [s0 EXCEPT !.requests = @ (-) SetToBag({r})]
           shown == outcome # "fails"
<1>1. SameView(s0, s)
  <2>1. s.requests = s0.requests (-) SetToBag({r})
    BY DEF ViewOK, ViewShape, ViewFields
  <2>2. Asked(s) \subseteq Asked(s0)
    BY <2>1, OneLessAsked DEF Asked
  <2> QED BY <2>2 DEF SameView, ViewOK, ViewShape, ViewFields
<1>2. ViewOK(s)
  BY <1>1, SameViewOK
<1>3. Due(s, r)
  BY <1>1 DEF SameView, ViewOK, Latest, Listed, Due
<1>4. shown \in BOOLEAN
  OBVIOUS
<1> DEFINE u == Answered(s0, r, outcome)
<1>5. u = CASE r.slot \in Writes                -> WriteDone(s, r, shown)
            [] r.slot = "pin"                   -> PinDone(s)
            [] r.slot \in {"lyrics", "refresh"} -> LyricsLoaded(s, r, outcome)
            [] r.slot \in Slots \ {"lyrics"} /\ ~Accepts(s, r)            -> s
            [] r.slot = "album" /\ Accepts(s, r)       -> AlbumLoaded(s, r, outcome)
            [] r.slot = "suggestions" /\ Accepts(s, r) -> SuggestionsLoaded(s, r, outcome)
            [] r.slot \in Tabs /\ Accepts(s, r)        -> TabLoaded(s, r, outcome)
            [] OTHER                                   -> Shown(s, r.slot, r, shown)
  BY DEF Answered
<1> HIDE DEF s, u
<1>6. CASE r.slot \in Writes
  <2>1. u = WriteDone(s, r, shown)
    BY <1>5, <1>6 DEF Writes, Slots, Browsing, Tabs
  <2> QED BY <1>2, <1>3, <1>4, <2>1, WriteDoneOK DEF u
<1>7. CASE r.slot = "pin"
  <2>1. u = PinDone(s)
    BY <1>5, <1>7 DEF Writes, Slots, Browsing, Tabs
  <2> QED BY <1>2, <2>1, AskOK DEF PinDone, u
<1>8. CASE r.slot \in {"lyrics", "refresh"}
  <2> DEFINE s2 == [s EXCEPT !.refreshing = FALSE]
  <2>1. u = IF r.of = s.target["lyrics"] THEN Shown(s2, "lyrics", r, shown) ELSE s2
    BY <1>5, <1>8 DEF Writes, Slots, Browsing, Tabs, LyricsLoaded
  <2>2. SameView(s, s2)
    BY <1>2 DEF SameView, ViewOK, ViewShape, ViewFields, Asked
  <2>3. ViewOK(s2)
    BY <1>2, <2>2, SameViewOK
  <2>4. r.of = s.target["lyrics"] => Wants(s2, "lyrics", r.generation, r.of)
    BY <2>2 DEF SameView, Wants, Targets, Browsing
  <2> HIDE DEF s2
  <2>5. r.of = s.target["lyrics"] => ViewOK(Shown(s2, "lyrics", r, shown))
    BY <1>4, <2>3, <2>4, ShownOK
  <2> QED BY <2>1, <2>3, <2>5 DEF u
<1>9. CASE r.slot \in Slots \ {"lyrics"} /\ ~Accepts(s, r)
  <2>1. u = s
    BY <1>5, <1>9 DEF Writes, Slots, Browsing, Tabs
  <2> QED BY <1>2, <2>1 DEF u
<1>10. CASE r.slot \notin Writes \cup {"pin", "lyrics", "refresh"} /\ Accepts(s, r)
  <2>1. ASSUME NEW ok \in BOOLEAN PROVE ViewOK(Shown(s, r.slot, r, ok))
    <3>1. Wants(s, r.slot, r.generation, r.of)
      BY <1>2, <1>3, <1>10, AcceptedWants
    <3> QED BY <1>2, <2>1, <3>1, ShownOK
  <2>2. CASE r.slot = "album"
    <3> DEFINE s2 == Shown(s, "album", r, shown)
    <3>1. u = IF outcome = "ok" THEN Ask(s2, "similar", r.of) ELSE s2
      BY <1>5, <1>10, <2>2 DEF Writes, Slots, Browsing, Tabs, AlbumLoaded
    <3>2. ViewOK(s2)
      BY <1>4, <2>1, <2>2
    <3> HIDE DEF s2
    <3> QED BY <3>1, <3>2, AskOK DEF u
  <2>3. CASE r.slot = "suggestions"
    <3>1. u = Shown(s, "suggestions", r, outcome = "ok")
      BY <1>5, <1>10, <2>3 DEF Writes, Slots, Browsing, Tabs, SuggestionsLoaded
    <3>2. (outcome = "ok") \in BOOLEAN
      OBVIOUS
    <3> QED BY <2>1, <2>3, <3>1, <3>2 DEF u
  <2>4. CASE r.slot \in Tabs
    <3> DEFINE first == IF s.point = NoId THEN CHOOSE i \in Ids : TRUE ELSE s.point
               s2 == Shown(s, r.slot, r, shown)
               s3 == [s2 EXCEPT !.point = first]
    <3>1. u = IF r.slot = "latent" /\ outcome = "ok" THEN MaybeFetchNeighbours(s3) ELSE s2
      BY <1>5, <1>10, <2>4 DEF Writes, Slots, Browsing, Tabs, TabLoaded
    <3>2. ViewOK(s2)
      BY <1>4, <2>1
    <3> HIDE DEF s2, first
    <3>3. ViewOK(s3)
      BY <3>2, TabGesturesOK
    <3> HIDE DEF s3
    <3>4. ViewOK(MaybeFetchNeighbours(s3))
      BY <3>3, NeighboursOK
    <3> QED BY <3>1, <3>2, <3>4 DEF u
  <2>5. CASE r.slot \notin Tabs \cup {"album", "suggestions"}
    <3>1. u = Shown(s, r.slot, r, shown)
      BY <1>5, <1>10, <2>5 DEF Writes, Slots, Browsing, Tabs
    <3> QED BY <1>4, <2>1, <3>1 DEF u
  <2> QED BY <2>2, <2>3, <2>4, <2>5
<1>11. r.slot \notin Slots /\ r.slot \notin Writes \cup {"pin", "lyrics", "refresh"} => Accepts(s, r)
  BY DEF Accepts, Slots, Browsing, Tabs
<1> QED BY <1>6, <1>7, <1>8, <1>9, <1>10, <1>11

\* A start shows what was asked for.
LEMMA StartsOK == ASSUME NEW s \in ViewStarts PROVE ViewOK(s.view)
<1> DEFINE w == s.view
<1>1. /\ w = [FirstView EXCEPT !.section = w.section, !.tab = w.tab, !.slot = w.slot, !.query = w.query]
      /\ w.tab \in Tabs /\ DOMAIN w.slot = Slots /\ DOMAIN w.query = {"search", "stations"}
      /\ \A p \in Slots : w.slot[p].state = "Ready" => w.slot[p].by = 0
      /\ \A p \in Slots : w.slot[p].state = "Ready" =>
           \/ p \in Tabs \cup {"artists", "songs", "liked", "downloads", "playlists"}
           \/ p = "albums" /\ w.slot[p].of = w.kind
           \/ p \in {"search", "stations"} /\ w.slot[p].of = w.query[p]
  BY ViewAssumption
<1> HIDE DEF w
<1>2. /\ DOMAIN w = ViewFields /\ w.lists = "List" /\ w.mode = 1
      /\ w.generation = [g \in {"library", "search", "stations", "playlists"} |-> 0]
      /\ w.target = [p \in {"album", "artist", "playlist", "lyrics", "neighbours"} |-> NoId]
      /\ w.requests = EmptyBag
  <2>1. DOMAIN FirstView = ViewFields
    BY DEF FirstView, ViewFields
  <2>2. /\ FirstView.lists = "List" /\ FirstView.mode = 1 /\ FirstView.requests = EmptyBag
        /\ FirstView.generation = [g \in {"library", "search", "stations", "playlists"} |-> 0]
        /\ FirstView.target = [p \in {"album", "artist", "playlist", "lyrics", "neighbours"} |-> NoId]
    BY DEF FirstView
  <2>3. /\ w.lists = FirstView.lists /\ w.mode = FirstView.mode /\ w.generation = FirstView.generation
        /\ w.target = FirstView.target /\ w.requests = FirstView.requests /\ DOMAIN w = DOMAIN FirstView
    BY <1>1, <2>1 DEF ViewFields
  <2> QED BY <2>1, <2>2, <2>3
<1>3. Asked(w) = {}
  BY <1>2 DEF Asked, BagToSet, EmptyBag, SetToBag
<1>4. {"albums", "search", "stations", "similar", "suggestions"} \cup Targets \subseteq Slots
  BY DEF Slots, Browsing, Targets
<1>5. Targeted(w.slot, w.target) /\ Listed(w.slot, w.target, w.lists, Asked(w))
  BY <1>1, <1>2, <1>3, <1>4 DEF Targeted, Listed, Targets, Tabs
<1>6. Latest("albums", w.slot["albums"], w.kind, w.generation["library"], Asked(w))
  BY <1>1, <1>2, <1>3, <1>4 DEF Latest, Tabs
<1>7. ASSUME NEW q \in {"search", "stations"}
      PROVE  Latest(q, w.slot[q], w.query[q], w.generation[q], Asked(w))
  BY <1>1, <1>2, <1>3, <1>4, <1>7 DEF Latest, Tabs
<1>8. ViewShape(w) /\ w.generation["playlists"] \in Nat
  BY <1>1, <1>2 DEF ViewShape, Targets
<1>9. Fresh(w.slot, w.mode, w.generation)
  <2>1. Modes[w.mode] \in Slots /\ {"search", "stations", "playlists"} \subseteq Slots
    BY <1>2 DEF Modes, Slots, Browsing
  <2> QED BY <1>1, <1>2, <2>1 DEF Fresh
<1>10. ViewOK(w)
  BY <1>5, <1>6, <1>7, <1>8, <1>9 DEF ViewOK
<1> QED BY <1>10 DEF w

\* Whatever order the answers come in, and whether they come: a browse list, a list of
\* playlists, a search or a station on screen answers the newest request of its pane;
\* and an album list, a search, a station, a detail, a footer, a document or a list of
\* neighbours shows what it was last asked for, though not always the newest answer.
\* Nothing is said of the diagnostics tabs, the liked songs and the downloads.
THEOREM NothingShownIsStale == ViewInit /\ [][ViewNext]_viewVars => []NothingStale
<1>1. ViewInit => ViewOK(v)
  BY StartsOK DEF ViewInit
<1>2. ViewOK(v) /\ [ViewNext]_viewVars => ViewOK(v)'
  <2> SUFFICES ASSUME ViewOK(v), [ViewNext]_viewVars PROVE ViewOK(v')
    OBVIOUS
  <2>1. CASE Navigate
    BY <2>1, GoSectionOK, BackOK DEF Navigate, Gestured
  <2>2. CASE Browse
    BY <2>2, CycleModeOK, CycleKindOK, ActivateOK, SubmitInputOK DEF Browse, Gestured
  <2>3. CASE ReadLyrics
    BY <2>3, LyricsGesturesOK DEF ReadLyrics, Gestured
  <2>4. CASE Diagnose
    BY <2>4, TabGesturesOK DEF Diagnose, Gestured
  <2>5. CASE EditPlaylists
    BY <2>5, PlaylistGesturesOK DEF EditPlaylists, Gestured
  <2>6. CASE AddSuggestion
    BY <2>6, PlaylistGesturesOK DEF AddSuggestion, Gestured
  <2>7. CASE PickPlaylist
    BY <2>7, PickerOK DEF PickPlaylist, Gestured
  <2>8. CASE SaveOffline
    BY <2>8, SendOK DEF SaveOffline, Gestured, Proper
  <2>9. CASE ViewTick
    BY <2>9, LyricsGesturesOK, TabGesturesOK DEF ViewTick
  <2>10. CASE TrackChanges
    <3>1. PICK id \in Ids : v' = [v EXCEPT !.playing = id]
      BY <2>10 DEF TrackChanges
    <3>2. SameView(v, v')
      BY <3>1 DEF SameView, ViewOK, ViewShape, ViewFields, Asked
    <3> QED BY <3>2, SameViewOK
  <2>11. CASE RequestAnswered \/ RequestFails
    BY <2>11, AnsweredOK DEF RequestAnswered, RequestFails, Asked
  <2>12. CASE UNCHANGED viewVars
    BY <2>12 DEF viewVars
  <2> QED BY <2>1, <2>2, <2>3, <2>4, <2>5, <2>6, <2>7, <2>8, <2>9, <2>10, <2>11, <2>12 DEF ViewNext
<1> QED BY <1>1, <1>2, ViewOKSuffices, PTL

-----------------------------------------------------------------------------
(* Playback.                                                                 *)

PlayFields == {"phase", "room", "version", "queue", "seen", "pending", "prefetched", "device",
               "output_on", "direct_play", "last_classified", "advance_dir",
               "disliked", "disliked_parents", "bare", "meta", "hydrating", "hydrate_failed", "hydrations",
               "submits", "wire", "minted", "fetches", "cmds", "loads",
               "signalled", "events_enabled", "signal", "outbox", "flushing", "reports"}
SinkFields == {"track", "load", "playing", "position"}
Orders == {"load", "stop", "play", "pause", "toggle", "restart"}
IsList(q) == \E S : q \in Seq(S)

\* What is heard was loaded before load n.
Before(heard, n) == heard.track # NoTrack => heard.load \in Nat /\ heard.load < n

\* Loads are numbered in the order in which they are commanded, so what waits in the
\* channel is newer than what is heard, seen or spoken of.
CommandsNewer(cmds, loads, seen, heard, reports) ==
    \A n \in DOMAIN cmds : cmds[n].do = "load" =>
        /\ cmds[n].load \in Nat /\ cmds[n].load <= loads
        /\ Before(heard, cmds[n].load) /\ Before(seen, cmds[n].load)
        /\ \A i \in DOMAIN reports : reports[i].load < cmds[n].load
        /\ \A m \in DOMAIN cmds : m < n /\ cmds[m].do = "load" => cmds[m].load < cmds[n].load

\* What is heard is what was seen last, or newer than all that was said.
HeardNewer(loads, seen, heard, reports) ==
    /\ Before(heard, loads + 1) /\ Before(seen, loads + 1)
    /\ \A i \in DOMAIN reports : reports[i].load \in Nat /\ reports[i].load <= loads
    /\ heard.track # NoTrack => \/ seen.track = heard.track /\ seen.load = heard.load
                                \/ Before(seen, heard.load) /\ \A i \in DOMAIN reports : reports[i].load < heard.load

\* The signal remembers what was said of the load that is seen.
Covers(signal, what) ==
    \/ what = "skip" /\ signal.abandoned = TRUE
    \/ what = "now_playing" /\ signal.now_playing = TRUE
    \/ what = "submission" /\ signal.submission = TRUE
Remembers(reports, seen, signal) ==
    seen.track # NoTrack =>
        \A i \in DOMAIN reports : reports[i].load = seen.load =>
            signal.track = seen.track /\ Covers(signal, reports[i].what)
OnceEach(reports) ==
    \A i, j \in DOMAIN reports :
        i < j /\ reports[i].load = reports[j].load => reports[i].what \notin {"skip", reports[j].what}

SignalShape(signal) ==
    /\ DOMAIN signal = {"track", "now_playing", "submission", "abandoned"}
    /\ signal.now_playing \in BOOLEAN /\ signal.submission \in BOOLEAN /\ signal.abandoned \in BOOLEAN

PlayShape(s) ==
    /\ DOMAIN s = PlayFields /\ DOMAIN s.seen = SinkFields /\ SignalShape(s.signal)
    /\ IsList(s.cmds) /\ IsList(s.reports) /\ s.loads \in Nat /\ s.output_on \in BOOLEAN
    /\ \A n \in DOMAIN s.cmds : s.cmds[n].do \in Orders

\* The reducer's state s while the audio thread plays what is heard.
PlayOK(s, heard) ==
    /\ PlayShape(s) /\ DOMAIN heard = SinkFields
    /\ s.signalled = {} => s.reports = << >>
    /\ s.signalled # {} => /\ CommandsNewer(s.cmds, s.loads, s.seen, heard, s.reports)
                           /\ HeardNewer(s.loads, s.seen, heard, s.reports)
    /\ Remembers(s.reports, s.seen, s.signal) /\ OnceEach(s.reports)

\* While the player is a remote, what is added to the channel makes no sound.
Quiet(cmds, cmds2) ==
    /\ \A i \in DOMAIN cmds : i \in DOMAIN cmds2 /\ cmds2[i] = cmds[i]
    /\ \A i \in DOMAIN cmds2 \ DOMAIN cmds : cmds2[i].do \notin {"load", "play", "toggle"}

\* What handlers in a room leave alone.
Still(s, u) ==
    /\ u.phase = s.phase /\ u.room = s.room /\ u.queue = s.queue
    /\ u.output_on = s.output_on /\ u.seen = s.seen
Calm(s, u) == Still(s, u) /\ (s.output_on = FALSE => Quiet(s.cmds, u.cmds))

\* Handlers that neither command nor say anything.
Mute(s, u) ==
    /\ DOMAIN u = PlayFields /\ u.seen = s.seen /\ u.signal = s.signal /\ u.cmds = s.cmds
    /\ u.reports = s.reports /\ u.loads = s.loads /\ u.signalled = s.signalled
    /\ u.output_on \in BOOLEAN
LEMMA MuteOK == ASSUME NEW s, NEW heard, PlayOK(s, heard), NEW u, Mute(s, u) PROVE PlayOK(u, heard)
BY DEF PlayOK, PlayShape, Mute

LEMMA AppendFacts ==
    ASSUME NEW q, IsList(q), NEW e
    PROVE  /\ IsList(Append(q, e)) /\ Len(q) \in Nat /\ DOMAIN q = 1 .. Len(q)
           /\ DOMAIN Append(q, e) = 1 .. Len(q) + 1
           /\ Append(q, e)[Len(q) + 1] = e /\ \A i \in 1 .. Len(q) : Append(q, e)[i] = q[i]
<1>1. PICK S : q \in Seq(S)
  BY DEF IsList
<1>2. q \in Seq(S \cup {e}) /\ e \in S \cup {e}
  BY <1>1
<1>3. Append(q, e) \in Seq(S \cup {e})
  BY <1>2
<1> QED BY <1>2, <1>3 DEF IsList

LEMMA TailFacts ==
    ASSUME NEW q, IsList(q), q # << >>
    PROVE  /\ IsList(Tail(q)) /\ Len(q) \in Nat /\ Len(q) > 0 /\ DOMAIN q = 1 .. Len(q)
           /\ DOMAIN Tail(q) = 1 .. Len(q) - 1
           /\ Head(q) = q[1] /\ \A i \in 1 .. Len(q) - 1 : Tail(q)[i] = q[i + 1]
<1>1. PICK S : q \in Seq(S)
  BY DEF IsList
<1>2. Tail(q) \in Seq(S)
  BY <1>1
<1> QED BY <1>1, <1>2 DEF IsList

\* One command more, not a load.
LEMMA CommandOK ==
    ASSUME NEW s, NEW heard, PlayOK(s, heard), NEW c, c.do \in Orders \ {"load"}
    PROVE  /\ PlayOK(Command(s, c), heard) /\ Still(s, Command(s, c))
           /\ c.do \in {"stop", "pause", "restart"} => Calm(s, Command(s, c))
<1> DEFINE u == Command(s, c)
<1>1. CASE ~s.device
  BY <1>1 DEF Command, Still, Calm, Quiet
<1>2. CASE s.device
  <2>1. /\ DOMAIN u = PlayFields /\ u.cmds = Append(s.cmds, c)
        /\ u.seen = s.seen /\ u.signal = s.signal /\ u.reports = s.reports /\ u.loads = s.loads
        /\ u.signalled = s.signalled /\ u.output_on = s.output_on
        /\ u.phase = s.phase /\ u.room = s.room /\ u.queue = s.queue
    BY <1>2 DEF Command, PlayOK, PlayShape, PlayFields
  <2>2. /\ IsList(u.cmds) /\ Len(s.cmds) \in Nat /\ DOMAIN s.cmds = 1 .. Len(s.cmds)
        /\ DOMAIN u.cmds = 1 .. Len(s.cmds) + 1 /\ u.cmds[Len(s.cmds) + 1] = c
        /\ \A i \in 1 .. Len(s.cmds) : u.cmds[i] = s.cmds[i]
    BY <2>1, AppendFacts DEF PlayOK, PlayShape
  <2> HIDE DEF u
  <2>3. PlayShape(u)
    BY <2>1, <2>2 DEF PlayOK, PlayShape
  <2>4. s.signalled # {} => CommandsNewer(u.cmds, u.loads, u.seen, heard, u.reports)
    BY <2>1, <2>2 DEF PlayOK, CommandsNewer
  <2>5. PlayOK(u, heard)
    BY <2>1, <2>3, <2>4 DEF PlayOK
  <2>6. c.do \in {"stop", "pause", "restart"} => Quiet(s.cmds, u.cmds)
    BY <2>2 DEF Quiet
  <2> QED BY <2>1, <2>5, <2>6 DEF u, Still, Calm
<1> QED BY <1>1, <1>2

LEMMA StoppedOK ==
    ASSUME NEW s, NEW heard, PlayOK(s, heard) PROVE PlayOK(Stopped(s), heard) /\ Calm(s, Stopped(s))
<1> DEFINE t == Command(s, Do("stop"))
<1>1. PlayOK(t, heard) /\ Calm(s, t)
  BY CommandOK DEF Do, Orders
<1> HIDE DEF t
<1>2. Stopped(s) = [t EXCEPT !.pending = 0]
  BY DEF Stopped, t
<1>3. Mute(t, Stopped(s)) /\ Still(t, Stopped(s))
  BY <1>1, <1>2 DEF Mute, Still, PlayOK, PlayShape, PlayFields
<1> QED BY <1>1, <1>3, MuteOK DEF Calm, Still, Mute

\* A load is the newest of all.
LEMMA LoadOK ==
    ASSUME NEW s, NEW heard, PlayOK(s, heard), NEW track
    PROVE  PlayOK(Load(s, track), heard) /\ Still(s, Load(s, track))
<1> DEFINE n == IF s.signalled = {} THEN 0 ELSE s.loads + 1
           c == [do |-> "load", track |-> track, load |-> n]
           t == Command(s, c)
           u == Load(s, track)
<1>1. n \in Nat /\ (s.signalled # {} => n = s.loads + 1) /\ c.do = "load" /\ c.load = n
  BY DEF PlayOK, PlayShape
<1> HIDE DEF n, c
<1>2. /\ DOMAIN t = PlayFields /\ t.cmds \in {s.cmds, Append(s.cmds, c)}
      /\ t.seen = s.seen /\ t.signal = s.signal /\ t.reports = s.reports
      /\ t.signalled = s.signalled /\ t.output_on = s.output_on
      /\ t.phase = s.phase /\ t.room = s.room /\ t.queue = s.queue
  BY DEF Command, PlayOK, PlayShape, PlayFields
<1>3. u = [t EXCEPT !.loads = n, !.pending = 0]
  BY DEF Load, n, c
<1> HIDE DEF t
<1>4. /\ DOMAIN u = PlayFields /\ u.cmds \in {s.cmds, Append(s.cmds, c)} /\ u.loads = n
      /\ u.seen = s.seen /\ u.signal = s.signal /\ u.reports = s.reports
      /\ u.signalled = s.signalled /\ u.output_on = s.output_on
      /\ u.phase = s.phase /\ u.room = s.room /\ u.queue = s.queue
  BY <1>2, <1>3 DEF PlayFields
<1> HIDE DEF u
<1>5. /\ IsList(Append(s.cmds, c)) /\ Len(s.cmds) \in Nat /\ DOMAIN s.cmds = 1 .. Len(s.cmds)
      /\ DOMAIN Append(s.cmds, c) = 1 .. Len(s.cmds) + 1 /\ Append(s.cmds, c)[Len(s.cmds) + 1] = c
      /\ \A i \in 1 .. Len(s.cmds) : Append(s.cmds, c)[i] = s.cmds[i]
  BY AppendFacts DEF PlayOK, PlayShape
<1>6. PlayShape(u)
  <2>1. CASE u.cmds = s.cmds
    BY <1>1, <1>4, <2>1 DEF PlayOK, PlayShape
  <2>2. CASE u.cmds = Append(s.cmds, c)
    BY <1>1, <1>4, <1>5, <2>2 DEF PlayOK, PlayShape, Orders
  <2> QED BY <1>4, <2>1, <2>2
<1>7. ASSUME s.signalled # {}
      PROVE  /\ CommandsNewer(u.cmds, u.loads, u.seen, heard, u.reports)
             /\ HeardNewer(u.loads, u.seen, heard, u.reports)
  <2>1. /\ CommandsNewer(s.cmds, s.loads, s.seen, heard, s.reports)
        /\ HeardNewer(s.loads, s.seen, heard, s.reports) /\ s.loads \in Nat
    BY <1>7 DEF PlayOK, PlayShape
  <2>2. n = s.loads + 1
    BY <1>1, <1>7
  <2>3. HeardNewer(u.loads, u.seen, heard, u.reports)
    BY <1>4, <2>1, <2>2 DEF HeardNewer, Before
  <2>4. CASE u.cmds = s.cmds
    BY <1>4, <2>1, <2>2, <2>4 DEF CommandsNewer, HeardNewer, Before
  <2>5. CASE u.cmds = Append(s.cmds, c)
    <3> SUFFICES ASSUME NEW m \in DOMAIN u.cmds, u.cmds[m].do = "load"
                 PROVE  /\ u.cmds[m].load \in Nat /\ u.cmds[m].load <= u.loads
                        /\ Before(heard, u.cmds[m].load) /\ Before(u.seen, u.cmds[m].load)
                        /\ \A i \in DOMAIN u.reports : u.reports[i].load < u.cmds[m].load
                        /\ \A i \in DOMAIN u.cmds : i < m /\ u.cmds[i].do = "load" => u.cmds[i].load < u.cmds[m].load
      BY <2>3 DEF CommandsNewer
    <3>1. CASE m = Len(s.cmds) + 1
      <4>1. u.cmds[m].load = s.loads + 1
        BY <1>1, <1>5, <2>2, <2>5, <3>1
      <4>2. \A i \in DOMAIN u.cmds : i < m => i \in DOMAIN s.cmds /\ u.cmds[i] = s.cmds[i]
        BY <1>5, <2>5, <3>1
      <4>3. \A i \in DOMAIN s.cmds : s.cmds[i].do = "load" => s.cmds[i].load \in Nat /\ s.cmds[i].load <= s.loads
        BY <2>1 DEF CommandsNewer
      <4>4. \A i \in DOMAIN u.cmds : i < m /\ u.cmds[i].do = "load" => u.cmds[i].load < u.cmds[m].load
        BY <2>1, <4>1, <4>2, <4>3
      <4> QED BY <1>4, <2>1, <2>2, <4>1, <4>4 DEF HeardNewer, Before
    <3>2. CASE m # Len(s.cmds) + 1
      <4>1. m \in DOMAIN s.cmds /\ u.cmds[m] = s.cmds[m]
        BY <1>5, <2>5, <3>2
      <4>2. \A i \in DOMAIN u.cmds : i < m => i \in DOMAIN s.cmds /\ u.cmds[i] = s.cmds[i]
        BY <1>5, <2>5, <4>1
      <4> QED BY <1>4, <2>1, <2>2, <4>1, <4>2 DEF CommandsNewer
    <3> QED BY <3>1, <3>2
  <2> QED BY <1>4, <2>3, <2>4, <2>5
<1>8. PlayOK(u, heard)
  BY <1>4, <1>6, <1>7 DEF PlayOK
<1> QED BY <1>4, <1>8 DEF u, Still

\* The signal of the track that is seen.
Hearing(s) == IF s.signal.track = s.seen.track THEN s.signal ELSE NewSignal(s.seen.track)

\* What a new signal must not forget.
Grown(s, signal) ==
    /\ SignalShape(signal) /\ signal.track = s.seen.track
    /\ \A what \in {"skip", "now_playing", "submission"} : Covers(Hearing(s), what) => Covers(signal, what)
    /\ Hearing(s).abandoned = TRUE => signal.abandoned = TRUE

\* Handlers that change the signal, and what was said.
Spoken(s, u) ==
    /\ DOMAIN u = PlayFields /\ u.seen = s.seen /\ u.cmds = s.cmds /\ u.loads = s.loads
    /\ u.signalled = s.signalled /\ u.output_on = s.output_on
    /\ u.phase = s.phase /\ u.room = s.room /\ u.queue = s.queue

LEMMA HearingShape ==
    ASSUME NEW s, NEW heard, PlayOK(s, heard)
    PROVE  /\ SignalShape(Hearing(s)) /\ Hearing(s).track = s.seen.track
           /\ s.signal.track # s.seen.track => \A what : ~Covers(Hearing(s), what)
BY DEF Hearing, PlayOK, PlayShape, SignalShape, NewSignal, Covers

LEMMA SpokenCalm == ASSUME NEW s, NEW u, Spoken(s, u) PROVE Calm(s, u)
BY DEF Spoken, Calm, Still, Quiet

LEMMA NotedOK ==
    ASSUME NEW s, NEW heard, PlayOK(s, heard), NEW u, Spoken(s, u), u.reports = s.reports, Grown(s, u.signal)
    PROVE  PlayOK(u, heard)
<1>1. Remembers(u.reports, u.seen, u.signal)
  <2> SUFFICES ASSUME u.seen.track # NoTrack, NEW i \in DOMAIN u.reports, u.reports[i].load = u.seen.load
               PROVE  u.signal.track = u.seen.track /\ Covers(u.signal, u.reports[i].what)
    BY DEF Remembers
  <2>1. s.signal.track = s.seen.track /\ Covers(s.signal, s.reports[i].what)
    BY DEF PlayOK, Remembers, Spoken
  <2>2. Covers(Hearing(s), s.reports[i].what) /\ s.reports[i].what \in {"skip", "now_playing", "submission"}
    BY <2>1 DEF Hearing, Covers
  <2> QED BY <2>2 DEF Grown, Spoken
<1> QED BY <1>1 DEF PlayOK, PlayShape, Spoken, Grown

LEMMA SaidOK ==
    ASSUME NEW s, NEW heard, PlayOK(s, heard), s.seen.track # NoTrack, s.signalled # {},
           NEW what \in {"skip", "now_playing", "submission"}, ~Covers(Hearing(s), what),
           Hearing(s).abandoned = FALSE,
           NEW u, Spoken(s, u), Grown(s, u.signal), Covers(u.signal, what),
           u.reports = Append(s.reports, [load |-> s.seen.load, what |-> what])
    PROVE  PlayOK(u, heard)
<1> DEFINE new == Len(s.reports) + 1
<1>1. /\ IsList(u.reports) /\ Len(s.reports) \in Nat /\ DOMAIN s.reports = 1 .. Len(s.reports)
      /\ DOMAIN u.reports = 1 .. new
      /\ u.reports[new].load = s.seen.load /\ u.reports[new].what = what
      /\ \A i \in 1 .. Len(s.reports) : u.reports[i] = s.reports[i]
  BY AppendFacts DEF PlayOK, PlayShape
<1>2. \A i \in DOMAIN u.reports : i = new \/ (i \in DOMAIN s.reports /\ u.reports[i] = s.reports[i])
  BY <1>1
<1>3. \A i \in DOMAIN s.reports : s.reports[i].load = s.seen.load =>
          /\ s.signal.track = s.seen.track /\ Covers(Hearing(s), s.reports[i].what)
          /\ s.reports[i].what \in {"skip", "now_playing", "submission"}
  BY DEF PlayOK, Remembers, Hearing, Covers
<1>4. /\ CommandsNewer(s.cmds, s.loads, s.seen, heard, s.reports)
      /\ HeardNewer(s.loads, s.seen, heard, s.reports) /\ s.loads \in Nat
  BY DEF PlayOK, PlayShape
<1>5. s.seen.load \in Nat /\ s.seen.load <= s.loads
  BY <1>4 DEF HeardNewer, Before
<1>6. CommandsNewer(u.cmds, u.loads, u.seen, heard, u.reports)
  BY <1>1, <1>2, <1>4 DEF CommandsNewer, Before, Spoken
<1>7. HeardNewer(u.loads, u.seen, heard, u.reports)
  BY <1>1, <1>2, <1>4, <1>5 DEF HeardNewer, Before, Spoken
<1>8. Remembers(u.reports, u.seen, u.signal)
  BY <1>1, <1>2, <1>3 DEF Remembers, Grown, Spoken
<1>9. OnceEach(u.reports)
  <2> SUFFICES ASSUME NEW i \in DOMAIN u.reports, NEW j \in DOMAIN u.reports,
                      i < j, u.reports[i].load = u.reports[j].load
               PROVE  u.reports[i].what \notin {"skip", u.reports[j].what}
    BY DEF OnceEach
  <2>1. i \in DOMAIN s.reports /\ u.reports[i] = s.reports[i]
    BY <1>1
  <2>2. CASE j = new
    <3>1. Covers(Hearing(s), s.reports[i].what)
      BY <1>1, <1>3, <2>1, <2>2
    <3>2. s.reports[i].what # what
      BY <3>1
    <3>3. s.reports[i].what # "skip"
      BY <3>1 DEF Covers
    <3> QED BY <1>1, <2>1, <2>2, <3>2, <3>3
  <2>3. CASE j # new
    BY <1>2, <2>1, <2>3 DEF PlayOK, OnceEach
  <2> QED BY <2>2, <2>3
<1> QED BY <1>1, <1>6, <1>7, <1>8, <1>9 DEF PlayOK, PlayShape, Spoken, Grown

\* One verdict for each load.
LEMMA NoteAbandonmentOK ==
    ASSUME NEW s, NEW heard, PlayOK(s, heard), NEW next
    PROVE  PlayOK(NoteAbandonment(s, next), heard) /\ Calm(s, NoteAbandonment(s, next))
<1> DEFINE sig == Hearing(s)
           told == [sig EXCEPT !.abandoned = TRUE]
           u == [WithSkip(s) EXCEPT !.signal = told]
<1>0. SignalShape(sig) /\ sig.track = s.seen.track
  BY HearingShape
<1>1. CASE ~s.events_enabled \/ s.seen.track \in {NoTrack, next} \/ sig.abandoned
  <2>1. NoteAbandonment(s, next) = s
    BY <1>1 DEF NoteAbandonment, Hearing
  <2> QED BY <2>1 DEF Calm, Still, Quiet
<1>2. CASE ~(~s.events_enabled \/ s.seen.track \in {NoTrack, next} \/ sig.abandoned)
  <2>1. NoteAbandonment(s, next) = u
    BY <1>2 DEF NoteAbandonment, Hearing
  <2>2. SignalShape(told) /\ told.track = s.seen.track /\ told.abandoned = TRUE
        /\ told.now_playing = sig.now_playing /\ told.submission = sig.submission
    BY <1>0 DEF SignalShape
  <2>3. sig.abandoned = FALSE
    BY <1>0, <1>2 DEF SignalShape
  <2>4. Grown(s, told) /\ Covers(told, "skip") /\ ~Covers(sig, "skip")
    BY <2>2, <2>3 DEF Grown, Covers
  <2> HIDE DEF told
  <2>5. CASE Skips(s)
    <3> DEFINE r == Report(s, "skip")
    <3>1. /\ DOMAIN r = PlayFields /\ r.seen = s.seen /\ r.cmds = s.cmds /\ r.loads = s.loads
          /\ r.signalled = s.signalled /\ r.output_on = s.output_on
          /\ r.phase = s.phase /\ r.room = s.room /\ r.queue = s.queue
          /\ r.reports = Append(s.reports, [load |-> s.seen.load, what |-> "skip"])
      BY DEF Report, PlayOK, PlayShape, PlayFields
    <3>2. u = [[r EXCEPT !.outbox = Append(@, NewEvent(s.seen.track))] EXCEPT !.signal = told]
      BY <2>5 DEF WithSkip
    <3> HIDE DEF r
    <3>3. Spoken(s, u) /\ u.signal = told
          /\ u.reports = Append(s.reports, [load |-> s.seen.load, what |-> "skip"])
      BY <3>1, <3>2 DEF Spoken, PlayFields
    <3>4. s.signalled # {} /\ s.seen.track # NoTrack
      BY <1>2, <2>5 DEF Skips
    <3> HIDE DEF u, sig
    <3>5. ~Covers(Hearing(s), "skip") /\ Hearing(s).abandoned = FALSE
      BY <2>3, <2>4 DEF sig
    <3>6. PlayOK(u, heard)
      BY <2>4, <3>3, <3>4, <3>5, SaidOK
    <3> QED BY <2>1, <3>3, <3>6, SpokenCalm
  <2>6. CASE ~Skips(s)
    <3>1. u = [s EXCEPT !.signal = told]
      BY <2>6 DEF WithSkip
    <3>2. Spoken(s, u) /\ u.signal = told /\ u.reports = s.reports
      BY <3>1 DEF Spoken, PlayOK, PlayShape, PlayFields
    <3> HIDE DEF u
    <3> QED BY <2>1, <2>4, <3>2, NotedOK, SpokenCalm
  <2> QED BY <2>5, <2>6
<1> QED BY <1>1, <1>2

LEMMA ScrobbleOK ==
    ASSUME NEW s, NEW heard, PlayOK(s, heard)
    PROVE  PlayOK(Scrobble(s), heard) /\ Calm(s, Scrobble(s))
<1> DEFINE sig == Hearing(s)
           said == EvaluateScrobble(s, sig)
           new == [sig EXCEPT !.now_playing = @ \/ said = "now_playing",
                              !.submission = @ \/ said = "submission"]
           told == IF said = "none" THEN s ELSE Report(s, said)
           u == [told EXCEPT !.signal = new]
<1>0. SignalShape(sig) /\ sig.track = s.seen.track
  BY HearingShape
<1>1. CASE s.seen.track = NoTrack \/ s.signalled = {}
  <2>1. Scrobble(s) = s
    BY <1>1 DEF Scrobble
  <2> QED BY <2>1 DEF Calm, Still, Quiet
<1>2. CASE ~(s.seen.track = NoTrack \/ s.signalled = {})
  <2>1. Scrobble(s) = u
    BY <1>2 DEF Scrobble, Hearing
  <2>2. /\ said \in {"none", "now_playing", "submission"}
        /\ said # "none" => sig.abandoned = FALSE
        /\ said = "now_playing" => sig.now_playing = FALSE
        /\ said = "submission" => sig.submission = FALSE
    BY <1>0 DEF EvaluateScrobble, SignalShape
  <2> HIDE DEF said
  <2>3. /\ SignalShape(new) /\ new.track = s.seen.track /\ new.abandoned = sig.abandoned
        /\ new.now_playing = (sig.now_playing \/ said = "now_playing")
        /\ new.submission = (sig.submission \/ said = "submission")
    BY <1>0 DEF SignalShape
  <2>4. Grown(s, new) /\ (said # "none" => Covers(new, said) /\ ~Covers(sig, said))
    BY <1>0, <2>2, <2>3 DEF Grown, Covers, SignalShape
  <2> HIDE DEF new
  <2>5. CASE said # "none"
    <3>1. /\ DOMAIN told = PlayFields /\ told.seen = s.seen /\ told.cmds = s.cmds /\ told.loads = s.loads
          /\ told.signalled = s.signalled /\ told.output_on = s.output_on
          /\ told.phase = s.phase /\ told.room = s.room /\ told.queue = s.queue
          /\ told.reports = Append(s.reports, [load |-> s.seen.load, what |-> said])
      BY <2>5 DEF Report, PlayOK, PlayShape, PlayFields
    <3> HIDE DEF told
    <3>2. Spoken(s, u) /\ u.signal = new
          /\ u.reports = Append(s.reports, [load |-> s.seen.load, what |-> said])
      BY <3>1 DEF Spoken, PlayFields
    <3> HIDE DEF u, sig
    <3>3. ~Covers(Hearing(s), said) /\ Hearing(s).abandoned = FALSE
      BY <2>2, <2>4, <2>5 DEF sig
    <3>4. PlayOK(u, heard)
      BY <1>2, <2>2, <2>4, <2>5, <3>2, <3>3, SaidOK
    <3> QED BY <2>1, <3>2, <3>4, SpokenCalm
  <2>6. CASE said = "none"
    <3>1. u = [s EXCEPT !.signal = new]
      BY <2>6
    <3>2. Spoken(s, u) /\ u.signal = new /\ u.reports = s.reports
      BY <3>1 DEF Spoken, PlayOK, PlayShape, PlayFields
    <3> HIDE DEF u
    <3> QED BY <2>1, <2>4, <3>2, NotedOK, SpokenCalm
  <2> QED BY <2>5, <2>6
<1> QED BY <1>1, <1>2

\* Handlers that touch neither sound nor signal, nor anything a room dictates.
Aside(s, u) == Mute(s, u) /\ Still(s, u)

LEMMA AsideOK ==
    ASSUME NEW s, NEW heard, PlayOK(s, heard), NEW u, Aside(s, u) PROVE PlayOK(u, heard) /\ Calm(s, u)
BY MuteOK DEF Aside, Mute, Calm, Quiet

LEMMA CalmTrans == ASSUME NEW s, NEW t, NEW u, Calm(s, t), Calm(t, u) PROVE Calm(s, u)
BY DEF Calm, Still, Quiet

LEMMA CalmSelf == ASSUME NEW s PROVE Calm(s, s)
BY DEF Calm, Still, Quiet

LEMMA SubmitAside == ASSUME NEW s, NEW heard, PlayOK(s, heard), NEW ops PROVE Aside(s, Submit(s, ops))
BY DEF Aside, Mute, Still, Submit, PlayOK, PlayShape, PlayFields

LEMMA SentOK ==
    ASSUME NEW s, NEW heard, PlayOK(s, heard), NEW ops
    PROVE  PlayOK(Submit(s, ops), heard) /\ Calm(s, Submit(s, ops))
BY SubmitAside, AsideOK

LEMMA FetchOK ==
    ASSUME NEW s, NEW heard, PlayOK(s, heard), NEW f
    PROVE  PlayOK(Fetch(s, f), heard) /\ Calm(s, Fetch(s, f))
<1>1. Aside(s, Fetch(s, f))
  <2> DEFINE bag == s.fetches (+) SetToBag({f})
  <2>1. Fetch(s, f) = [s EXCEPT !.fetches = bag]
    BY DEF Fetch
  <2> HIDE DEF bag
  <2> QED BY <2>1 DEF Aside, Mute, Still, PlayOK, PlayShape, PlayFields
<1> QED BY <1>1, AsideOK

LEMMA PrefetchNextOK ==
    ASSUME NEW s, NEW heard, PlayOK(s, heard)
    PROVE  PlayOK(PrefetchNext(s), heard) /\ Calm(s, PrefetchNext(s))
BY FetchOK, CalmSelf DEF PrefetchNext

LEMMA HydrateMissingOK ==
    ASSUME NEW s, NEW heard, PlayOK(s, heard)
    PROVE  PlayOK(HydrateMissing(s), heard) /\ Calm(s, HydrateMissing(s))
<1>1. CASE Missing(s) = {}
  BY <1>1, CalmSelf DEF HydrateMissing
<1>2. CASE Missing(s) # {}
  <2> DEFINE ids == s.hydrating \cup Missing(s)
             all == s.hydrations \cup {Missing(s)}
  <2>1. HydrateMissing(s) = [s EXCEPT !.hydrating = ids, !.hydrations = all]
    BY <1>2 DEF HydrateMissing
  <2> HIDE DEF ids, all
  <2>2. Aside(s, HydrateMissing(s))
    BY <2>1 DEF Aside, Mute, Still, PlayOK, PlayShape, PlayFields
  <2> QED BY <2>2, AsideOK
<1> QED BY <1>1, <1>2

LEMMA AutoSkipOK ==
    ASSUME NEW s, NEW heard, PlayOK(s, heard)
    PROVE  PlayOK(AutoSkip(s), heard) /\ Calm(s, AutoSkip(s))
<1> DEFINE t == HydrateMissing(s)
           ops == <<IF NextPlayable(s) = 0 THEN SetPlaying(FALSE) ELSE SetNowPlaying(NextPlayable(s))>>
<1>1. PlayOK(t, heard) /\ Calm(s, t)
  BY HydrateMissingOK
<1>2. AutoSkip(s) = Submit(t, ops)
  BY DEF AutoSkip
<1> HIDE DEF t, ops
<1> QED BY <1>1, <1>2, SentOK, CalmTrans

\* The bytes of the current track are loaded if they are there, else asked for.
LEMMA StartCurrentOK ==
    ASSUME NEW s, NEW heard, PlayOK(s, heard)
    PROVE  PlayOK(StartCurrent(s), heard) /\ Still(s, StartCurrent(s))
<1> DEFINE t == Current(s.queue)
           ask == [what |-> "resolve", index |-> s.queue.current, track |-> t]
           u == [s EXCEPT !.prefetched = NoTrack]
           w == [s EXCEPT !.pending = s.queue.current]
<1>1. PlayOK(u, heard) /\ Calm(s, u) /\ PlayOK(w, heard) /\ Calm(s, w)
  <2>1. Aside(s, u) /\ Aside(s, w)
    BY DEF Aside, Mute, Still, PlayOK, PlayShape, PlayFields
  <2> QED BY <2>1, AsideOK
<1>2. StartCurrent(s) = IF ~s.device \/ t = NoTrack THEN s
                        ELSE IF s.prefetched = t THEN PrefetchNext(Load(u, t)) ELSE Fetch(w, ask)
  BY DEF StartCurrent
<1> HIDE DEF t, ask, u, w
<1>3. PlayOK(Load(u, t), heard) /\ Still(u, Load(u, t))
  BY <1>1, LoadOK
<1>4. PlayOK(PrefetchNext(Load(u, t)), heard) /\ Calm(Load(u, t), PrefetchNext(Load(u, t)))
  BY <1>3, PrefetchNextOK
<1>5. PlayOK(Fetch(w, ask), heard) /\ Calm(w, Fetch(w, ask))
  BY <1>1, FetchOK
<1> QED BY <1>1, <1>2, <1>3, <1>4, <1>5 DEF Calm, Still

\* A new cursor, before anything is started for it.
Cued(s, u) == Mute(s, u) /\ u.phase = s.phase

LEMMA CuedOK ==
    ASSUME NEW s, NEW heard, PlayOK(s, heard), NEW u, Cued(s, u) PROVE PlayOK(u, heard) /\ u.phase = s.phase
BY MuteOK DEF Cued

LEMMA StartCurrentPlayableOK ==
    ASSUME NEW s, NEW heard, PlayOK(s, heard)
    PROVE  PlayOK(StartCurrentPlayable(s), heard) /\ StartCurrentPlayable(s).phase = s.phase
<1> DEFINE rest == {i \in DOMAIN s.queue.items :
                       i >= s.queue.current /\ ~RowDisliked(s, s.queue.items[i])}
           at == IF s.queue.current = 0 \/ rest = {} THEN 0
                 ELSE CHOOSE i \in rest : \A j \in rest : i <= j
           s2 == [s EXCEPT !.queue.current = at]
<1>1. StartCurrentPlayable(s) = IF at = 0 THEN Stopped(s2) ELSE StartCurrent(s2)
  BY DEF StartCurrentPlayable
<1> HIDE DEF at
<1>2. Cued(s, s2)
  BY DEF Cued, Mute, PlayOK, PlayShape, PlayFields
<1> HIDE DEF s2
<1>4. PlayOK(s2, heard) /\ s2.phase = s.phase
  BY <1>2, CuedOK
<1>5. PlayOK(Stopped(s2), heard) /\ Still(s2, Stopped(s2))
  BY <1>4, StoppedOK DEF Calm
<1>6. PlayOK(StartCurrent(s2), heard) /\ Still(s2, StartCurrent(s2))
  BY <1>4, StartCurrentOK
<1> QED BY <1>1, <1>4, <1>5, <1>6 DEF Still

\* A remote commands nothing when the room changes.
LEMMA DriveAudioOK ==
    ASSUME NEW s, NEW heard, PlayOK(s, heard), NEW t
    PROVE  PlayOK(DriveAudio(s, t), heard) /\ Calm(s, DriveAudio(s, t))
<1>1. CASE ~s.output_on \/ ~s.device
  BY <1>1, CalmSelf DEF DriveAudio
<1>2. CASE s.output_on /\ s.device
  <2>1. DriveAudio(s, t) \in {s, Command(s, Do("play")), Command(s, Do("pause")), StartCurrent(s), Stopped(s)}
    BY <1>2, Zenon DEF DriveAudio
  <2>2. /\ PlayOK(Command(s, Do("play")), heard) /\ Still(s, Command(s, Do("play")))
        /\ PlayOK(Command(s, Do("pause")), heard) /\ Still(s, Command(s, Do("pause")))
    BY CommandOK DEF Do, Orders
  <2>3. PlayOK(Stopped(s), heard) /\ Still(s, Stopped(s)) /\ PlayOK(StartCurrent(s), heard) /\ Still(s, StartCurrent(s))
    BY StoppedOK, StartCurrentOK DEF Calm
  <2>4. PlayOK(DriveAudio(s, t), heard) /\ Still(s, DriveAudio(s, t))
    <3>1. Still(s, s)
      BY DEF Still
    <3> QED BY <2>1, <2>2, <2>3, <3>1
  <2> QED BY <1>2, <2>4 DEF Calm
<1> QED BY <1>1, <1>2

LEMMA FollowOK ==
    ASSUME NEW s, NEW heard, PlayOK(s, heard)
    PROVE  PlayOK(Follow(s), heard) /\ Calm(s, Follow(s))
<1> DEFINE t == CursorTrack(s)
           advanced == s.last_classified # t
           s2 == [s EXCEPT !.last_classified = t, !.direct_play = IF @ = t THEN NoTrack ELSE @]
           idle == [s EXCEPT !.last_classified = NoTrack]
           still == IF s.seen.track # NoTrack /\ s.output_on THEN Stopped(idle) ELSE idle
           skip == s.direct_play # t /\ s.output_on /\ advanced /\ TrackDisliked(s, t)
<1>1. Follow(s) \in {HydrateMissing(still), AutoSkip(s2), HydrateMissing(DriveAudio(s2, t))}
  <2>1. CASE t = NoTrack
    BY <2>1 DEF Follow
  <2>2. CASE t # NoTrack /\ skip
    BY <2>2 DEF Follow
  <2>3. CASE t # NoTrack /\ ~skip
    BY <2>3 DEF Follow
  <2> QED BY <2>1, <2>2, <2>3
<1>2. PlayOK(s2, heard) /\ Calm(s, s2) /\ PlayOK(idle, heard) /\ Calm(s, idle)
  <2>1. Aside(s, s2) /\ Aside(s, idle)
    BY DEF Aside, Mute, Still, PlayOK, PlayShape, PlayFields
  <2> QED BY <2>1, AsideOK
<1> HIDE DEF t, advanced, s2, idle, skip
<1>3. PlayOK(still, heard) /\ Calm(s, still)
  BY <1>2, StoppedOK, CalmTrans
<1> HIDE DEF still
<1>4. PlayOK(HydrateMissing(still), heard) /\ Calm(s, HydrateMissing(still))
  BY <1>3, HydrateMissingOK, CalmTrans
<1>5. PlayOK(AutoSkip(s2), heard) /\ Calm(s, AutoSkip(s2))
  BY <1>2, AutoSkipOK, CalmTrans
<1>6. PlayOK(DriveAudio(s2, t), heard) /\ Calm(s, DriveAudio(s2, t))
  BY <1>2, DriveAudioOK, CalmTrans
<1>7. PlayOK(HydrateMissing(DriveAudio(s2, t)), heard) /\ Calm(s, HydrateMissing(DriveAudio(s2, t)))
  BY <1>6, HydrateMissingOK, CalmTrans
<1> QED BY <1>1, <1>4, <1>5, <1>7

LEMMA FollowIfOnlineOK ==
    ASSUME NEW s, NEW heard, PlayOK(s, heard)
    PROVE  PlayOK(FollowIfOnline(s), heard) /\ Calm(s, FollowIfOnline(s))
BY FollowOK, CalmSelf DEF FollowIfOnline

\* The queue of a room is its projection; a remote adds no sound to the channel.
Projected(s) == s.phase = "Online" => s.queue = SetItems(Tracks(s.room), s.room.now_playing_index)
Silenced(s) == s.phase = "Online" /\ s.output_on = FALSE
Loyal(s, u) ==
    /\ Projected(u)
    /\ Silenced(s) /\ Silenced(u) => Quiet(s.cmds, u.cmds)

LEMMA CalmLoyal == ASSUME NEW s, Projected(s), NEW u, Calm(s, u) PROVE Loyal(s, u)
BY DEF Calm, Still, Loyal, Projected, Silenced

\* Out of a room nothing is promised, and no gesture enters one.
LEMMA ApartLoyal == ASSUME NEW s, NEW u, u.phase # "Online" PROVE Loyal(s, u)
BY DEF Loyal, Projected, Silenced

\* A changed field that no promise is about.
LEMMA RoomToggleOK ==
    ASSUME NEW s, NEW heard, PlayOK(s, heard)
    PROVE  PlayOK(RoomToggle(s), heard) /\ Calm(s, RoomToggle(s))
<1> DEFINE t == [s EXCEPT !.advance_dir = 1]
           ops == <<SetNowPlaying(1), SetPlaying(TRUE)>>
           ops2 == <<SetPlaying(~s.room.is_playing)>>
<1>1. RoomToggle(s) \in {s, Submit(t, ops), Submit(s, ops2)}
  BY DEF RoomToggle
<1>2. Aside(s, t)
  BY DEF Aside, Mute, Still, PlayOK, PlayShape, PlayFields
<1> HIDE DEF t, ops, ops2
<1>3. PlayOK(t, heard) /\ Calm(s, t)
  BY <1>2, AsideOK
<1>4. PlayOK(Submit(t, ops), heard) /\ Calm(s, Submit(t, ops))
  BY <1>3, SentOK, CalmTrans
<1> QED BY <1>1, <1>4, SentOK, CalmSelf

LEMMA RoomAdvanceOK ==
    ASSUME NEW s, NEW heard, PlayOK(s, heard), NEW manual
    PROVE  PlayOK(RoomAdvance(s, manual), heard) /\ Calm(s, RoomAdvance(s, manual))
<1> DEFINE i == s.room.now_playing_index
           t == [s EXCEPT !.advance_dir = 1]
           noted == IF manual THEN NoteAbandonment(t, Tracks(s.room)[i + 1]) ELSE t
           next == Submit(noted, <<SetNowPlaying(i + 1)>>)
           last == IF ~manual /\ s.room.is_playing THEN Submit(t, <<SetPlaying(FALSE)>>) ELSE t
<1>1. Aside(s, t)
  BY DEF Aside, Mute, Still, PlayOK, PlayShape, PlayFields
<1>2. RoomAdvance(s, manual) = CASE i = 0                             -> s
                                 [] i # 0 /\ i < Len(s.room.items)  -> next
                                 [] OTHER                           -> last
  BY DEF RoomAdvance
<1> HIDE DEF t
<1>3. PlayOK(t, heard) /\ Calm(s, t)
  BY <1>1, AsideOK
<1>4. PlayOK(noted, heard) /\ Calm(s, noted)
  BY <1>3, NoteAbandonmentOK, CalmTrans
<1> HIDE DEF noted
<1>5. PlayOK(next, heard) /\ Calm(s, next)
  BY <1>4, SentOK, CalmTrans
<1>6. PlayOK(last, heard) /\ Calm(s, last)
  BY <1>3, SentOK, CalmTrans
<1> HIDE DEF next, last, i
<1> QED BY <1>2, <1>5, <1>6, CalmSelf

\* A step back, or a restart of what is heard here.
LEMMA RoomPrevOK ==
    ASSUME NEW s, NEW heard, PlayOK(s, heard)
    PROVE  PlayOK(RoomPrev(s), heard) /\ Calm(s, RoomPrev(s))
<1> DEFINE i == s.room.now_playing_index
           again == Command(s, Do("restart"))
           first == IF s.output_on /\ s.room.is_playing THEN StartCurrent(s) ELSE s
           noted == NoteAbandonment(s, Tracks(s.room)[i - 1])
           t == [noted EXCEPT !.advance_dir = -1]
           back == Submit(t, <<SetNowPlaying(i - 1)>>)
<1>1. RoomPrev(s) \in {s, again, first, back}
  <2> DEFINE loaded == i # 0 /\ s.seen.track = CursorTrack(s)
             deep == loaded /\ (s.seen.position >= Deep \/ i = 1)
  <2>1. CASE deep
    BY <2>1 DEF RoomPrev
  <2>2. CASE ~deep /\ i = 0
    BY <2>2 DEF RoomPrev
  <2>3. CASE ~deep /\ i = 1
    BY <2>3 DEF RoomPrev
  <2>4. CASE ~deep /\ i \notin {0, 1}
    BY <2>4 DEF RoomPrev
  <2> QED BY <2>1, <2>2, <2>3, <2>4
<1>2. PlayOK(again, heard) /\ Calm(s, again)
  BY CommandOK DEF Do, Orders
<1>3. PlayOK(first, heard) /\ Calm(s, first)
  BY StartCurrentOK, CalmSelf DEF Calm
<1>4. PlayOK(noted, heard) /\ Calm(s, noted)
  BY NoteAbandonmentOK
<1> HIDE DEF noted, again, first
<1>5. Aside(noted, t)
  BY <1>4 DEF Aside, Mute, Still, PlayOK, PlayShape, PlayFields
<1> HIDE DEF t
<1>6. PlayOK(t, heard) /\ Calm(s, t)
  BY <1>4, <1>5, AsideOK, CalmTrans
<1>7. PlayOK(back, heard) /\ Calm(s, back)
  BY <1>6, SentOK, CalmTrans
<1> HIDE DEF back
<1> QED BY <1>1, <1>2, <1>3, <1>7, CalmSelf

LEMMA RoomRemoveOK ==
    ASSUME NEW s, NEW heard, PlayOK(s, heard), NEW sel
    PROVE  PlayOK(RoomRemove(s, sel), heard) /\ Calm(s, RoomRemove(s, sel))
<1> DEFINE t == IF s.room.now_playing_index = sel THEN NoteAbandonment(s, NoTrack) ELSE s
           ops == <<[type |-> "remove", item_id |-> s.room.items[sel].item_id]>>
<1>1. PlayOK(t, heard) /\ Calm(s, t)
  BY NoteAbandonmentOK, CalmSelf
<1>2. RoomRemove(s, sel) = Submit(t, ops)
  BY DEF RoomRemove
<1> HIDE DEF t, ops
<1> QED BY <1>1, <1>2, SentOK, CalmTrans

\* Playing on this device, which is heard from now on.
LEMMA PickedOK ==
    ASSUME NEW s, NEW heard, PlayOK(s, heard), NEW t
    PROVE  LET u == Picked(s, t)
           IN  PlayOK(u, heard) /\ u.phase = s.phase /\ u.room = s.room /\ u.queue = s.queue /\ u.output_on = TRUE
<1> DEFINE n == NoteAbandonment(s, t)
           u == [n EXCEPT !.direct_play = t, !.advance_dir = 1, !.output_on = TRUE]
<1>1. PlayOK(n, heard) /\ Still(s, n)
  BY NoteAbandonmentOK DEF Calm
<1>2. Picked(s, t) = u
  BY DEF Picked
<1> HIDE DEF n
<1>3. Mute(n, u) /\ u.phase = n.phase /\ u.room = n.room /\ u.queue = n.queue /\ u.output_on = TRUE
  BY <1>1 DEF Mute, PlayOK, PlayShape, PlayFields
<1> HIDE DEF u
<1> QED BY <1>1, <1>2, <1>3, MuteOK DEF Still

LEMMA RoomJumpOK ==
    ASSUME NEW s, NEW heard, PlayOK(s, heard), Projected(s), NEW sel
    PROVE  PlayOK(RoomJump(s, sel), heard) /\ Loyal(s, RoomJump(s, sel))
<1> DEFINE p == Picked(s, Tracks(s.room)[sel])
           ops == <<SetNowPlaying(sel)>> \o IF s.room.is_playing THEN << >> ELSE <<SetPlaying(TRUE)>>
           u == Submit(p, ops)
<1>1. PlayOK(p, heard) /\ p.phase = s.phase /\ p.room = s.room /\ p.queue = s.queue /\ p.output_on = TRUE
  BY PickedOK
<1>2. RoomJump(s, sel) = u
  BY DEF RoomJump
<1> HIDE DEF p, ops
<1>3. PlayOK(u, heard) /\ Still(p, u)
  BY <1>1, SentOK DEF Calm
<1> HIDE DEF u
<1> QED BY <1>1, <1>2, <1>3 DEF Loyal, Projected, Silenced, Still

LEMMA LearnOK ==
    ASSUME NEW s, NEW heard, PlayOK(s, heard), NEW tracks
    PROVE  PlayOK(Learn(s, tracks), heard) /\ Calm(s, Learn(s, tracks))
<1> DEFINE m == s.meta \cup Range(tracks)
           n == s.minted + Len(tracks)
<1>1. Learn(s, tracks) = [s EXCEPT !.meta = m, !.minted = n]
  BY DEF Learn
<1> HIDE DEF m, n
<1>2. Aside(s, Learn(s, tracks))
  BY <1>1 DEF Aside, Mute, Still, PlayOK, PlayShape, PlayFields
<1> QED BY <1>2, AsideOK

LEMMA PlayNewQueueOK ==
    ASSUME NEW s, NEW heard, PlayOK(s, heard), Projected(s), NEW tracks, NEW start
    PROVE  PlayOK(PlayNewQueue(s, tracks, start), heard) /\ Loyal(s, PlayNewQueue(s, tracks, start))
<1>1. CASE s.phase = "Online"
  <2> DEFINE p == Picked(s, tracks[start])
             t == Learn(p, tracks)
             ops == <<[type |-> "start_session", items |-> Mint(s, tracks), anchor_index |-> start,
                       session_id |-> "s"]>>
             u == Submit(t, ops)
  <2>1. PlayOK(p, heard) /\ p.phase = s.phase /\ p.room = s.room /\ p.queue = s.queue /\ p.output_on = TRUE
    BY PickedOK
  <2>2. PlayNewQueue(s, tracks, start) = u
    BY <1>1 DEF PlayNewQueue
  <2> HIDE DEF p, ops
  <2>3. PlayOK(t, heard) /\ Still(p, t)
    BY <2>1, LearnOK DEF Calm
  <2> HIDE DEF t
  <2>4. PlayOK(u, heard) /\ Still(t, u)
    BY <2>3, SentOK DEF Calm
  <2> HIDE DEF u
  <2> QED BY <2>1, <2>2, <2>3, <2>4 DEF Loyal, Projected, Silenced, Still
<1>2. CASE s.phase # "Online"
  <2> DEFINE n == NoteAbandonment(s, tracks[start])
             t == [n EXCEPT !.queue = Replace(tracks, start), !.prefetched = NoTrack, !.bare = {}]
  <2>1. PlayOK(n, heard) /\ n.phase = s.phase
    BY NoteAbandonmentOK DEF Calm, Still
  <2>2. PlayNewQueue(s, tracks, start) = StartCurrent(t)
    BY <1>2 DEF PlayNewQueue
  <2> HIDE DEF n
  <2>3. Cued(n, t)
    BY <2>1 DEF Cued, Mute, PlayOK, PlayShape, PlayFields
  <2> HIDE DEF t
  <2>4. PlayOK(t, heard) /\ t.phase = s.phase
    BY <2>1, <2>3, CuedOK
  <2>5. PlayOK(StartCurrent(t), heard) /\ StartCurrent(t).phase = s.phase
    BY <2>4, StartCurrentOK DEF Still
  <2> QED BY <1>2, <2>2, <2>5, ApartLoyal
<1> QED BY <1>1, <1>2

LEMMA EnqueueTracksOK ==
    ASSUME NEW s, NEW heard, PlayOK(s, heard), Projected(s), NEW tracks, NEW play_next
    PROVE  PlayOK(EnqueueTracks(s, tracks, play_next), heard) /\ Loyal(s, EnqueueTracks(s, tracks, play_next))
<1>1. CASE s.phase = "Online"
  <2> DEFINE t == Learn(s, tracks)
             ops == PushOps(s.room, Mint(s, tracks), play_next)
  <2>1. PlayOK(t, heard) /\ Calm(s, t)
    BY LearnOK
  <2>2. EnqueueTracks(s, tracks, play_next) = Submit(t, ops)
    BY <1>1 DEF EnqueueTracks
  <2> HIDE DEF t, ops
  <2> QED BY <2>1, <2>2, SentOK, CalmTrans, CalmLoyal
<1>2. CASE s.phase # "Online"
  <2> DEFINE q == IF play_next THEN EnqueueNext(s.queue, tracks) ELSE Enqueue(s.queue, tracks)
             b == s.bare \ Range(tracks)
             t == [s EXCEPT !.queue = q, !.bare = b]
  <2>1. EnqueueTracks(s, tracks, play_next) = t
    BY <1>2 DEF EnqueueTracks
  <2> HIDE DEF q, b
  <2>2. Cued(s, t)
    BY DEF Cued, Mute, PlayOK, PlayShape, PlayFields
  <2> HIDE DEF t
  <2> QED BY <1>2, <2>1, <2>2, CuedOK, ApartLoyal
<1> QED BY <1>1, <1>2

LEMMA ToggleOutputOK ==
    ASSUME NEW s, NEW heard, PlayOK(s, heard), Projected(s)
    PROVE  PlayOK(ToggleOutput(s), heard) /\ Loyal(s, ToggleOutput(s))
<1> DEFINE on == [s EXCEPT !.output_on = TRUE]
           off == [s EXCEPT !.output_on = FALSE]
<1>1. /\ Mute(s, on) /\ on.phase = s.phase /\ on.room = s.room /\ on.queue = s.queue /\ on.output_on = TRUE
      /\ Mute(s, off) /\ off.phase = s.phase /\ off.room = s.room /\ off.queue = s.queue
  BY DEF Mute, PlayOK, PlayShape, PlayFields
<1>2. CASE s.phase # "Online"
  BY <1>2, ApartLoyal DEF ToggleOutput
<1>3. CASE s.phase = "Online" /\ ~s.output_on
  <2>1. ToggleOutput(s) = Follow(on)
    BY <1>3 DEF ToggleOutput
  <2> HIDE DEF on
  <2>2. PlayOK(Follow(on), heard) /\ Still(on, Follow(on))
    BY <1>1, MuteOK, FollowOK DEF Calm
  <2> QED BY <1>1, <2>1, <2>2 DEF Loyal, Projected, Silenced, Still
<1>4. CASE s.phase = "Online" /\ s.output_on
  <2>1. ToggleOutput(s) = Stopped(off)
    BY <1>4 DEF ToggleOutput
  <2> HIDE DEF off
  <2>2. PlayOK(Stopped(off), heard) /\ Still(off, Stopped(off))
    BY <1>1, MuteOK, StoppedOK DEF Calm
  <2> QED BY <1>1, <1>4, <2>1, <2>2 DEF Loyal, Projected, Silenced, Still
<1> QED BY <1>2, <1>3, <1>4

\* The gestures of a terminal that is in no room.
LEMMA LocalToggleOK ==
    ASSUME NEW s, NEW heard, PlayOK(s, heard)
    PROVE  PlayOK(LocalToggle(s), heard) /\ LocalToggle(s).phase = s.phase
<1> DEFINE q == Jump(s.queue, 1)
           t == [s EXCEPT !.queue = q]
           s2 == IF s.queue.current = 0 THEN t ELSE s
           toggled == Command(s, Do("toggle"))
<1>1. LocalToggle(s) \in {toggled, StartCurrentPlayable(s2), s2}
  BY DEF LocalToggle
<1>2. Cued(s, t)
  <2> HIDE DEF q
  <2> QED BY DEF Cued, Mute, PlayOK, PlayShape, PlayFields
<1> HIDE DEF t
<1>3. PlayOK(s2, heard) /\ s2.phase = s.phase
  BY <1>2, CuedOK
<1>4. PlayOK(toggled, heard) /\ toggled.phase = s.phase
  BY CommandOK DEF Do, Orders, Still
<1> HIDE DEF s2, toggled
<1>5. PlayOK(StartCurrentPlayable(s2), heard) /\ StartCurrentPlayable(s2).phase = s.phase
  BY <1>3, StartCurrentPlayableOK
<1> QED BY <1>1, <1>3, <1>4, <1>5

LEMMA LocalNextOK ==
    ASSUME NEW s, NEW heard, PlayOK(s, heard)
    PROVE  PlayOK(LocalNext(s), heard) /\ LocalNext(s).phase = s.phase
<1> DEFINE q == Advance(s.queue)
           t == [s EXCEPT !.queue = q]
<1>1. LocalNext(s) \in {Stopped(t), StartCurrentPlayable(t)}
  BY DEF LocalNext
<1> HIDE DEF q
<1>2. Cued(s, t)
  BY DEF Cued, Mute, PlayOK, PlayShape, PlayFields
<1> HIDE DEF t
<1>3. PlayOK(t, heard) /\ t.phase = s.phase
  BY <1>2, CuedOK
<1> QED BY <1>1, <1>3, StoppedOK, StartCurrentPlayableOK DEF Calm, Still

LEMMA NextTrackOK ==
    ASSUME NEW s, NEW heard, PlayOK(s, heard), Projected(s), NEW manual
    PROVE  PlayOK(NextTrack(s, manual), heard) /\ Loyal(s, NextTrack(s, manual))
<1>1. CASE s.phase = "Online"
  BY <1>1, RoomAdvanceOK, CalmLoyal DEF NextTrack
<1>2. CASE s.phase # "Online"
  <2> DEFINE n == IF manual THEN NoteAbandonment(s, NoTrack) ELSE s
  <2>1. PlayOK(n, heard) /\ n.phase = s.phase
    BY NoteAbandonmentOK DEF Calm, Still
  <2>2. NextTrack(s, manual) = LocalNext(n)
    BY <1>2 DEF NextTrack
  <2> HIDE DEF n
  <2> QED BY <1>2, <2>1, <2>2, LocalNextOK, ApartLoyal
<1> QED BY <1>1, <1>2

LEMMA LocalPrevOK ==
    ASSUME NEW s, NEW heard, PlayOK(s, heard)
    PROVE  PlayOK(LocalPrev(s), heard) /\ LocalPrev(s).phase = s.phase
<1> DEFINE n == NoteAbandonment(s, NoTrack)
           q == Jump(n.queue, Behind(s))
           t == [n EXCEPT !.queue = q]
           again == Command(s, Do("restart"))
<1>1. LocalPrev(s) \in {s, again, StartCurrent(s), StartCurrent(t)}
  BY DEF LocalPrev
<1>2. PlayOK(n, heard) /\ n.phase = s.phase
  BY NoteAbandonmentOK DEF Calm, Still
<1> HIDE DEF n, q
<1>3. Cued(n, t)
  BY <1>2 DEF Cued, Mute, PlayOK, PlayShape, PlayFields
<1> HIDE DEF t
<1>4. PlayOK(t, heard) /\ t.phase = s.phase
  BY <1>2, <1>3, CuedOK
<1>5. PlayOK(StartCurrent(t), heard) /\ StartCurrent(t).phase = s.phase
  BY <1>4, StartCurrentOK DEF Still
<1>6. PlayOK(StartCurrent(s), heard) /\ StartCurrent(s).phase = s.phase
  BY StartCurrentOK DEF Still
<1>7. PlayOK(again, heard) /\ again.phase = s.phase
  BY CommandOK DEF Do, Orders, Still
<1> HIDE DEF again
<1> QED BY <1>1, <1>5, <1>6, <1>7

LEMMA LocalRemoveOK ==
    ASSUME NEW s, NEW heard, PlayOK(s, heard), NEW sel
    PROVE  PlayOK(LocalRemove(s, sel), heard) /\ LocalRemove(s, sel).phase = s.phase
<1> DEFINE was == s.queue.current = sel
           n == IF was THEN NoteAbandonment(s, NoTrack) ELSE s
           q == Remove(n.queue, sel)
           t == [n EXCEPT !.queue = q]
<1>1. LocalRemove(s, sel) \in {t, Stopped(t), StartCurrentPlayable(t)}
  <2>1. CASE ~was
    BY <2>1 DEF LocalRemove
  <2>2. CASE was /\ t.queue.items = << >>
    BY <2>2 DEF LocalRemove
  <2>3. CASE was /\ t.queue.items # << >>
    BY <2>3 DEF LocalRemove
  <2> QED BY <2>1, <2>2, <2>3
<1>2. PlayOK(n, heard) /\ n.phase = s.phase
  BY NoteAbandonmentOK DEF Calm, Still
<1> HIDE DEF n, q
<1>3. Cued(n, t)
  BY <1>2 DEF Cued, Mute, PlayOK, PlayShape, PlayFields
<1> HIDE DEF t
<1>4. PlayOK(t, heard) /\ t.phase = s.phase
  BY <1>2, <1>3, CuedOK
<1> QED BY <1>1, <1>4, StoppedOK, StartCurrentPlayableOK DEF Calm, Still

LEMMA LocalClearOK ==
    ASSUME NEW s, NEW heard, PlayOK(s, heard)
    PROVE  PlayOK(LocalClear(s), heard) /\ LocalClear(s).phase = s.phase
<1> DEFINE q == IF Current(s.queue) = NoTrack THEN Queue(<< >>, 0) ELSE Queue(<<Current(s.queue)>>, 1)
           t == [s EXCEPT !.queue = q, !.prefetched = NoTrack]
<1>1. LocalClear(s) = t
  BY DEF LocalClear
<1> HIDE DEF q
<1>2. Cued(s, t)
  BY DEF Cued, Mute, PlayOK, PlayShape, PlayFields
<1> HIDE DEF t
<1> QED BY <1>1, <1>2, CuedOK

LEMMA LocalJumpOK ==
    ASSUME NEW s, NEW heard, PlayOK(s, heard), NEW sel
    PROVE  PlayOK(LocalJump(s, sel), heard) /\ LocalJump(s, sel).phase = s.phase
<1> DEFINE n == NoteAbandonment(s, s.queue.items[sel])
           q == Jump(n.queue, sel)
           t == [n EXCEPT !.queue = q]
<1>1. LocalJump(s, sel) = StartCurrent(t)
  BY DEF LocalJump
<1>2. PlayOK(n, heard) /\ n.phase = s.phase
  BY NoteAbandonmentOK DEF Calm, Still
<1> HIDE DEF n, q
<1>3. Cued(n, t)
  BY <1>2 DEF Cued, Mute, PlayOK, PlayShape, PlayFields
<1> HIDE DEF t
<1>4. PlayOK(t, heard) /\ t.phase = s.phase
  BY <1>2, <1>3, CuedOK
<1> QED BY <1>1, <1>4, StartCurrentOK DEF Still

\* An answer for a row that is no longer current loads nothing, nor does one that
\* finds the output turned off.
LEMMA DisownOK ==
    ASSUME NEW s, NEW heard, PlayOK(s, heard), NEW f
    PROVE  PlayOK(Disown(s, f), heard) /\ Calm(s, Disown(s, f))
<1> DEFINE p == IF s.pending = f.index THEN 0 ELSE s.pending
           t == [s EXCEPT !.pending = p]
<1>1. Disown(s, f) = FollowIfOnline(t)
  BY DEF Disown
<1> HIDE DEF p
<1>2. Aside(s, t)
  BY DEF Aside, Mute, Still, PlayOK, PlayShape, PlayFields
<1> HIDE DEF t
<1> QED BY <1>1, <1>2, AsideOK, FollowIfOnlineOK, CalmTrans

LEMMA AudioReadyOK ==
    ASSUME NEW s, NEW heard, PlayOK(s, heard), Projected(s), NEW f
    PROVE  PlayOK(AudioReady(s, f), heard) /\ Loyal(s, AudioReady(s, f))
<1> DEFINE t == [s EXCEPT !.pending = 0]
           l == Load(s, f.track)
<1>1. CASE StaleFetch(s, f)
  BY <1>1, DisownOK, CalmLoyal DEF AudioReady
<1>2. CASE ~StaleFetch(s, f) /\ s.phase = "Online" /\ ~s.output_on
  <2>1. AudioReady(s, f) = t
    BY <1>2 DEF AudioReady
  <2>2. Aside(s, t)
    BY DEF Aside, Mute, Still, PlayOK, PlayShape, PlayFields
  <2> QED BY <2>1, <2>2, AsideOK, CalmLoyal
<1>3. CASE ~StaleFetch(s, f) /\ ~(s.phase = "Online" /\ ~s.output_on)
  <2>1. AudioReady(s, f) = PrefetchNext(l)
    BY <1>3 DEF AudioReady
  <2>2. PlayOK(l, heard) /\ Still(s, l)
    BY LoadOK
  <2> HIDE DEF l
  <2>3. PlayOK(PrefetchNext(l), heard) /\ Still(l, PrefetchNext(l))
    BY <2>2, PrefetchNextOK DEF Calm
  <2>4. Still(s, PrefetchNext(l))
    BY <2>2, <2>3 DEF Still
  <2>5. Loyal(s, PrefetchNext(l))
    BY <1>3, <2>4 DEF Loyal, Still, Projected, Silenced
  <2> QED BY <2>1, <2>3, <2>5
<1> QED BY <1>1, <1>2, <1>3

LEMMA AudioFailedOK ==
    ASSUME NEW s, NEW heard, PlayOK(s, heard), Projected(s), NEW f
    PROVE  PlayOK(AudioFailed(s, f), heard) /\ Loyal(s, AudioFailed(s, f))
<1> DEFINE t == [s EXCEPT !.pending = 0]
<1>1. CASE StaleFetch(s, f)
  BY <1>1, DisownOK, CalmLoyal DEF AudioFailed
<1>2. CASE ~StaleFetch(s, f)
  <2>1. AudioFailed(s, f) = NextTrack(t, FALSE)
    BY <1>2 DEF AudioFailed
  <2>2. Aside(s, t)
    BY DEF Aside, Mute, Still, PlayOK, PlayShape, PlayFields
  <2>3. /\ PlayOK(t, heard) /\ t.phase = s.phase /\ t.room = s.room /\ t.queue = s.queue
        /\ t.output_on = s.output_on /\ t.cmds = s.cmds
    BY <2>2, AsideOK DEF Aside, Mute, Still
  <2> HIDE DEF t
  <2>4. PlayOK(NextTrack(t, FALSE), heard) /\ Loyal(t, NextTrack(t, FALSE))
    BY <2>3, NextTrackOK DEF Projected
  <2> QED BY <2>1, <2>3, <2>4 DEF Loyal, Silenced
<1> QED BY <1>1, <1>2

LEMMA PrefetchReadyOK ==
    ASSUME NEW s, NEW heard, PlayOK(s, heard), NEW f
    PROVE  PlayOK(PrefetchReady(s, f), heard) /\ Calm(s, PrefetchReady(s, f))
<1> DEFINE t == [s EXCEPT !.prefetched = f.track]
<1>1. PrefetchReady(s, f) \in {s, t}
  BY DEF PrefetchReady
<1>2. Aside(s, t)
  BY DEF Aside, Mute, Still, PlayOK, PlayShape, PlayFields
<1> HIDE DEF t
<1> QED BY <1>1, <1>2, AsideOK, CalmSelf

LEMMA LoyalAfter ==
    ASSUME NEW s, NEW heard, PlayOK(s, heard), Projected(s), NEW t, Aside(s, t)
    PROVE  PlayOK(t, heard) /\ Projected(t) /\ \A u : Loyal(t, u) => Loyal(s, u)
BY AsideOK DEF Aside, Mute, Still, Loyal, Projected, Silenced

\* The room is adopted, projected, and followed.
LEMMA ReprojectOK ==
    ASSUME NEW s, NEW heard, PlayOK(s, heard), NEW t, Mute(s, t), t.output_on = s.output_on
    PROVE  PlayOK(Follow(Project(t)), heard) /\ Loyal(s, Follow(Project(t)))
<1> DEFINE q == SetItems(Tracks(t.room), t.room.now_playing_index)
           b == Range(Tracks(t.room)) \ t.meta
           p == [t EXCEPT !.queue = q, !.bare = b]
           u == Follow(p)
<1>1. Project(t) = p
  BY DEF Project
<1>2. PlayOK(t, heard)
  BY MuteOK
<1> HIDE DEF b
<1>3. /\ Mute(t, p) /\ p.phase = t.phase /\ p.room = t.room /\ p.output_on = t.output_on
      /\ p.queue = SetItems(Tracks(p.room), p.room.now_playing_index)
  <2>1. p.room = t.room /\ p.queue = q
    <3> HIDE DEF q
    <3> QED BY <1>2 DEF PlayOK, PlayShape, PlayFields
  <2> HIDE DEF q
  <2>2. Mute(t, p) /\ p.phase = t.phase /\ p.output_on = t.output_on
    BY <1>2 DEF Mute, PlayOK, PlayShape, PlayFields
  <2> QED BY <2>1, <2>2 DEF q
<1> HIDE DEF p
<1>4. PlayOK(u, heard) /\ Calm(p, u)
  BY <1>2, <1>3, MuteOK, FollowOK
<1> HIDE DEF u
<1>5. Projected(u)
  BY <1>3, <1>4 DEF Projected, Calm, Still
<1>6. Silenced(s) /\ Silenced(u) => Quiet(s.cmds, u.cmds)
  BY <1>3, <1>4 DEF Silenced, Calm, Still, Mute
<1> QED BY <1>1, <1>4, <1>5, <1>6 DEF Loyal, u

LEMMA AppliedOK ==
    ASSUME NEW s, NEW heard, PlayOK(s, heard), Projected(s), NEW op
    PROVE  PlayOK(Applied(s, op), heard) /\ Loyal(s, Applied(s, op))
<1> DEFINE r == Apply(s.room, op, 0)
           n == 1 - s.version
           h == IF op.type \in {"push", "start_session", "replace_upcoming"} THEN {} ELSE s.hydrate_failed
           t == [s EXCEPT !.room = r, !.version = n, !.hydrate_failed = h]
<1>1. Applied(s, op) \in {s, Follow(Project(t))}
  BY DEF Applied
<1> HIDE DEF r, n, h
<1>2. Mute(s, t) /\ t.output_on = s.output_on
  BY DEF Mute, PlayOK, PlayShape, PlayFields
<1> HIDE DEF t
<1> QED BY <1>1, <1>2, ReprojectOK, CalmSelf, CalmLoyal

LEMMA AdoptOK ==
    ASSUME NEW s, NEW heard, PlayOK(s, heard), NEW wire, NEW state
    PROVE  LET u == Adopt([s EXCEPT !.wire = wire], state) IN PlayOK(u, heard) /\ Loyal(s, u)
<1> DEFINE w == [s EXCEPT !.wire = wire]
           t == [w EXCEPT !.phase = "Online", !.room = state, !.hydrate_failed = {}]
<1>1. Adopt(w, state) = Follow(Project(t))
  BY DEF Adopt
<1>2. Mute(s, w) /\ w.output_on = s.output_on
  BY DEF Mute, PlayOK, PlayShape, PlayFields
<1> HIDE DEF w
<1>3. Mute(s, t) /\ t.output_on = s.output_on
  BY <1>2 DEF Mute, PlayFields
<1> HIDE DEF t
<1>4. PlayOK(Adopt(w, state), heard) /\ Loyal(s, Adopt(w, state))
  BY <1>1, <1>3, ReprojectOK
<1> QED BY <1>4 DEF w

LEMMA TracksHydratedOK ==
    ASSUME NEW s, NEW heard, PlayOK(s, heard), Projected(s), NEW ids, NEW resolved
    PROVE  PlayOK(TracksHydrated(s, ids, resolved), heard) /\ Loyal(s, TracksHydrated(s, ids, resolved))
<1> DEFINE h == s.hydrating \ ids
           hs == s.hydrations \ {ids}
           m == s.meta \cup resolved
           f == s.hydrate_failed \cup (ids \ resolved)
           s2 == [s EXCEPT !.hydrating = h, !.hydrations = hs, !.meta = m, !.hydrate_failed = f]
           s3 == IF CursorTrack(s) \in ids THEN [s2 EXCEPT !.last_classified = NoTrack] ELSE s2
<1>1. TracksHydrated(s, ids, resolved) = IF s.phase = "Online" THEN Follow(Project(s3)) ELSE s2
  BY DEF TracksHydrated
<1> HIDE DEF h, hs, m, f
<1>2. Mute(s, s2) /\ s2.phase = s.phase /\ s2.output_on = s.output_on
  BY DEF Mute, PlayOK, PlayShape, PlayFields
<1> HIDE DEF s2
<1>3. Mute(s, s3) /\ s3.output_on = s.output_on
  BY <1>2 DEF Mute, PlayFields
<1> HIDE DEF s3
<1> QED BY <1>1, <1>2, <1>3, ReprojectOK, MuteOK, ApartLoyal

LEMMA HydrationFailedOK ==
    ASSUME NEW s, NEW heard, PlayOK(s, heard), NEW ids
    PROVE  PlayOK(HydrationFailed(s, ids), heard) /\ Calm(s, HydrationFailed(s, ids))
<1> DEFINE h == s.hydrating \ ids
           hs == s.hydrations \ {ids}
           f == s.hydrate_failed \cup ids
<1>1. HydrationFailed(s, ids) = [s EXCEPT !.hydrating = h, !.hydrations = hs, !.hydrate_failed = f]
  BY DEF HydrationFailed
<1> HIDE DEF h, hs, f
<1>2. Aside(s, HydrationFailed(s, ids))
  BY <1>1 DEF Aside, Mute, Still, PlayOK, PlayShape, PlayFields
<1> QED BY <1>2, AsideOK

LEMMA FlushedOK ==
    ASSUME NEW s, NEW heard, PlayOK(s, heard)
    PROVE  PlayOK(Flushed(s), heard) /\ Calm(s, Flushed(s))
<1>1. Aside(s, Flushed(s))
  BY DEF Flushed, Aside, Mute, Still, PlayOK, PlayShape, PlayFields
<1> QED BY <1>1, AsideOK

LEMMA EventsFlushedOK ==
    ASSUME NEW s, NEW heard, PlayOK(s, heard), NEW ok
    PROVE  PlayOK(EventsFlushed(s, ok), heard) /\ Calm(s, EventsFlushed(s, ok))
<1> DEFINE o == IF ok THEN s.outbox ELSE Requeued(s.flushing) \o s.outbox
<1>1. EventsFlushed(s, ok) = [s EXCEPT !.flushing = << >>, !.outbox = o]
  BY DEF EventsFlushed
<1> HIDE DEF o
<1>2. Aside(s, EventsFlushed(s, ok))
  BY <1>1 DEF Aside, Mute, Still, PlayOK, PlayShape, PlayFields
<1> QED BY <1>2, AsideOK

\* The loop takes its snapshot: what is heard is now seen, and of what is heard
\* nothing was said that the signal forgot.
LEMMA SeenOK ==
    ASSUME NEW s, NEW heard, NEW t, PlayOK(t, heard), Loyal(s, t)
    PROVE  LET u == [t EXCEPT !.seen = heard] IN PlayOK(u, heard) /\ Loyal(s, u)
<1> DEFINE u == [t EXCEPT !.seen = heard]
<1>1. /\ DOMAIN u = PlayFields /\ u.seen = heard /\ u.signal = t.signal /\ u.cmds = t.cmds
      /\ u.reports = t.reports /\ u.loads = t.loads /\ u.signalled = t.signalled
      /\ u.output_on = t.output_on /\ u.phase = t.phase /\ u.room = t.room /\ u.queue = t.queue
  BY DEF PlayOK, PlayShape, PlayFields
<1> HIDE DEF u
<1>2. u.signalled # {} => /\ CommandsNewer(u.cmds, u.loads, u.seen, heard, u.reports)
                          /\ HeardNewer(u.loads, u.seen, heard, u.reports)
  BY <1>1 DEF PlayOK, CommandsNewer, HeardNewer
<1>3. Remembers(u.reports, u.seen, u.signal)
  <2>1. CASE t.signalled = {}
    BY <1>1, <2>1 DEF PlayOK, Remembers
  <2>2. CASE t.signalled # {}
    <3>1. HeardNewer(t.loads, t.seen, heard, t.reports) /\ Remembers(t.reports, t.seen, t.signal)
      BY <2>2 DEF PlayOK
    <3> QED BY <1>1, <3>1 DEF HeardNewer, Remembers, Before
  <2> QED BY <2>1, <2>2
<1>4. PlayOK(u, heard)
  BY <1>1, <1>2, <1>3 DEF PlayOK, PlayShape
<1>5. Loyal(s, u)
  BY <1>1 DEF Loyal, Projected, Silenced
<1> QED BY <1>4, <1>5 DEF u

-----------------------------------------------------------------------------
(* The audio thread. *)

\* What is heard stays, is paused or played on, or falls silent.
LEMMA HeardOK ==
    ASSUME NEW s, NEW heard, PlayOK(s, heard), NEW heard2, DOMAIN heard2 = SinkFields,
           heard2.track # NoTrack => heard2.track = heard.track /\ heard2.load = heard.load
    PROVE  PlayOK(s, heard2)
BY DEF PlayOK, CommandsNewer, HeardNewer, Before

\* A command leaves the channel, whatever becomes of it.
LEMMA TakenOK ==
    ASSUME NEW s, NEW heard, PlayOK(s, heard), s.cmds # << >>
    PROVE  LET u == [s EXCEPT !.cmds = Tail(@)]
           IN  /\ PlayOK(u, heard) /\ Still(s, u) /\ DOMAIN u.cmds \subseteq DOMAIN s.cmds
               /\ Head(s.cmds).do \in Orders
               /\ Head(s.cmds).do = "load" =>
                    \A heard2 : /\ DOMAIN heard2 = SinkFields
                                /\ heard2.track = Head(s.cmds).track /\ heard2.load = Head(s.cmds).load
                                => PlayOK(u, heard2)
<1> DEFINE u == [s EXCEPT !.cmds = Tail(s.cmds)]
<1>1. /\ DOMAIN u = PlayFields /\ u.seen = s.seen /\ u.signal = s.signal /\ u.cmds = Tail(s.cmds)
      /\ u.reports = s.reports /\ u.loads = s.loads /\ u.signalled = s.signalled
      /\ u.output_on = s.output_on /\ u.phase = s.phase /\ u.room = s.room /\ u.queue = s.queue
  BY DEF PlayOK, PlayShape, PlayFields
<1> HIDE DEF u
<1>2. /\ IsList(u.cmds) /\ Len(s.cmds) \in Nat /\ Len(s.cmds) > 0 /\ DOMAIN s.cmds = 1 .. Len(s.cmds)
      /\ DOMAIN u.cmds = 1 .. Len(s.cmds) - 1
      /\ Head(s.cmds) = s.cmds[1] /\ \A n \in DOMAIN u.cmds : u.cmds[n] = s.cmds[n + 1]
  BY <1>1, TailFacts DEF PlayOK, PlayShape
<1>3. \A n \in DOMAIN u.cmds : n + 1 \in DOMAIN s.cmds /\ u.cmds[n] = s.cmds[n + 1]
  BY <1>2
<1>4. \A m, n \in DOMAIN u.cmds : m < n => m + 1 < n + 1
  BY <1>2
<1>5. PlayShape(u)
  BY <1>1, <1>2, <1>3 DEF PlayOK, PlayShape
<1>6. ASSUME NEW heard2, s.signalled # {}, CommandsNewer(s.cmds, s.loads, s.seen, heard, s.reports),
             \A n \in DOMAIN u.cmds : u.cmds[n].do = "load" => Before(heard2, u.cmds[n].load)
      PROVE  CommandsNewer(u.cmds, u.loads, u.seen, heard2, u.reports)
  BY <1>1, <1>3, <1>4, <1>6 DEF CommandsNewer
<1>7. PlayOK(u, heard)
  <2>1. ASSUME s.signalled # {} PROVE CommandsNewer(u.cmds, u.loads, u.seen, heard, u.reports)
    <3>1. CommandsNewer(s.cmds, s.loads, s.seen, heard, s.reports)
      BY <2>1 DEF PlayOK
    <3>2. \A n \in DOMAIN u.cmds : u.cmds[n].do = "load" => Before(heard, u.cmds[n].load)
      BY <1>3, <3>1 DEF CommandsNewer
    <3> QED BY <1>6, <2>1, <3>1, <3>2
  <2> QED BY <1>1, <1>5, <2>1 DEF PlayOK
<1>8. ASSUME Head(s.cmds).do = "load", NEW heard2, DOMAIN heard2 = SinkFields,
             heard2.track = Head(s.cmds).track, heard2.load = Head(s.cmds).load
      PROVE  PlayOK(u, heard2)
  <2>1. ASSUME s.signalled # {}
        PROVE  /\ CommandsNewer(u.cmds, u.loads, u.seen, heard2, u.reports)
               /\ HeardNewer(u.loads, u.seen, heard2, u.reports)
    <3>1. /\ CommandsNewer(s.cmds, s.loads, s.seen, heard, s.reports)
          /\ HeardNewer(s.loads, s.seen, heard, s.reports) /\ s.loads \in Nat
      BY <2>1 DEF PlayOK, PlayShape
    <3>2. /\ heard2.load \in Nat /\ heard2.load <= s.loads /\ Before(s.seen, heard2.load)
          /\ \A i \in DOMAIN s.reports : s.reports[i].load < heard2.load
      BY <1>2, <1>8, <3>1 DEF CommandsNewer
    <3>3. \A n \in DOMAIN u.cmds : u.cmds[n].do = "load" => heard2.load < u.cmds[n].load
      <4> SUFFICES ASSUME NEW n \in DOMAIN u.cmds, u.cmds[n].do = "load" PROVE heard2.load < u.cmds[n].load
        OBVIOUS
      <4>1. n + 1 \in DOMAIN s.cmds /\ u.cmds[n] = s.cmds[n + 1] /\ 1 \in DOMAIN s.cmds /\ 1 < n + 1
        BY <1>2
      <4> QED BY <1>2, <1>8, <3>1, <4>1 DEF CommandsNewer
    <3>4. CommandsNewer(u.cmds, u.loads, u.seen, heard2, u.reports)
      BY <1>6, <2>1, <3>1, <3>2, <3>3 DEF Before
    <3> QED BY <1>1, <3>1, <3>2, <3>4 DEF HeardNewer, Before
  <2> QED BY <1>1, <1>5, <1>8, <2>1 DEF PlayOK
<1>9. Still(s, u) /\ DOMAIN u.cmds \subseteq DOMAIN s.cmds /\ Head(s.cmds).do \in Orders
  BY <1>1, <1>2 DEF Still, PlayOK, PlayShape
<1> QED BY <1>7, <1>8, <1>9 DEF u

-----------------------------------------------------------------------------
(* The steps. *)

Rests(heard) == PlayOK(a, heard) /\ Projected(a)

\* What is left of a handler's result when the loop has seen the player again.
LEMMA ReduceOK ==
    ASSUME NEW s, PlayOK(s, sink), Loyal(a, s), Reduce(s)
    PROVE  PlayOK(a, sink)' /\ Loyal(a, a') /\ UNCHANGED sink
BY SeenOK DEF Reduce

LEMMA ReduceCalm ==
    ASSUME Rests(sink), NEW s, PlayOK(s, sink), Calm(a, s), Reduce(s)
    PROVE  PlayOK(a, sink)' /\ Loyal(a, a') /\ UNCHANGED sink
BY ReduceOK, CalmLoyal DEF Rests

Settles == PlayOK(a, sink)' /\ Loyal(a, a')

LEMMA UserStepOK == ASSUME Rests(sink), UserStep PROVE Settles
<1> USE DEF Settles
<1>0. PlayOK(a, sink) /\ Projected(a)
  BY DEF Rests
<1>1. CASE TransportToggle
  <2>1. CASE Online
    BY <1>0, <1>1, <2>1, RoomToggleOK, ReduceCalm DEF TransportToggle, Gesture
  <2>2. CASE ~Online
    BY <1>0, <1>1, <2>2, LocalToggleOK, ApartLoyal, ReduceOK DEF TransportToggle, Gesture, Online
  <2> QED BY <2>1, <2>2
<1>2. CASE TransportNext
  BY <1>0, <1>2, NextTrackOK, ReduceOK DEF TransportNext, Gesture
<1>3. CASE TransportPrev
  <2>1. CASE Online
    BY <1>0, <1>3, <2>1, RoomPrevOK, ReduceCalm DEF TransportPrev, Gesture
  <2>2. CASE ~Online
    BY <1>0, <1>3, <2>2, LocalPrevOK, ApartLoyal, ReduceOK DEF TransportPrev, Gesture, Online
  <2> QED BY <2>1, <2>2
<1>4. CASE QueueClear
  <2>1. CASE Online
    BY <1>0, <1>4, <2>1, SentOK, ReduceCalm DEF QueueClear, Gesture
  <2>2. CASE ~Online
    BY <1>0, <1>4, <2>2, LocalClearOK, ApartLoyal, ReduceOK DEF QueueClear, Gesture, Online
  <2> QED BY <2>1, <2>2
<1>5. CASE OutputKey
  BY <1>0, <1>5, ToggleOutputOK, ReduceOK DEF OutputKey, Gesture
<1>6. ASSUME NEW sel, QueueRemove(sel) PROVE Settles
  <2>1. CASE Online
    BY <1>0, <1>6, <2>1, RoomRemoveOK, ReduceCalm DEF QueueRemove, Gesture
  <2>2. CASE ~Online
    BY <1>0, <1>6, <2>2, LocalRemoveOK, ApartLoyal, ReduceOK DEF QueueRemove, Gesture, Online
  <2> QED BY <2>1, <2>2
<1>7. ASSUME NEW sel, QueueJump(sel) PROVE Settles
  <2>1. CASE Online
    BY <1>0, <1>7, <2>1, RoomJumpOK, ReduceOK DEF QueueJump, Gesture
  <2>2. CASE ~Online
    BY <1>0, <1>7, <2>2, LocalJumpOK, ApartLoyal, ReduceOK DEF QueueJump, Gesture, Online
  <2> QED BY <2>1, <2>2
<1>8. ASSUME NEW sel, NEW kind, QueueMove(sel, kind) PROVE Settles
  <2>1. CASE Online
    BY <1>0, <1>8, <2>1, SentOK, ReduceCalm DEF QueueMove, Gesture
  <2>2. CASE ~Online
    <3> DEFINE q == LocalMove(a.queue, sel, kind)
               t == [a EXCEPT !.queue = q]
    <3>1. Reduce(t)
      BY <1>8, <2>2 DEF QueueMove, Gesture
    <3> HIDE DEF q
    <3>2. Cued(a, t)
      BY <1>0 DEF Cued, Mute, PlayOK, PlayShape, PlayFields
    <3> HIDE DEF t
    <3>3. PlayOK(t, sink) /\ Loyal(a, t)
      BY <1>0, <2>2, <3>2, CuedOK, ApartLoyal DEF Online
    <3> QED BY <3>1, <3>3, ReduceOK
  <2> QED BY <2>1, <2>2
<1>9. ASSUME NEW l, NEW start, PlayList(l, start) PROVE Settles
  BY <1>0, <1>9, PlayNewQueueOK, ReduceOK DEF PlayList, Gesture
<1>10. ASSUME NEW l, NEW play_next, EnqueueList(l, play_next) PROVE Settles
  BY <1>0, <1>10, EnqueueTracksOK, ReduceOK DEF EnqueueList, Gesture
<1>11. ASSUME NEW t, NEW verdicts, Rate(t, verdicts) PROVE Settles
  <2> DEFINE d == {t} \ a.disliked
             p == {t} \ a.disliked_parents
             x == [a EXCEPT !.disliked = d]
             y == [a EXCEPT !.disliked_parents = p]
  <2>1. Reduce(x) \/ Reduce(y)
    BY <1>11 DEF Rate, Gesture
  <2> HIDE DEF d, p
  <2>2. Aside(a, x) /\ Aside(a, y)
    BY <1>0 DEF Aside, Mute, Still, PlayOK, PlayShape, PlayFields
  <2> HIDE DEF x, y
  <2>3. PlayOK(x, sink) /\ Calm(a, x) /\ PlayOK(y, sink) /\ Calm(a, y)
    BY <1>0, <2>2, AsideOK
  <2> QED BY <2>1, <2>3, ReduceCalm
<1> QED BY <1>1, <1>2, <1>3, <1>4, <1>5, <1>6, <1>7, <1>8, <1>9, <1>10, <1>11 DEF UserStep

LEMMA LoopStepOK == ASSUME Rests(sink), LoopStep PROVE Settles
<1> USE DEF Settles
<1>0. PlayOK(a, sink) /\ Projected(a)
  BY DEF Rests
<1>1. ASSUME NEW f PROVE PlayOK(Take(f), sink) /\ Projected(Take(f)) /\ \A u : Loyal(Take(f), u) => Loyal(a, u)
  <2> DEFINE bag == a.fetches (-) SetToBag({f})
  <2>1. Take(f) = [a EXCEPT !.fetches = bag]
    BY DEF Take
  <2> HIDE DEF bag
  <2>2. Aside(a, Take(f))
    BY <1>0, <2>1 DEF Aside, Mute, Still, PlayOK, PlayShape, PlayFields
  <2> QED BY <1>0, <2>2, LoyalAfter
<1>2. ASSUME NEW f, FetchDone(f) PROVE Settles
  <2> DEFINE t == Take(f)
  <2>1. Reduce(AudioReady(t, f)) \/ Reduce(PrefetchReady(t, f))
    BY <1>2 DEF FetchDone
  <2>2. PlayOK(t, sink) /\ Projected(t) /\ \A u : Loyal(t, u) => Loyal(a, u)
    BY <1>1
  <2> HIDE DEF t
  <2>3. PlayOK(AudioReady(t, f), sink) /\ Loyal(a, AudioReady(t, f))
    BY <2>2, AudioReadyOK
  <2>4. PlayOK(PrefetchReady(t, f), sink) /\ Loyal(a, PrefetchReady(t, f))
    BY <2>2, PrefetchReadyOK, CalmLoyal
  <2> QED BY <2>1, <2>3, <2>4, ReduceOK
<1>3. ASSUME NEW f, FetchFails(f) PROVE Settles
  <2> DEFINE t == Take(f)
  <2>1. Reduce(AudioFailed(t, f)) \/ Reduce(t)
    BY <1>3 DEF FetchFails
  <2>2. PlayOK(t, sink) /\ Projected(t) /\ \A u : Loyal(t, u) => Loyal(a, u)
    BY <1>1
  <2> HIDE DEF t
  <2>3. PlayOK(AudioFailed(t, f), sink) /\ Loyal(a, AudioFailed(t, f))
    BY <2>2, AudioFailedOK
  <2>4. Loyal(a, t)
    BY <2>2, CalmSelf, CalmLoyal
  <2> QED BY <2>1, <2>2, <2>3, <2>4, ReduceOK
<1>4. ASSUME NEW ids, Hydrated(ids) PROVE Settles
  <2>1. PICK resolved : Reduce(TracksHydrated(a, ids, resolved))
    BY <1>4 DEF Hydrated
  <2> QED BY <1>0, <2>1, TracksHydratedOK, ReduceOK
<1>5. ASSUME NEW ids, HydrateFails(ids) PROVE Settles
  BY <1>0, <1>5, HydrationFailedOK, ReduceCalm DEF HydrateFails
<1>6. CASE Redraw
  BY <1>0, <1>6, CalmSelf, ReduceCalm DEF Redraw
<1>7. CASE Tick
  <2>1. PlayOK(Scrobble(a), sink) /\ Calm(a, Scrobble(a))
    BY <1>0, ScrobbleOK
  <2>2. PlayOK(Flushed(Scrobble(a)), sink) /\ Calm(a, Flushed(Scrobble(a)))
    BY <2>1, FlushedOK, CalmTrans
  <2>3. Reduce(Scrobble(a)) \/ Reduce(Flushed(Scrobble(a)))
    BY <1>7 DEF Tick
  <2> QED BY <2>1, <2>2, <2>3, ReduceCalm
<1>8. CASE FlushAnswered
  <2>1. PICK ok \in BOOLEAN : Reduce(EventsFlushed(a, ok))
    BY <1>8 DEF FlushAnswered
  <2> QED BY <1>0, <2>1, EventsFlushedOK, ReduceCalm
<1>9. CASE TrackEnded
  BY <1>0, <1>9, NextTrackOK, ReduceOK DEF TrackEnded
<1>10. CASE Echo
  <2> DEFINE w == Tail(a.wire)
             t == [a EXCEPT !.wire = w]
             op == Head(a.wire)
  <2>1. Reduce(Applied(t, op))
    BY <1>10 DEF Echo
  <2> HIDE DEF w, op
  <2>2. Aside(a, t)
    BY <1>0 DEF Aside, Mute, Still, PlayOK, PlayShape, PlayFields
  <2> HIDE DEF t
  <2>3. PlayOK(t, sink) /\ Projected(t) /\ \A u : Loyal(t, u) => Loyal(a, u)
    BY <1>0, <2>2, LoyalAfter
  <2>4. PlayOK(Applied(t, op), sink) /\ Loyal(a, Applied(t, op))
    BY <2>3, AppliedOK
  <2> QED BY <2>1, <2>4, ReduceOK
<1>11. ASSUME NEW op, OtherDevice(op) PROVE Settles
  BY <1>0, <1>11, AppliedOK, ReduceOK DEF OtherDevice
<1>12. CASE Down
  <2>1. PICK n : Reduce([a EXCEPT !.phase = "Offline", !.wire = SubSeq(@, 1, n)])
    BY <1>12 DEF Down
  <2> DEFINE w == SubSeq(a.wire, 1, n)
             t == [a EXCEPT !.phase = "Offline", !.wire = w]
  <2>2. Reduce(t)
    BY <2>1
  <2> HIDE DEF w
  <2>3. Mute(a, t) /\ t.phase = "Offline"
    BY <1>0 DEF Mute, PlayOK, PlayShape, PlayFields
  <2> HIDE DEF t
  <2>4. PlayOK(t, sink) /\ Loyal(a, t)
    BY <1>0, <2>3, MuteOK, ApartLoyal
  <2> QED BY <2>2, <2>4, ReduceOK
<1>13. CASE SnapshotArrives
  <2>1. PICK n : Reduce(Adopt([a EXCEPT !.wire = SubSeq(@, n + 1, Len(@))], RoomAfter(a, n)))
    BY <1>13 DEF SnapshotArrives
  <2> DEFINE w == SubSeq(a.wire, n + 1, Len(a.wire))
             state == RoomAfter(a, n)
             u == Adopt([a EXCEPT !.wire = w], state)
  <2>2. Reduce(u)
    BY <2>1
  <2> HIDE DEF w, state
  <2>3. PlayOK(u, sink) /\ Loyal(a, u)
    BY <1>0, AdoptOK
  <2> HIDE DEF u
  <2> QED BY <2>2, <2>3, ReduceOK
<1>14. CASE SnapshotOfNewRoom
  <2> DEFINE u == Adopt([a EXCEPT !.wire = << >>], DefaultPlayback)
  <2>1. Reduce(u)
    BY <1>14 DEF SnapshotOfNewRoom
  <2>2. PlayOK(u, sink) /\ Loyal(a, u)
    BY <1>0, AdoptOK
  <2> HIDE DEF u
  <2> QED BY <2>1, <2>2, ReduceOK
<1> QED BY <1>2, <1>3, <1>4, <1>5, <1>6, <1>7, <1>8, <1>9, <1>10, <1>11, <1>12, <1>13, <1>14 DEF LoopStep

\* No step adds sound to a remote's channel.
Hush(s, u) ==
    Silenced(s) /\ Silenced(u) =>
        \A i \in Len(s.cmds) + 1 .. Len(u.cmds) : u.cmds[i].do \notin {"load", "play", "toggle"}

LEMMA ListDomain == ASSUME NEW q, IsList(q) PROVE Len(q) \in Nat /\ DOMAIN q = 1 .. Len(q)
BY AppendFacts

LEMMA LoyalHush ==
    ASSUME NEW s, NEW heard, PlayOK(s, heard), NEW u, NEW heard2, PlayOK(u, heard2), Loyal(s, u)
    PROVE  Hush(s, u)
<1>1. /\ Len(s.cmds) \in Nat /\ DOMAIN s.cmds = 1 .. Len(s.cmds)
      /\ Len(u.cmds) \in Nat /\ DOMAIN u.cmds = 1 .. Len(u.cmds)
  BY ListDomain DEF PlayOK, PlayShape
<1>2. \A i \in Len(s.cmds) + 1 .. Len(u.cmds) : i \in DOMAIN u.cmds \ DOMAIN s.cmds
  BY <1>1
<1> QED BY <1>2 DEF Loyal, Hush, Quiet

LEMMA AudioStepOK == ASSUME Rests(sink), AudioStep PROVE Rests(sink)' /\ Hush(a, a')
<1>0. PlayOK(a, sink) /\ Projected(a)
  BY DEF Rests
<1>1. Len(a.cmds) \in Nat /\ DOMAIN a.cmds = 1 .. Len(a.cmds)
  BY <1>0, ListDomain DEF PlayOK, PlayShape
<1>2. CASE TakeCommand
  <2> DEFINE u == [a EXCEPT !.cmds = Tail(@)]
             c == Head(a.cmds)
  <2>1. a' = u /\ a.cmds # << >> /\ (sink' = Obeyed(c) \/ sink' = Silence)
    BY <1>2 DEF TakeCommand
  <2>2. /\ PlayOK(u, sink) /\ Still(a, u) /\ DOMAIN u.cmds \subseteq DOMAIN a.cmds
        /\ c.do \in Orders
        /\ c.do = "load" =>
             \A heard2 : /\ DOMAIN heard2 = SinkFields
                         /\ heard2.track = c.track /\ heard2.load = c.load
                         => PlayOK(u, heard2)
    BY <1>0, <2>1, TakenOK
  <2> HIDE DEF u, c
  <2>3. Len(u.cmds) \in Nat /\ DOMAIN u.cmds = 1 .. Len(u.cmds)
    BY <2>2, ListDomain DEF PlayOK, PlayShape
  <2>4. PlayOK(u, sink')
    <3>1. CASE sink' = Silence
      BY <2>2, <3>1, HeardOK DEF Silence, SinkFields
    <3>2. CASE sink' = Obeyed(c) /\ c.do = "load"
      <4>1. /\ DOMAIN Obeyed(c) = SinkFields
            /\ Obeyed(c).track = c.track /\ Obeyed(c).load = c.load
        BY <3>2 DEF Obeyed, SinkFields
      <4> QED BY <2>2, <3>2, <4>1
    <3>3. CASE sink' = Obeyed(c) /\ c.do # "load"
      <4>1. /\ DOMAIN Obeyed(c) = SinkFields
            /\ Obeyed(c).track # NoTrack => Obeyed(c).track = sink.track /\ Obeyed(c).load = sink.load
        BY <1>0, <2>2, <3>3 DEF Obeyed, Silence, Orders, PlayOK, SinkFields
      <4> QED BY <2>2, <3>3, <4>1, HeardOK
    <3> QED BY <2>1, <3>1, <3>2, <3>3
  <2>5. Projected(u)
    BY <1>0, <2>2 DEF Projected, Still
  <2>6. Hush(a, u)
    BY <1>1, <2>2, <2>3 DEF Hush
  <2> QED BY <2>1, <2>4, <2>5, <2>6 DEF Rests
<1>3. CASE PlayOn
  <2>1. /\ a' = a /\ DOMAIN sink' = SinkFields
        /\ sink'.track = sink.track /\ sink'.load = sink.load
    BY <1>0, <1>3 DEF PlayOn, PlayOK, SinkFields
  <2>2. PlayOK(a, sink')
    BY <1>0, <2>1, HeardOK
  <2>3. Hush(a, a)
    BY <1>1 DEF Hush
  <2> QED BY <1>0, <2>1, <2>2, <2>3 DEF Rests
<1>4. CASE Drain
  <2>1. a' = a /\ DOMAIN sink' = SinkFields /\ sink'.track = NoTrack
    BY <1>4 DEF Drain, Silence, SinkFields
  <2>2. PlayOK(a, sink')
    BY <1>0, <2>1, HeardOK
  <2>3. Hush(a, a)
    BY <1>1 DEF Hush
  <2> QED BY <1>0, <2>1, <2>2, <2>3 DEF Rests
<1> QED BY <1>2, <1>3, <1>4 DEF AudioStep

\* The task of an op runs: nothing but the ops under way changes.
LEMMA SubmitStepOK == ASSUME Rests(sink), SubmitStep PROVE Rests(sink)' /\ Hush(a, a')
<1>1. PICK op : HandOver(op)
  BY DEF SubmitStep
<1>2. PICK submits, wire : a' = [a EXCEPT !.submits = submits, !.wire = wire]
  BY <1>1 DEF HandOver
<1>3. PlayOK(a, sink) /\ Projected(a) /\ sink' = sink
  BY <1>1 DEF Rests, HandOver
<1>4. Aside(a, a')
  BY <1>2, <1>3 DEF Aside, Mute, Still, PlayOK, PlayShape, PlayFields
<1>5. PlayOK(a', sink) /\ Calm(a, a') /\ Still(a, a')
  BY <1>3, <1>4, AsideOK DEF Aside
<1>6. Projected(a')
  BY <1>3, <1>5 DEF Projected, Still
<1>7. Hush(a, a')
  BY <1>3, <1>5, CalmLoyal, LoyalHush
<1> QED BY <1>3, <1>5, <1>6, <1>7 DEF Rests

LEMMA PlayStepOK == ASSUME Rests(sink), [PlayNext]_tuiVars PROVE Rests(sink)' /\ Hush(a, a')
<1>1. ASSUME Settles PROVE Rests(sink)' /\ Hush(a, a')
  BY <1>1, LoyalHush DEF Settles, Rests, Loyal
<1>2. CASE UNCHANGED tuiVars
  <2>1. Hush(a, a)
    BY ListDomain DEF Hush, Rests, PlayOK, PlayShape
  <2> QED BY <1>2, <2>1 DEF tuiVars, Rests
<1> QED BY <1>1, <1>2, UserStepOK, LoopStepOK, AudioStepOK, SubmitStepOK DEF PlayNext

LEMMA PlayInitOK == ASSUME PlayInit PROVE Rests(sink)
<1>1. PICK s \in Starts : a = s.app /\ sink = s.app.seen
  BY DEF PlayInit
<1> DEFINE app == s.app
<1>2. /\ DOMAIN app = DOMAIN Idle /\ DOMAIN app.seen = DOMAIN Silence
      /\ app.cmds = << >> /\ app.reports = << >>
      /\ app.loads \in Nat /\ app.seen.load \in 0 .. app.loads
      /\ app.output_on \in BOOLEAN /\ \E t : app.signal = NewSignal(t)
      /\ app.phase = "Online" => app.queue = SetItems(Tracks(app.room), app.room.now_playing_index)
  BY PlayAssumption
<1>3. DOMAIN Idle = PlayFields /\ DOMAIN Silence = SinkFields
  BY DEF Idle, Silence, PlayFields, SinkFields
<1>4. IsList(<< >>) /\ DOMAIN << >> = {}
  <2>1. << >> \in Seq({})
    OBVIOUS
  <2> QED BY <2>1 DEF IsList
<1>5. SignalShape(app.signal)
  BY <1>2 DEF SignalShape, NewSignal
<1> HIDE DEF app
<1>6. PlayShape(app)
  BY <1>2, <1>3, <1>4, <1>5 DEF PlayShape
<1>7. /\ CommandsNewer(app.cmds, app.loads, app.seen, app.seen, app.reports)
      /\ HeardNewer(app.loads, app.seen, app.seen, app.reports)
      /\ Remembers(app.reports, app.seen, app.signal) /\ OnceEach(app.reports)
  BY <1>2, <1>4 DEF CommandsNewer, HeardNewer, Before, Remembers, OnceEach
<1>8. PlayOK(app, app.seen)
  BY <1>2, <1>3, <1>6, <1>7 DEF PlayOK
<1>9. a = app /\ sink = app.seen
  BY <1>1 DEF app
<1> QED BY <1>2, <1>8, <1>9 DEF Rests, Projected

\* While online the queue on screen and in the load path is the room's, however
\* gestures, echoes, hydrations and reconnects interleave.
THEOREM QueueIsTheRooms == PlayInit /\ [][PlayNext]_tuiVars => []EchoDriven
<1>1. Rests(sink) => EchoDriven
  BY DEF Rests, Projected, EchoDriven, Online
<1>2. Rests(sink) /\ [PlayNext]_tuiVars => Rests(sink)'
  BY PlayStepOK
<1> QED BY PlayInitOK, <1>1, <1>2, PTL

\* A load is scrobbled at most once at each stage, skipped at most once, and never
\* scrobbled after its skip, though the snapshot the signal judges by lags behind.
THEOREM VerdictsOnce == PlayInit /\ [][PlayNext]_tuiVars => []OneVerdictPerLoad
<1>1. Rests(sink) => OneVerdictPerLoad
  BY DEF Rests, PlayOK, OnceEach, OneVerdictPerLoad
<1>2. Rests(sink) /\ [PlayNext]_tuiVars => Rests(sink)'
  BY PlayStepOK
<1> QED BY PlayInitOK, <1>1, <1>2, PTL

\* While this device is a silent remote no step of the reducer makes its player
\* sound, whatever was under way when the output was turned off.
THEOREM RemotesStaySilent == PlayInit /\ [][PlayNext]_tuiVars => SilentRemote
<1> DEFINE A == Remote /\ Remote' =>
                  \A i \in Len(a.cmds) + 1 .. Len(a'.cmds) : a'.cmds[i].do \notin {"load", "play", "toggle"}
<1>1. Rests(sink) /\ [PlayNext]_tuiVars => Rests(sink)'
  BY PlayStepOK
<1>2. Rests(sink) /\ [PlayNext]_tuiVars => [A]_tuiVars
  <2> SUFFICES ASSUME Rests(sink), [PlayNext]_tuiVars, Remote, Remote'
               PROVE  \A i \in Len(a.cmds) + 1 .. Len(a'.cmds) : a'.cmds[i].do \notin {"load", "play", "toggle"}
    OBVIOUS
  <2>1. Rests(sink)' /\ Hush(a, a')
    BY PlayStepOK
  <2>2. Silenced(a) /\ Silenced(a')
    BY <2>1 DEF Remote, Online, Silenced, Rests, PlayOK, PlayShape
  <2> QED BY <2>1, <2>2 DEF Hush
<1> HIDE DEF A
<1>3. PlayInit /\ [][PlayNext]_tuiVars => [][A]_tuiVars
  BY PlayInitOK, <1>1, <1>2, PTL
<1> QED BY <1>3 DEF A, SilentRemote
=============================================================================
