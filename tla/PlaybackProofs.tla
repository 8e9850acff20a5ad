--------------------------- MODULE PlaybackProofs ---------------------------
(***************************************************************************)
(* What the list operations of Playback return, and what applying an op    *)
(* preserves, for every queue and every op.                                *)
(***************************************************************************)
EXTENDS Playback, CommonLemmas, FiniteSetTheorems, SequenceTheorems, TLAPS

-----------------------------------------------------------------------------
(***************************************************************************)
(* Lists.                                                                  *)
(***************************************************************************)
\* Queue::position_of finds the first place of an id that occurs.
LEMMA PositionOfProperties ==
    ASSUME NEW items \in Seq(QueueItem), NEW id
    PROVE  /\ PositionOf(items, id) \in 0 .. Len(items)
           /\ PositionOf(items, id) = 0 <=> ~ Holds(items, id)
           /\ Holds(items, id) => items[PositionOf(items, id)].item_id = id
<1>1. CASE ~ Holds(items, id)
  BY <1>1 DEF PositionOf
<1>2. CASE Holds(items, id)
  <2> DEFINE T == {i \in DOMAIN items : items[i].item_id = id}
  <2>1. DOMAIN items = 1 .. Len(items) /\ Len(items) \in Nat
    BY LenProperties
  <2>2. T # {} /\ T \subseteq Nat
    BY <1>2, <2>1 DEF Holds
  <2>3. PICK i \in T : \A j \in T : i <= j
    <3> HIDE DEF T
    <3> QED BY <2>2, NatMin
  <2>4. \A j \in 1 .. (i - 1) : items[j].item_id # id
    BY <2>1, <2>3
  <2>5. \E k \in DOMAIN items : /\ items[k].item_id = id
                               /\ \A j \in 1 .. (k - 1) : items[j].item_id # id
    BY <2>3, <2>4
  <2>6. /\ PositionOf(items, id) \in DOMAIN items
        /\ items[PositionOf(items, id)].item_id = id
    BY <1>2, <2>5 DEF PositionOf
  <2> QED BY <1>2, <2>1, <2>6
<1> QED BY <1>1, <1>2

\* Taking one place out of a list shifts the places behind it.
LEMMA WithoutIndexProperties ==
    ASSUME NEW S, NEW s \in Seq(S), NEW i \in 1 .. Len(s)
    PROVE  /\ WithoutIndex(s, i) \in Seq(S)
           /\ Len(WithoutIndex(s, i)) = Len(s) - 1
           /\ \A k \in 1 .. Len(s) - 1 :
                WithoutIndex(s, i)[k] = IF k < i THEN s[k] ELSE s[k + 1]
<1> DEFINE a == SubSeq(s, 1, i - 1)
           b == SubSeq(s, i + 1, Len(s))
<1>0. Len(s) \in Nat /\ \A k \in 1 .. Len(s) : s[k] \in S
  BY LenProperties, ElementOfSeq
<1>1. /\ a \in Seq(S)
      /\ Len(a) = i - 1
      /\ \A k \in 1 .. i - 1 : a[k] = s[k]
  <2>1. \A k \in 1 .. i - 1 : s[k] \in S
    BY <1>0
  <2>2. /\ a \in Seq(S)
        /\ Len(a) = IF 1 <= i - 1 THEN (i - 1) - 1 + 1 ELSE 0
        /\ \A k \in 1 .. (i - 1) - 1 + 1 : a[k] = s[1 + k - 1]
    BY <1>0, <2>1, SubSeqProperties
  <2> QED BY <1>0, <2>2
<1>2. /\ b \in Seq(S)
      /\ Len(b) = Len(s) - i
      /\ \A k \in 1 .. Len(s) - i : b[k] = s[i + k]
  <2>1. \A k \in i + 1 .. Len(s) : s[k] \in S
    BY <1>0
  <2>2. /\ b \in Seq(S)
        /\ Len(b) = IF i + 1 <= Len(s) THEN Len(s) - (i + 1) + 1 ELSE 0
        /\ \A k \in 1 .. Len(s) - (i + 1) + 1 : b[k] = s[(i + 1) + k - 1]
    BY <1>0, <2>1, SubSeqProperties
  <2>3. \A k \in 1 .. Len(s) - i : (i + 1) + k - 1 = i + k
    BY <1>0
  <2> QED BY <1>0, <2>2, <2>3
<1> HIDE DEF a, b
<1>3. /\ a \o b \in Seq(S)
      /\ Len(a \o b) = Len(a) + Len(b)
      /\ \A k \in 1 .. Len(a) + Len(b) :
            (a \o b)[k] = IF k <= Len(a) THEN a[k] ELSE b[k - Len(a)]
  BY <1>1, <1>2, ConcatProperties
<1>4. \A k \in 1 .. Len(s) - 1 : (a \o b)[k] = IF k < i THEN s[k] ELSE s[k + 1]
  <2>1. TAKE k \in 1 .. Len(s) - 1
  <2>2. k \in 1 .. Len(a) + Len(b)
    BY <1>0, <1>1, <1>2
  <2>3. CASE k < i
    <3>1. k \in 1 .. i - 1
      BY <2>3
    <3> QED BY <1>1, <1>3, <2>2, <2>3, <3>1
  <2>4. CASE ~ (k < i)
    <3>1. k - (i - 1) \in 1 .. Len(s) - i /\ i + (k - (i - 1)) = k + 1
      BY <1>0, <2>4
    <3>2. b[k - (i - 1)] = s[k + 1]
      BY <1>2, <3>1
    <3>3. ~ (k <= i - 1)
      BY <2>4
    <3> QED BY <1>1, <1>3, <2>2, <2>4, <3>2, <3>3
  <2> QED BY <2>3, <2>4
<1>5. WithoutIndex(s, i) = a \o b
  BY DEF WithoutIndex, a, b
<1> QED BY <1>0, <1>1, <1>2, <1>3, <1>4, <1>5

\* Inserting at a place shifts that place and the ones behind it.
LEMMA WithInsertedProperties ==
    ASSUME NEW S, NEW s \in Seq(S), NEW i \in 1 .. Len(s) + 1, NEW e \in S
    PROVE  /\ WithInserted(s, i, e) \in Seq(S)
           /\ Len(WithInserted(s, i, e)) = Len(s) + 1
           /\ \A k \in 1 .. Len(s) + 1 :
                WithInserted(s, i, e)[k] =
                  IF k < i THEN s[k] ELSE IF k = i THEN e ELSE s[k - 1]
<1> DEFINE a == SubSeq(s, 1, i - 1)
           b == SubSeq(s, i, Len(s))
           c == a \o <<e>>
<1>0. Len(s) \in Nat /\ \A k \in 1 .. Len(s) : s[k] \in S
  BY LenProperties, ElementOfSeq
<1>1. /\ a \in Seq(S)
      /\ Len(a) = i - 1
      /\ \A k \in 1 .. i - 1 : a[k] = s[k]
  <2>1. \A k \in 1 .. i - 1 : s[k] \in S
    BY <1>0
  <2>2. /\ a \in Seq(S)
        /\ Len(a) = IF 1 <= i - 1 THEN (i - 1) - 1 + 1 ELSE 0
        /\ \A k \in 1 .. (i - 1) - 1 + 1 : a[k] = s[1 + k - 1]
    BY <1>0, <2>1, SubSeqProperties
  <2> QED BY <1>0, <2>2
<1>2. /\ b \in Seq(S)
      /\ Len(b) = Len(s) - i + 1
      /\ \A k \in 1 .. Len(s) - i + 1 : b[k] = s[i + k - 1]
  <2>1. \A k \in i .. Len(s) : s[k] \in S
    BY <1>0
  <2>2. /\ b \in Seq(S)
        /\ Len(b) = IF i <= Len(s) THEN Len(s) - i + 1 ELSE 0
        /\ \A k \in 1 .. Len(s) - i + 1 : b[k] = s[i + k - 1]
    BY <1>0, <2>1, SubSeqProperties
  <2> QED BY <1>0, <2>2
<1> HIDE DEF a, b
<1>3. /\ c \in Seq(S)
      /\ Len(c) = i
      /\ \A k \in 1 .. i : c[k] = IF k < i THEN s[k] ELSE e
  <2>1. c = Append(a, e)
    BY <1>1, AppendIsConcat
  <2>2. /\ Append(a, e) \in Seq(S) /\ Len(Append(a, e)) = Len(a) + 1
        /\ \A k \in 1 .. Len(a) : Append(a, e)[k] = a[k]
        /\ Append(a, e)[Len(a) + 1] = e
    BY <1>1, AppendProperties
  <2> HIDE DEF c
  <2>3. ASSUME NEW k \in 1 .. i PROVE c[k] = IF k < i THEN s[k] ELSE e
    <3>1. CASE k < i
      <4>1. k \in 1 .. i - 1
        BY <3>1
      <4> QED BY <1>1, <2>1, <2>2, <3>1, <4>1
    <3>2. CASE ~ (k < i)
      <4>1. k = Len(a) + 1
        BY <1>1, <3>2
      <4> QED BY <2>1, <2>2, <3>2, <4>1
    <3> QED BY <3>1, <3>2
  <2> QED BY <1>1, <2>1, <2>2, <2>3
<1> HIDE DEF c
<1>4. /\ c \o b \in Seq(S)
      /\ Len(c \o b) = Len(c) + Len(b)
      /\ \A k \in 1 .. Len(c) + Len(b) :
            (c \o b)[k] = IF k <= Len(c) THEN c[k] ELSE b[k - Len(c)]
  BY <1>2, <1>3, ConcatProperties
<1>5. ASSUME NEW k \in 1 .. Len(s) + 1
      PROVE  (c \o b)[k] = IF k < i THEN s[k] ELSE IF k = i THEN e ELSE s[k - 1]
  <2>1. k \in 1 .. Len(c) + Len(b)
    BY <1>0, <1>2, <1>3
  <2>2. CASE k <= i
    <3>1. k \in 1 .. i
      BY <2>2
    <3> QED BY <1>3, <1>4, <2>1, <2>2, <3>1
  <2>3. CASE ~ (k <= i)
    <3>1. k - i \in 1 .. Len(s) - i + 1 /\ i + (k - i) - 1 = k - 1
      BY <1>0, <2>3
    <3>2. b[k - i] = s[k - 1]
      BY <1>2, <3>1
    <3>3. ~ (k < i) /\ k # i
      BY <2>3
    <3> QED BY <1>3, <1>4, <2>1, <2>3, <3>2, <3>3
  <2> QED BY <2>2, <2>3
<1>6. WithInserted(s, i, e) = c \o b
  BY DEF WithInserted, a, b, c
<1> QED BY <1>0, <1>2, <1>3, <1>4, <1>5, <1>6

\* The same for the items of a queue.
LEMMA InsertedItem ==
    ASSUME NEW s \in Seq(QueueItem), NEW i \in 1 .. Len(s) + 1, NEW e \in QueueItem
    PROVE  /\ WithInserted(s, i, e) \in Seq(QueueItem)
           /\ Len(WithInserted(s, i, e)) = Len(s) + 1
           /\ \A k \in 1 .. Len(s) + 1 :
                WithInserted(s, i, e)[k] =
                  IF k < i THEN s[k] ELSE IF k = i THEN e ELSE s[k - 1]
BY WithInsertedProperties

\* And for one of them.
LEMMA InsertedAt ==
    ASSUME NEW s \in Seq(QueueItem), NEW i \in 1 .. Len(s) + 1, NEW e \in QueueItem,
           NEW k \in 1 .. Len(s) + 1
    PROVE  WithInserted(s, i, e)[k] =
             IF k < i THEN s[k] ELSE IF k = i THEN e ELSE s[k - 1]
BY WithInsertedProperties

\* A list without repeated ids stays so when a place is taken out, and the id
\* taken out is gone.
LEMMA DistinctWithout ==
    ASSUME NEW s \in Seq(QueueItem), NEW i \in 1 .. Len(s), DistinctIds(s)
    PROVE  /\ DistinctIds(WithoutIndex(s, i))
           /\ ~ Holds(WithoutIndex(s, i), s[i].item_id)
<1> DEFINE r == WithoutIndex(s, i)
<1>1. /\ r \in Seq(QueueItem) /\ Len(r) = Len(s) - 1 /\ Len(s) \in Nat
      /\ DOMAIN s = 1 .. Len(s)
      /\ \A k \in 1 .. Len(s) - 1 : r[k] = IF k < i THEN s[k] ELSE s[k + 1]
  BY WithoutIndexProperties, LenProperties
<1> HIDE DEF r
<1>2. DOMAIN r = 1 .. Len(s) - 1
  BY <1>1, LenProperties
<1> DEFINE from(k) == IF k < i THEN k ELSE k + 1
<1>3. \A k \in DOMAIN r : from(k) \in DOMAIN s /\ r[k] = s[from(k)] /\ from(k) # i
  BY <1>1, <1>2
<1>4. \A j, k \in DOMAIN r : from(j) = from(k) => j = k
  BY <1>1, <1>2
<1> HIDE DEF from
<1>5. DistinctIds(r)
  BY <1>3, <1>4 DEF DistinctIds
<1>6. ~ Holds(r, s[i].item_id)
  BY <1>1, <1>3 DEF DistinctIds, Holds
<1> QED BY <1>5, <1>6 DEF r

\* Inserting an item whose id is new repeats no id.
LEMMA DistinctInserted ==
    ASSUME NEW s \in Seq(QueueItem), NEW i \in 1 .. Len(s) + 1, NEW e \in QueueItem,
           DistinctIds(s), ~ Holds(s, e.item_id)
    PROVE  DistinctIds(WithInserted(s, i, e))
<1> DEFINE r == WithInserted(s, i, e)
<1>1. /\ r \in Seq(QueueItem) /\ Len(r) = Len(s) + 1 /\ Len(s) \in Nat
      /\ DOMAIN s = 1 .. Len(s)
      /\ \A k \in 1 .. Len(s) + 1 :
            r[k] = IF k < i THEN s[k] ELSE IF k = i THEN e ELSE s[k - 1]
  BY WithInsertedProperties, LenProperties
<1> HIDE DEF r
<1>2. DOMAIN r = 1 .. Len(s) + 1
  BY <1>1, LenProperties
<1> DEFINE from(k) == IF k < i THEN k ELSE k - 1
<1>3. \A k \in DOMAIN r : k # i => from(k) \in DOMAIN s /\ r[k] = s[from(k)]
  BY <1>1, <1>2
<1>4. \A j, k \in DOMAIN r : j # i /\ k # i /\ from(j) = from(k) => j = k
  BY <1>1, <1>2
<1>5. r[i] = e /\ i \in DOMAIN r
  BY <1>1, <1>2
<1> HIDE DEF from
<1>6. \A k \in DOMAIN r : k # i => r[k].item_id # e.item_id
  BY <1>3 DEF Holds
<1>7. DistinctIds(r)
  BY <1>3, <1>4, <1>5, <1>6 DEF DistinctIds
<1> QED BY <1>7 DEF r

\* What replace_upcoming appends: new ids only, each once.
LEMMA FreshItemsProperties ==
    ASSUME NEW kept, NEW items \in Seq(QueueItem)
    PROVE  /\ FreshItems(kept, items) \in Seq(QueueItem)
           /\ DistinctIds(FreshItems(kept, items))
           /\ \A n \in DOMAIN FreshItems(kept, items) :
                ~ Holds(kept, FreshItems(kept, items)[n].item_id)
<1> DEFINE K == FreshIndices(kept, items)
           order == Increasing(K)
           r == FreshItems(kept, items)
<1>1. Len(items) \in Nat /\ DOMAIN items = 1 .. Len(items)
  BY LenProperties
<1>2. K \in SUBSET (1 .. Len(items))
  BY <1>1 DEF FreshIndices
<1>3. \A k \in K : ~ Holds(kept, items[k].item_id)
                 /\ \A j \in 1 .. (k - 1) : items[j].item_id # items[k].item_id
  BY DEF FreshIndices
<1>4. r = AtPlaces(items, K)
  BY DEF FreshItems
<1> HIDE DEF K, r
<1>5. /\ r \in Seq(QueueItem) /\ Cardinality(K) \in Nat /\ DOMAIN r = 1 .. Cardinality(K)
      /\ order \in [DOMAIN r -> K]
      /\ \A i, j \in DOMAIN r : i < j => order[i] < order[j]
      /\ \A n \in DOMAIN r : r[n] = items[order[n]]
  BY <1>2, <1>4, AtPlacesProperties
<1> HIDE DEF order
<1>6. ASSUME NEW i \in DOMAIN r, NEW j \in DOMAIN r, i < j
      PROVE  r[i].item_id # r[j].item_id
  <2>1. order[i] < order[j] /\ order[i] \in K /\ order[j] \in K
    BY <1>5, <1>6
  <2>2. order[i] \in 1 .. (order[j] - 1)
    <3>1. order[i] \in 1 .. Len(items) /\ order[j] \in 1 .. Len(items)
      BY <1>2, <2>1, Zenon
    <3> QED BY <1>1, <2>1, <3>1
  <2>3. items[order[i]].item_id # items[order[j]].item_id
    BY <1>3, <2>1, <2>2
  <2> QED BY <1>5, <2>3
<1>7. DistinctIds(r)
  <2>1. SUFFICES ASSUME NEW i \in DOMAIN r, NEW j \in DOMAIN r, i # j
                 PROVE  r[i].item_id # r[j].item_id
    BY DEF DistinctIds
  <2>2. i \in Nat /\ j \in Nat
    BY <1>5
  <2>3. i < j \/ j < i
    BY <2>1, <2>2
  <2> QED BY <1>6, <2>3
<1>8. \A n \in DOMAIN r : ~ Holds(kept, r[n].item_id)
  BY <1>3, <1>5
<1> QED BY <1>5, <1>7, <1>8 DEF r

-----------------------------------------------------------------------------
(***************************************************************************)
(* What one arm of SyncState::apply does to a state whose cursor is in     *)
(* bounds: the result is well typed, its cursor is in bounds, a queue      *)
(* without repeated ids stays so, and the item being played is kept.       *)
(***************************************************************************)
InBounds(p) == p.now_playing_index <= Len(p.items)

\* q is as good a state as p was.
Sound(p, q) ==
    /\ q \in PlaybackState
    /\ InBounds(q)
    /\ DistinctIds(p.items) => DistinctIds(q.items)

\* The cursor of q is on the item the cursor of p was on.
SameItem(p, q) == NowPlaying(q) = NowPlaying(p)

\* The facts about a state that the lemmas below start from.
LEMMA StateFacts ==
    ASSUME NEW p \in PlaybackState
    PROVE  /\ p.items \in Seq(QueueItem) /\ Len(p.items) \in Nat
           /\ DOMAIN p.items = 1 .. Len(p.items)
           /\ \A k \in 1 .. Len(p.items) : p.items[k] \in QueueItem
           /\ p.now_playing_index \in Nat
<1>1. p.items \in Seq(QueueItem) /\ p.now_playing_index \in Nat
  BY DEF PlaybackState
<1> QED BY <1>1, LenProperties, ElementOfSeq

\* Two states whose cursors are on one item, or on none, play the same.
LEMMA SameItemIf ==
    ASSUME NEW p \in PlaybackState, NEW q \in PlaybackState,
           \/ /\ p.now_playing_index \in DOMAIN p.items
              /\ q.now_playing_index \in DOMAIN q.items
              /\ q.items[q.now_playing_index].item_id = p.items[p.now_playing_index].item_id
           \/ p.now_playing_index \notin DOMAIN p.items /\ q.now_playing_index \notin DOMAIN q.items
    PROVE  SameItem(p, q)
<1>1. CASE /\ p.now_playing_index \in DOMAIN p.items
           /\ q.now_playing_index \in DOMAIN q.items
           /\ q.items[q.now_playing_index].item_id = p.items[p.now_playing_index].item_id
  <2>1. DOMAIN p.items \cap {p.now_playing_index} = {p.now_playing_index}
    BY <1>1
  <2>2. DOMAIN q.items \cap {q.now_playing_index} = {q.now_playing_index}
    BY <1>1
  <2>3. NowPlaying(p) = {p.items[p.now_playing_index].item_id}
    BY <2>1 DEF NowPlaying
  <2>4. NowPlaying(q) = {q.items[q.now_playing_index].item_id}
    BY <2>2 DEF NowPlaying
  <2> QED BY <1>1, <2>3, <2>4 DEF SameItem
<1>2. CASE p.now_playing_index \notin DOMAIN p.items /\ q.now_playing_index \notin DOMAIN q.items
  <2>1. DOMAIN p.items \cap {p.now_playing_index} = {}
    BY <1>2
  <2>2. DOMAIN q.items \cap {q.now_playing_index} = {}
    BY <1>2
  <2>3. NowPlaying(p) = {} /\ NowPlaying(q) = {}
    BY <2>1, <2>2 DEF NowPlaying
  <2> QED BY <2>3 DEF SameItem
<1> QED BY <1>1, <1>2

\* push: appended unless the id is there; the cursor keeps its item.
LEMMA PushSound ==
    ASSUME NEW p \in PlaybackState, InBounds(p), NEW item \in QueueItem
    PROVE  Sound(p, ApplyPush(p, item)) /\ SameItem(p, ApplyPush(p, item))
<1> DEFINE q == ApplyPush(p, item)
<1>0. /\ p.items \in Seq(QueueItem) /\ Len(p.items) \in Nat
      /\ DOMAIN p.items = 1 .. Len(p.items) /\ p.now_playing_index \in Nat
  BY StateFacts
<1>1. CASE Holds(p.items, item.item_id)
  BY <1>1 DEF ApplyPush, Sound, SameItem
<1>2. CASE ~ Holds(p.items, item.item_id)
  <2> DEFINE s == Append(p.items, item)
  <2>1. /\ s \in Seq(QueueItem) /\ Len(s) = Len(p.items) + 1
        /\ \A k \in 1 .. Len(p.items) : s[k] = p.items[k]
        /\ s[Len(p.items) + 1] = item
    BY <1>0, AppendProperties
  <2> HIDE DEF s
  <2>2. DOMAIN s = 1 .. Len(p.items) + 1
    BY <2>1, LenProperties
  <2>3. q = [p EXCEPT !.items = s]
    BY <1>2 DEF ApplyPush, s
  <2>4. /\ q \in PlaybackState /\ q.items = s
        /\ q.now_playing_index = p.now_playing_index
    BY <2>1, <2>3 DEF PlaybackState
  <2> HIDE DEF q
  <2>5. InBounds(q)
    BY <1>0, <2>1, <2>4 DEF InBounds
  <2>6. DistinctIds(p.items) => DistinctIds(s)
    <3>1. SUFFICES ASSUME DistinctIds(p.items), NEW i \in DOMAIN s, NEW j \in DOMAIN s,
                          s[i].item_id = s[j].item_id
                   PROVE  i = j
      BY DEF DistinctIds
    <3>2. \A k \in DOMAIN p.items : p.items[k].item_id # item.item_id
      BY <1>2 DEF Holds
    <3>3. \A k \in DOMAIN s : k \in DOMAIN p.items \/ k = Len(p.items) + 1
      BY <1>0, <2>2
    <3> QED BY <1>0, <2>1, <3>1, <3>2, <3>3 DEF DistinctIds
  <2>7. SameItem(p, q)
    <3>1. CASE p.now_playing_index = 0
      BY <1>0, <2>2, <2>4, <3>1, SameItemIf
    <3>2. CASE p.now_playing_index # 0
      <4>1. p.now_playing_index \in 1 .. Len(p.items)
        BY <1>0, <3>2 DEF InBounds
      <4>2. p.now_playing_index \in DOMAIN s
        BY <1>0, <2>2, <4>1
      <4> QED BY <1>0, <2>1, <2>4, <4>1, <4>2, SameItemIf
    <3> QED BY <3>1, <3>2
  <2> QED BY <2>4, <2>5, <2>6, <2>7 DEF Sound, q
<1> QED BY <1>1, <1>2

\* remove: the cursor follows its item, unless that is the one removed.
LEMMA RemoveSound ==
    ASSUME NEW p \in PlaybackState, InBounds(p), NEW id
    PROVE  /\ Sound(p, ApplyRemove(p, id))
           /\ id \notin NowPlaying(p) => SameItem(p, ApplyRemove(p, id))
<1> DEFINE q == ApplyRemove(p, id)
           pos == PositionOf(p.items, id)
           c == p.now_playing_index
           s == WithoutIndex(p.items, pos)
           d == IF pos < c THEN c - 1 ELSE c
           r == [p EXCEPT !.items = s, !.now_playing_index = d]
<1>0. /\ p.items \in Seq(QueueItem) /\ Len(p.items) \in Nat
      /\ DOMAIN p.items = 1 .. Len(p.items) /\ c \in Nat
  BY StateFacts
<1>1. /\ pos \in 0 .. Len(p.items)
      /\ pos # 0 => p.items[pos].item_id = id
  BY <1>0, PositionOfProperties
<1>2. CASE pos = 0
  BY <1>2 DEF ApplyRemove, Sound, SameItem
<1>3. CASE pos # 0
  <2>1. pos \in 1 .. Len(p.items)
    BY <1>0, <1>1, <1>3
  <2>2. /\ s \in Seq(QueueItem) /\ Len(s) = Len(p.items) - 1
        /\ \A k \in 1 .. Len(p.items) - 1 :
             s[k] = IF k < pos THEN p.items[k] ELSE p.items[k + 1]
    BY <1>0, <2>1, WithoutIndexProperties
  <2>3. DistinctIds(p.items) => DistinctIds(s)
    BY <1>0, <2>1, DistinctWithout
  <2>4. q = NormalizeCursor(r)
    BY <1>3 DEF ApplyRemove
  <2> HIDE DEF s, q
  <2>5. DOMAIN s = 1 .. Len(p.items) - 1
    BY <2>2, LenProperties
  <2>6. d \in Nat
    BY <1>0, <1>1
  <2> HIDE DEF pos, d
  <2>7. r \in PlaybackState /\ r.items = s /\ r.now_playing_index = d
    BY <2>2, <2>6 DEF PlaybackState
  <2> HIDE DEF r
  <2>8. CASE d <= Len(p.items) - 1
    <3>1. q = r
      BY <1>0, <2>2, <2>4, <2>6, <2>7, <2>8 DEF NormalizeCursor
    <3>2. Sound(p, q)
      BY <2>2, <2>3, <2>7, <2>8, <3>1 DEF Sound, InBounds
    <3>3. ASSUME id \notin NowPlaying(p) PROVE SameItem(p, q)
      <4>1. CASE c = 0
        <5>1. d = 0
          BY <1>0, <1>1, <4>1 DEF d
        <5> QED BY <1>0, <2>5, <2>7, <3>1, <4>1, <5>1, SameItemIf
      <4>2. CASE c # 0
        <5>1. c \in 1 .. Len(p.items)
          BY <1>0, <4>2 DEF InBounds
        <5>2. c # pos
          BY <1>0, <1>1, <1>3, <3>3, <5>1 DEF NowPlaying
        <5>3. d \in 1 .. Len(p.items) - 1 /\ s[d] = p.items[c]
          <6>1. CASE pos < c
            <7>1. d = c - 1 /\ ~ (d < pos) /\ d + 1 = c
              BY <1>0, <2>1, <6>1 DEF d
            <7>2. d \in 1 .. Len(p.items) - 1
              BY <1>0, <2>1, <5>1, <6>1, <7>1
            <7> QED BY <2>2, <7>1, <7>2
          <6>2. CASE ~ (pos < c)
            <7>1. d = c /\ d < pos
              BY <1>0, <2>1, <5>2, <6>2 DEF d
            <7>2. d \in 1 .. Len(p.items) - 1
              BY <1>0, <2>1, <5>1, <7>1
            <7> QED BY <2>2, <7>1, <7>2
          <6> QED BY <6>1, <6>2
        <5>4. d \in DOMAIN s /\ c \in DOMAIN p.items
          BY <1>0, <2>5, <5>1, <5>3
        <5> QED BY <2>7, <3>1, <5>3, <5>4, SameItemIf
      <4> QED BY <4>1, <4>2
    <3> QED BY <3>2, <3>3 DEF q
  <2>9. CASE ~ (d <= Len(p.items) - 1)
    <3>1. q = [r EXCEPT !.now_playing_index = 0]
      BY <1>0, <2>2, <2>4, <2>6, <2>7, <2>9 DEF NormalizeCursor
    <3>2. q \in PlaybackState /\ q.items = s /\ q.now_playing_index = 0
      BY <2>7, <3>1 DEF PlaybackState
    <3>3. Sound(p, q)
      BY <1>0, <2>1, <2>2, <2>3, <3>2 DEF Sound, InBounds
    <3>4. id \in NowPlaying(p)
      <4>1. c \in Nat /\ c <= Len(p.items)
        BY <1>0 DEF InBounds
      <4>2. c = pos
        BY <1>0, <2>1, <2>6, <2>9, <4>1 DEF d
      <4>3. c \in DOMAIN p.items /\ p.items[c].item_id = id
        BY <1>0, <1>1, <1>3, <2>1, <4>2
      <4> QED BY <4>3 DEF NowPlaying
    <3> QED BY <3>3, <3>4 DEF q
  <2> QED BY <2>8, <2>9
<1> QED BY <1>2, <1>3

\* Taking an item out and putting it back elsewhere loses no id.
LEMMA MovedHolds ==
    ASSUME NEW s \in Seq(QueueItem), NEW i \in 1 .. Len(s), NEW t \in 1 .. Len(s),
           NEW c \in 1 .. Len(s)
    PROVE  Holds(WithInserted(WithoutIndex(s, i), t, s[i]), s[c].item_id)
<1> DEFINE rest == WithoutIndex(s, i)
           moved == WithInserted(rest, t, s[i])
<1>0. Len(s) \in Nat /\ s[i] \in QueueItem
  BY LenProperties, ElementOfSeq
<1>1. /\ rest \in Seq(QueueItem) /\ Len(rest) = Len(s) - 1
      /\ \A k \in 1 .. Len(s) - 1 : rest[k] = IF k < i THEN s[k] ELSE s[k + 1]
  BY WithoutIndexProperties
<1> HIDE DEF rest
<1>2. t \in 1 .. Len(rest) + 1
  BY <1>0, <1>1
<1>3. /\ moved \in Seq(QueueItem) /\ Len(moved) = Len(rest) + 1
      /\ \A k \in 1 .. Len(rest) + 1 :
            moved[k] = IF k < t THEN rest[k] ELSE IF k = t THEN s[i] ELSE rest[k - 1]
  <2> DEFINE e == s[i]
  <2>1. rest \in Seq(QueueItem)
    BY <1>1
  <2>2. e \in QueueItem
    BY <1>0
  <2> HIDE DEF e
  <2>3. WithInserted(rest, t, e) \in Seq(QueueItem)
    BY <1>2, <2>1, <2>2, InsertedItem
  <2>4. Len(WithInserted(rest, t, e)) = Len(rest) + 1
    BY <1>2, <2>1, <2>2, InsertedItem
  <2>5. ASSUME NEW k \in 1 .. Len(rest) + 1
        PROVE  WithInserted(rest, t, e)[k] =
                 IF k < t THEN rest[k] ELSE IF k = t THEN e ELSE rest[k - 1]
    BY <1>2, <2>1, <2>2, <2>5, InsertedAt, SMTT(30)
  <2> QED BY <2>3, <2>4, <2>5 DEF e
<1> HIDE DEF moved
<1>4. DOMAIN moved = 1 .. Len(s)
  BY <1>0, <1>1, <1>3, LenProperties
<1>5. ASSUME NEW k \in 1 .. Len(s) - 1 PROVE \E n \in DOMAIN moved : moved[n] = rest[k]
  <2>1. CASE k < t
    <3>1. k \in DOMAIN moved /\ moved[k] = rest[k]
      BY <1>0, <1>1, <1>3, <1>4, <2>1
    <3> QED BY <3>1
  <2>2. CASE ~ (k < t)
    <3>1. k + 1 \in DOMAIN moved /\ moved[k + 1] = rest[(k + 1) - 1]
      BY <1>0, <1>1, <1>3, <1>4, <2>2
    <3>2. (k + 1) - 1 = k
      BY <1>0
    <3> QED BY <3>1, <3>2
  <2> QED BY <2>1, <2>2
<1>6. CASE c = i
  <2>1. t \in DOMAIN moved /\ moved[t] = s[i]
    BY <1>0, <1>1, <1>3, <1>4
  <2> QED BY <1>6, <2>1 DEF Holds, moved, rest
<1>7. CASE c < i
  <2>1. c \in 1 .. Len(s) - 1 /\ rest[c] = s[c]
    BY <1>0, <1>1, <1>7
  <2>2. PICK n \in DOMAIN moved : moved[n] = rest[c]
    BY <1>5, <2>1
  <2> QED BY <2>1, <2>2 DEF Holds, moved, rest
<1>8. CASE i < c
  <2>1. c - 1 \in 1 .. Len(s) - 1 /\ rest[c - 1] = s[(c - 1) + 1] /\ (c - 1) + 1 = c
    BY <1>0, <1>1, <1>8
  <2>2. PICK n \in DOMAIN moved : moved[n] = rest[c - 1]
    BY <1>5, <2>1
  <2> QED BY <2>1, <2>2 DEF Holds, moved, rest
<1> QED BY <1>0, <1>6, <1>7, <1>8

\* reorder: the cursor follows its item, moved or moved past.
LEMMA ReorderSound ==
    ASSUME NEW p \in PlaybackState, InBounds(p), NEW id, NEW new_index \in Nat \ {0}
    PROVE  /\ Sound(p, ApplyReorder(p, id, new_index))
           /\ SameItem(p, ApplyReorder(p, id, new_index))
<1> DEFINE q == ApplyReorder(p, id, new_index)
           old == PositionOf(p.items, id)
           c == p.now_playing_index
           rest == WithoutIndex(p.items, old)
           target == Least(new_index, Len(rest) + 1)
           moved == WithInserted(rest, target, p.items[old])
           d == IF c \in DOMAIN p.items THEN PositionOf(moved, p.items[c].item_id) ELSE c
<1>0. /\ p.items \in Seq(QueueItem) /\ Len(p.items) \in Nat
      /\ DOMAIN p.items = 1 .. Len(p.items) /\ c \in Nat
      /\ \A k \in 1 .. Len(p.items) : p.items[k] \in QueueItem
  BY StateFacts
<1>1. old \in 0 .. Len(p.items)
  BY <1>0, PositionOfProperties
<1>2. CASE old = 0
  BY <1>2 DEF ApplyReorder, Sound, SameItem
<1>3. CASE old # 0
  <2>1. old \in 1 .. Len(p.items)
    BY <1>0, <1>1, <1>3
  <2>2. rest \in Seq(QueueItem) /\ Len(rest) = Len(p.items) - 1
    BY <1>0, <2>1, WithoutIndexProperties
  <2>3. q = [p EXCEPT !.items = moved, !.now_playing_index = d]
    BY <1>3 DEF ApplyReorder
  <2>4. p.items[old] \in QueueItem
    BY <1>0, <2>1
  <2> HIDE DEF q
  <2>5. target \in 1 .. Len(p.items)
    <3> HIDE DEF rest
    <3> QED BY <1>0, <2>1, <2>2 DEF Least
  <2>6. DistinctIds(p.items) => DistinctIds(moved)
    <3>1. ASSUME DistinctIds(p.items) PROVE DistinctIds(moved)
      <4>1. DistinctIds(rest) /\ ~ Holds(rest, p.items[old].item_id)
        BY <1>0, <2>1, <3>1, DistinctWithout
      <4>2. target \in 1 .. Len(rest) + 1
        <5> HIDE DEF rest, target
        <5> QED BY <1>0, <2>2, <2>5
      <4> HIDE DEF rest, target
      <4> QED BY <2>2, <2>4, <4>1, <4>2, DistinctInserted
    <3> QED BY <3>1
  <2>7. moved \in Seq(QueueItem) /\ Len(moved) = Len(p.items)
    <3>1. target \in 1 .. Len(rest) + 1
      <4> HIDE DEF rest, target
      <4> QED BY <1>0, <2>2, <2>5
    <3> HIDE DEF rest, target
    <3>2. moved \in Seq(QueueItem) /\ Len(moved) = Len(rest) + 1
      BY <2>2, <2>4, <3>1, InsertedItem
    <3> HIDE DEF moved
    <3> QED BY <1>0, <2>2, <3>2
  <2>8. \A k \in 1 .. Len(p.items) : Holds(moved, p.items[k].item_id)
    <3>1. TAKE k \in 1 .. Len(p.items)
    <3>2. target \in 1 .. Len(p.items)
      BY <2>5
    <3> HIDE DEF target
    <3> QED BY <1>0, <2>1, <3>2, MovedHolds
  <2> HIDE DEF moved, target, rest
  <2>9. DOMAIN moved = 1 .. Len(p.items)
    BY <2>7, LenProperties
  <2>10. CASE c = 0
    <3>1. d = 0
      BY <1>0, <2>10
    <3>2. q \in PlaybackState /\ q.items = moved /\ q.now_playing_index = 0
      <4> HIDE DEF d
      <4> QED BY <2>3, <2>7, <3>1 DEF PlaybackState
    <3>3. Sound(p, q)
      BY <1>0, <2>6, <2>7, <3>2 DEF Sound, InBounds
    <3>4. SameItem(p, q)
      <4>1. c \notin DOMAIN p.items /\ q.now_playing_index \notin DOMAIN q.items
        BY <1>0, <2>9, <2>10, <3>2
      <4> QED BY <3>2, <4>1, SameItemIf
    <3> QED BY <3>3, <3>4 DEF q
  <2>11. CASE c # 0
    <3>1. c \in 1 .. Len(p.items)
      BY <1>0, <2>11 DEF InBounds
    <3>2. d = PositionOf(moved, p.items[c].item_id)
      BY <1>0, <3>1
    <3>3. Holds(moved, p.items[c].item_id)
      BY <2>8, <3>1
    <3>4. d \in 0 .. Len(moved) /\ d # 0 /\ moved[d].item_id = p.items[c].item_id
      <4> HIDE DEF d
      <4> QED BY <2>7, <3>2, <3>3, PositionOfProperties
    <3> HIDE DEF d
    <3>5. d \in DOMAIN moved /\ d \in Nat /\ d <= Len(moved)
      BY <1>0, <2>7, <2>9, <3>4
    <3>6. q \in PlaybackState /\ q.items = moved /\ q.now_playing_index = d
      BY <2>3, <2>7, <3>5 DEF PlaybackState
    <3>7. Sound(p, q)
      BY <2>6, <3>5, <3>6 DEF Sound, InBounds
    <3>8. SameItem(p, q)
      BY <1>0, <3>1, <3>4, <3>5, <3>6, SameItemIf
    <3> QED BY <3>7, <3>8 DEF q
  <2> QED BY <2>10, <2>11
<1> QED BY <1>2, <1>3

\* replace_upcoming: everything up to the cursor is kept.
LEMMA ReplaceUpcomingSound ==
    ASSUME NEW p \in PlaybackState, InBounds(p), NEW items \in Seq(QueueItem)
    PROVE  /\ Sound(p, ApplyReplaceUpcoming(p, items))
           /\ SameItem(p, ApplyReplaceUpcoming(p, items))
<1> DEFINE q == ApplyReplaceUpcoming(p, items)
           c == p.now_playing_index
           kept == SubSeq(p.items, 1, c)
           fresh == FreshItems(kept, items)
           s == kept \o fresh
<1>0. /\ p.items \in Seq(QueueItem) /\ Len(p.items) \in Nat
      /\ DOMAIN p.items = 1 .. Len(p.items) /\ c \in Nat
      /\ \A k \in 1 .. Len(p.items) : p.items[k] \in QueueItem
  BY StateFacts
<1>1. c <= Len(p.items)
  BY DEF InBounds
<1>2. q = [p EXCEPT !.items = s]
  <2>1. Least(c, Len(p.items)) = c
    BY <1>1 DEF Least
  <2> QED BY <2>1 DEF ApplyReplaceUpcoming
<1> HIDE DEF q
<1>3. /\ kept \in Seq(QueueItem) /\ Len(kept) = c
      /\ \A k \in 1 .. c : kept[k] = p.items[k]
  <2>1. \A k \in 1 .. c : p.items[k] \in QueueItem
    BY <1>0, <1>1
  <2>2. c = 0 \/ (1 \in 1 .. Len(p.items) /\ c \in 1 .. Len(p.items))
    BY <1>0, <1>1
  <2> QED BY <1>0, <1>1, <2>1, <2>2, SubSeqProperties
<1> HIDE DEF kept
<1>4. /\ fresh \in Seq(QueueItem) /\ DistinctIds(fresh)
      /\ \A n \in DOMAIN fresh : ~ Holds(kept, fresh[n].item_id)
  BY FreshItemsProperties
<1> HIDE DEF fresh
<1>5. Len(fresh) \in Nat /\ DOMAIN fresh = 1 .. Len(fresh) /\ DOMAIN kept = 1 .. c
  BY <1>3, <1>4, LenProperties
<1>6. /\ s \in Seq(QueueItem) /\ Len(s) = c + Len(fresh)
      /\ \A k \in 1 .. c + Len(fresh) :
            s[k] = IF k <= c THEN kept[k] ELSE fresh[k - c]
  BY <1>3, <1>4, ConcatProperties, SMTT(30)
<1> HIDE DEF s
<1>7. DOMAIN s = 1 .. c + Len(fresh)
  BY <1>6, LenProperties
<1>8. /\ q \in PlaybackState /\ q.items = s /\ q.now_playing_index = c
  BY <1>2, <1>6 DEF PlaybackState
<1>9. InBounds(q)
  BY <1>0, <1>5, <1>6, <1>8 DEF InBounds
<1>10. ASSUME DistinctIds(p.items) PROVE DistinctIds(s)
  <2>1. SUFFICES ASSUME NEW i \in DOMAIN s, NEW j \in DOMAIN s, s[i].item_id = s[j].item_id
                 PROVE  i = j
    BY DEF DistinctIds
  <2>2. i \in Nat /\ j \in Nat /\ i <= c + Len(fresh) /\ j <= c + Len(fresh)
        /\ i >= 1 /\ j >= 1
    BY <1>0, <1>5, <1>7
  <2>3. \A k \in DOMAIN s : k <= c => k \in DOMAIN p.items /\ k \in DOMAIN kept
                                      /\ s[k] = p.items[k] /\ s[k] = kept[k]
    BY <1>0, <1>1, <1>3, <1>5, <1>6, <1>7
  <2>4. \A k \in DOMAIN s : ~ (k <= c) => k - c \in DOMAIN fresh /\ s[k] = fresh[k - c]
    <3>1. SUFFICES ASSUME NEW k \in 1 .. c + Len(fresh), ~ (k <= c)
                   PROVE  k - c \in 1 .. Len(fresh) /\ s[k] = fresh[k - c]
      BY <1>5, <1>7
    <3>2. k - c \in 1 .. Len(fresh)
      BY <1>0, <1>5, <3>1
    <3>3. s[k] = fresh[k - c]
      BY <1>6, <3>1
    <3> QED BY <3>2, <3>3
  <2>5. CASE i <= c /\ j <= c
    BY <1>10, <2>1, <2>3, <2>5 DEF DistinctIds
  <2>6. CASE ~ (i <= c) /\ ~ (j <= c)
    <3>1. i - c = j - c
      BY <1>4, <2>1, <2>4, <2>6 DEF DistinctIds
    <3> QED BY <1>0, <2>2, <3>1
  <2>7. CASE i <= c /\ ~ (j <= c)
    <3>1. i \in DOMAIN kept /\ kept[i].item_id = fresh[j - c].item_id /\ j - c \in DOMAIN fresh
      BY <2>1, <2>3, <2>4, <2>7
    <3> QED BY <1>4, <3>1 DEF Holds
  <2>8. CASE ~ (i <= c) /\ j <= c
    <3>1. j \in DOMAIN kept /\ kept[j].item_id = fresh[i - c].item_id /\ i - c \in DOMAIN fresh
      BY <2>1, <2>3, <2>4, <2>8
    <3> QED BY <1>4, <3>1 DEF Holds
  <2> QED BY <2>5, <2>6, <2>7, <2>8
<1>11. SameItem(p, q)
  <2>1. CASE c = 0
    <3>1. c \notin DOMAIN p.items /\ c \notin DOMAIN s
      BY <1>0, <1>7, <2>1
    <3> QED BY <1>8, <3>1, SameItemIf
  <2>2. CASE c # 0
    <3>1. c \in DOMAIN p.items /\ c \in DOMAIN s /\ s[c] = p.items[c]
      BY <1>0, <1>1, <1>3, <1>5, <1>6, <1>7, <2>2
    <3> QED BY <1>8, <3>1, SameItemIf
  <2> QED BY <2>1, <2>2
<1> QED BY <1>8, <1>9, <1>10, <1>11 DEF Sound, q

\* A started session is sound by itself; its list repeats an id only if the
\* client's list did, for start_session keeps the list as it came.
LEMMA StartedSessionSound ==
    ASSUME NEW op \in StartSessionOp, op.anchor_index <= Len(op.items), NEW now_ms \in Nat
    PROVE  /\ StartedSession(op, now_ms) \in PlaybackState
           /\ InBounds(StartedSession(op, now_ms))
           /\ StartedSession(op, now_ms).items = op.items
<1>1. /\ op.items \in Seq(QueueItem) /\ op.anchor_index \in Nat \ {0}
      /\ op.session_id \in SessionId
  BY DEF StartSessionOp
<1>2. op.anchor_index \in 1 .. Len(op.items)
  BY <1>1, LenProperties
<1>3. op.items[op.anchor_index].track_id \in TrackId
  <2>1. op.items[op.anchor_index] \in QueueItem
    BY <1>1, <1>2, ElementOfSeq
  <2> QED BY <2>1 DEF QueueItem
<1>4. [session_id |-> op.session_id, track_id |-> op.items[op.anchor_index].track_id,
       started_ms |-> now_ms] \in SessionAnchor
  BY <1>1, <1>3 DEF SessionAnchor
<1> QED BY <1>1, <1>2, <1>4 DEF StartedSession, PlaybackState, InBounds

\* An op whose list, if it starts a session, repeats no id.
CleanOp(op) == op.type = "start_session" => DistinctIds(op.items)

\* The empty queue.
LEMMA DefaultSound ==
    /\ DefaultPlayback \in PlaybackState
    /\ InBounds(DefaultPlayback)
    /\ DistinctIds(DefaultPlayback.items)
<1>1. << >> \in Seq(QueueItem) /\ Len(<< >>) = 0 /\ DOMAIN << >> = {}
  BY EmptySeq
<1> QED BY <1>1 DEF DefaultPlayback, PlaybackState, InBounds, DistinctIds

\* An op that leaves the queue and the cursor alone.
LEMMA SameQueueSound ==
    ASSUME NEW p \in PlaybackState, InBounds(p), NEW q \in PlaybackState,
           q.items = p.items, q.now_playing_index = p.now_playing_index
    PROVE  Sound(p, q) /\ SameItem(p, q)
BY DEF Sound, InBounds, SameItem, NowPlaying

(***************************************************************************)
(* SyncState::apply on any op it accepts: the cursor stays in bounds, the  *)
(* ids stay distinct if the list of a start_session has distinct ids, and  *)
(* the item being played changes only by an op that says so.               *)
(***************************************************************************)
THEOREM ApplySound ==
    ASSUME NEW p \in PlaybackState, InBounds(p), NEW op \in SyncOp, ~ Rejected(p, op),
           NEW now_ms \in Nat
    PROVE  /\ Apply(p, op, now_ms) \in PlaybackState
           /\ InBounds(Apply(p, op, now_ms))
           /\ DistinctIds(p.items) /\ CleanOp(op) => DistinctIds(Apply(p, op, now_ms).items)
           /\ MovesCursor(p, op) \/ SameItem(p, Apply(p, op, now_ms))
<1> DEFINE q == Apply(p, op, now_ms)
<1>1. CASE op \in PushOp
  <2>1. op.type = "push" /\ op.item \in QueueItem
    BY <1>1 DEF PushOp
  <2>2. q = ApplyPush(p, op.item)
    BY <2>1 DEF Apply
  <2> QED BY <2>1, <2>2, PushSound DEF Sound
<1>2. CASE op \in RemoveOp
  <2>1. op.type = "remove"
    BY <1>2 DEF RemoveOp
  <2>2. q = ApplyRemove(p, op.item_id)
    BY <2>1 DEF Apply
  <2> QED BY <2>1, <2>2, RemoveSound DEF Sound, MovesCursor
<1>3. CASE op \in ReorderOp
  <2>1. op.type = "reorder" /\ op.new_index \in Nat \ {0}
    BY <1>3 DEF ReorderOp
  <2>2. q = ApplyReorder(p, op.item_id, op.new_index)
    BY <2>1 DEF Apply
  <2> QED BY <2>1, <2>2, ReorderSound DEF Sound
<1>4. CASE op \in SetNowPlayingOp
  <2>1. op.type = "set_now_playing" /\ op.index \in Nat
    BY <1>4 DEF SetNowPlayingOp
  <2>2. q = [p EXCEPT !.now_playing_index = op.index]
    BY <2>1 DEF Apply
  <2>3. op.index <= Len(p.items)
    BY <2>1, StateFacts DEF Rejected
  <2>4. q \in PlaybackState /\ q.items = p.items /\ q.now_playing_index = op.index
    BY <2>1, <2>2 DEF PlaybackState
  <2> HIDE DEF q
  <2>5. q \in PlaybackState /\ InBounds(q) /\ (DistinctIds(p.items) => DistinctIds(q.items))
    BY <2>3, <2>4 DEF InBounds
  <2> QED BY <2>1, <2>5 DEF MovesCursor, q
<1>5. CASE op \in SetPositionOp
  <2>1. op.type = "set_position" /\ op.position_ms \in Nat
    BY <1>5 DEF SetPositionOp
  <2>2. q = [p EXCEPT !.position_ms = op.position_ms]
    BY <2>1 DEF Apply
  <2>3. q \in PlaybackState /\ q.items = p.items /\ q.now_playing_index = p.now_playing_index
    BY <2>1, <2>2 DEF PlaybackState
  <2> QED BY <2>3, SameQueueSound DEF Sound
<1>6. CASE op \in SetPlayingOp
  <2>1. op.type = "set_playing" /\ op.is_playing \in BOOLEAN
    BY <1>6 DEF SetPlayingOp
  <2>2. q = [p EXCEPT !.is_playing = op.is_playing]
    BY <2>1 DEF Apply
  <2>3. q \in PlaybackState /\ q.items = p.items /\ q.now_playing_index = p.now_playing_index
    BY <2>1, <2>2 DEF PlaybackState
  <2> QED BY <2>3, SameQueueSound DEF Sound
<1>7. CASE op \in ClearOp
  <2>1. op.type = "clear"
    BY <1>7 DEF ClearOp
  <2>2. q = DefaultPlayback
    BY <2>1 DEF Apply
  <2> QED BY <2>1, <2>2, DefaultSound DEF MovesCursor
<1>8. CASE op \in StartSessionOp
  <2>1. op.type = "start_session" /\ op.anchor_index \in Nat \ {0} /\ op.items \in Seq(QueueItem)
    BY <1>8 DEF StartSessionOp
  <2>2. q = StartedSession(op, now_ms)
    BY <2>1 DEF Apply
  <2>3. op.anchor_index <= Len(op.items)
    <3>1. Len(op.items) \in Nat
      BY <2>1, LenProperties
    <3> QED BY <2>1, <3>1 DEF Rejected
  <2>4. q \in PlaybackState /\ InBounds(q) /\ q.items = op.items
    BY <1>8, <2>2, <2>3, StartedSessionSound
  <2> QED BY <2>1, <2>4 DEF MovesCursor, CleanOp
<1>9. CASE op \in ReplaceUpcomingOp
  <2>1. op.type = "replace_upcoming" /\ op.items \in Seq(QueueItem)
    BY <1>9 DEF ReplaceUpcomingOp
  <2>2. q = ApplyReplaceUpcoming(p, op.items)
    BY <2>1 DEF Apply
  <2> QED BY <2>1, <2>2, ReplaceUpcomingSound DEF Sound
<1>10. CASE op \in StopSessionOp
  <2>1. op.type = "stop_session"
    BY <1>10 DEF StopSessionOp
  <2>2. q = [p EXCEPT !.session_anchor = NoAnchor]
    BY <2>1 DEF Apply
  <2>3. q \in PlaybackState /\ q.items = p.items /\ q.now_playing_index = p.now_playing_index
    BY <2>2 DEF PlaybackState
  <2> QED BY <2>3, SameQueueSound DEF Sound
<1> QED BY <1>1, <1>2, <1>3, <1>4, <1>5, <1>6, <1>7, <1>8, <1>9, <1>10 DEF SyncOp

-----------------------------------------------------------------------------
(***************************************************************************)
(* Two replicas of one state differ only in the time each of them stamped  *)
(* on the session.                                                         *)
(***************************************************************************)
\* An anchor but for its time.
Bare(anchor) == IF anchor = NoAnchor THEN NoAnchor ELSE [anchor EXCEPT !.started_ms = 0]

Alike(p, q) ==
    /\ p.items = q.items /\ p.now_playing_index = q.now_playing_index
    /\ p.position_ms = q.position_ms /\ p.is_playing = q.is_playing
    /\ Bare(p.session_anchor) = Bare(q.session_anchor)

\* Unstamped forgets just what Alike ignores.
LEMMA UnstampedAlike ==
    ASSUME NEW p \in PlaybackState, NEW q \in PlaybackState, Alike(p, q)
    PROVE  Unstamped(p) = Unstamped(q)
<1> DEFINE bare(r) == [r EXCEPT !.session_anchor = Bare(r.session_anchor)]
<1>1. ASSUME NEW r \in PlaybackState
      PROVE  Unstamped(r) = bare(r)
  <2>1. CASE r.session_anchor = NoAnchor
    BY <2>1 DEF Unstamped, Bare, PlaybackState
  <2>2. CASE r.session_anchor # NoAnchor
    BY <2>2 DEF Unstamped, Bare
  <2> QED BY <2>1, <2>2
<1>2. bare(p) = bare(q)
  BY DEF Alike, PlaybackState
<1> QED BY <1>1, <1>2

\* What an op does to two such states differs in no more, whatever clocks read.
LEMMA ApplyAlike ==
    ASSUME NEW p \in PlaybackState, NEW q \in PlaybackState, Alike(p, q),
           NEW op \in SyncOp, ~ Rejected(p, op), NEW s \in Nat, NEW t \in Nat
    PROVE  Alike(Apply(p, op, s), Apply(q, op, t))
<1>1. CASE op \in PushOp
  <2>1. Apply(p, op, s) = ApplyPush(p, op.item) /\ Apply(q, op, t) = ApplyPush(q, op.item)
    BY <1>1 DEF Apply, PushOp
  <2> QED BY <2>1 DEF ApplyPush, Alike, PlaybackState
<1>2. CASE op \in RemoveOp
  <2>1. Apply(p, op, s) = ApplyRemove(p, op.item_id) /\ Apply(q, op, t) = ApplyRemove(q, op.item_id)
    BY <1>2 DEF Apply, RemoveOp
  <2> QED BY <2>1 DEF ApplyRemove, NormalizeCursor, Alike, PlaybackState
<1>3. CASE op \in ReorderOp
  <2>1. /\ Apply(p, op, s) = ApplyReorder(p, op.item_id, op.new_index)
        /\ Apply(q, op, t) = ApplyReorder(q, op.item_id, op.new_index)
    BY <1>3 DEF Apply, ReorderOp
  <2> QED BY <2>1 DEF ApplyReorder, Alike, PlaybackState
<1>4. CASE op \in SetNowPlayingOp
  BY <1>4 DEF Apply, SetNowPlayingOp, Alike, PlaybackState
<1>5. CASE op \in SetPositionOp
  BY <1>5 DEF Apply, SetPositionOp, Alike, PlaybackState
<1>6. CASE op \in SetPlayingOp
  BY <1>6 DEF Apply, SetPlayingOp, Alike, PlaybackState
<1>7. CASE op \in ClearOp
  BY <1>7 DEF Apply, ClearOp, Alike
<1>8. CASE op \in StartSessionOp
  <2>1. Apply(p, op, s) = StartedSession(op, s) /\ Apply(q, op, t) = StartedSession(op, t)
    BY <1>8 DEF Apply, StartSessionOp
  <2>2. op.anchor_index <= Len(op.items)
    <3>1. Len(op.items) \in Nat
      BY <1>8, LenProperties DEF StartSessionOp
    <3> QED BY <1>8, <3>1 DEF Rejected, StartSessionOp
  <2> DEFINE a == StartedSession(op, s).session_anchor
             b == StartedSession(op, t).session_anchor
             track == op.items[op.anchor_index].track_id
  <2>3. a \in SessionAnchor /\ b \in SessionAnchor
    <3>1. track \in TrackId /\ op.session_id \in SessionId
      <4>1. op.items \in Seq(QueueItem) /\ op.anchor_index \in DOMAIN op.items
        BY <1>8, <2>2, LenProperties DEF StartSessionOp
      <4>2. op.items[op.anchor_index] \in QueueItem
        BY <4>1, ElementOfSeq, LenProperties
      <4> QED BY <1>8, <4>2 DEF StartSessionOp, QueueItem
    <3>2. /\ a = [session_id |-> op.session_id, track_id |-> track, started_ms |-> s]
          /\ b = [session_id |-> op.session_id, track_id |-> track, started_ms |-> t]
      BY DEF StartedSession
    <3> HIDE DEF track, a, b
    <3> QED BY <3>1, <3>2 DEF SessionAnchor
  <2>4. Bare(a) = Bare(b)
    <3>1. a # NoAnchor /\ b # NoAnchor
      BY <2>3, NoAnchorAssumption
    <3>2. a.session_id = b.session_id /\ a.track_id = b.track_id
      BY DEF StartedSession
    <3> HIDE DEF a, b
    <3>3. [a EXCEPT !.started_ms = 0] = [b EXCEPT !.started_ms = 0]
      BY <2>3, <3>2 DEF SessionAnchor
    <3> QED BY <3>1, <3>3 DEF Bare
  <2> HIDE DEF a, b
  <2>5. /\ StartedSession(op, s).session_anchor = a /\ StartedSession(op, t).session_anchor = b
    BY DEF a, b
  <2> QED BY <2>1, <2>4, <2>5 DEF StartedSession, Alike
<1>9. CASE op \in ReplaceUpcomingOp
  <2>1. /\ Apply(p, op, s) = ApplyReplaceUpcoming(p, op.items)
        /\ Apply(q, op, t) = ApplyReplaceUpcoming(q, op.items)
    BY <1>9 DEF Apply, ReplaceUpcomingOp
  <2> QED BY <2>1 DEF ApplyReplaceUpcoming, Alike, PlaybackState
<1>10. CASE op \in StopSessionOp
  BY <1>10 DEF Apply, StopSessionOp, Alike, PlaybackState
<1> QED BY <1>1, <1>2, <1>3, <1>4, <1>5, <1>6, <1>7, <1>8, <1>9, <1>10 DEF SyncOp

-----------------------------------------------------------------------------
(***************************************************************************)
(* The room's history.  StatesOf is recursive: that it has the values its  *)
(* definition asks for is an argument by the shortest counterexample.      *)
(***************************************************************************)
StateStep(f, accepted, n, now_ms) ==
    IF n = 0 THEN DefaultPlayback ELSE Apply(f[n - 1], accepted[n], now_ms)

Solves(f, accepted, now_ms) == f = [n \in 0 .. Len(accepted) |-> StateStep(f, accepted, n, now_ms)]

\* Its values, one by one.
LEMMA SolvesAt ==
    ASSUME NEW now_ms, NEW f, NEW accepted, Solves(f, accepted, now_ms), NEW n \in 0 .. Len(accepted)
    PROVE  f[n] = StateStep(f, accepted, n, now_ms)
BY DEF Solves

\* Histories of a sequence and of a longer one agree where both are defined.
LEMMA HistoriesAgree ==
    ASSUME NEW now_ms, NEW a, NEW b, NEW f, NEW g, Len(a) \in Nat, Len(b) \in Nat, Len(a) <= Len(b),
           \A n \in 1 .. Len(a) : a[n] = b[n],
           Solves(f, a, now_ms), Solves(g, b, now_ms), NEW n \in 0 .. Len(a)
    PROVE  f[n] = g[n]
<1> DEFINE Bad == {k \in 0 .. Len(a) : f[k] # g[k]}
<1>1. \A k \in 0 .. Len(a) : f[k] = StateStep(f, a, k, now_ms) /\ g[k] = StateStep(g, b, k, now_ms)
  <2>1. \A k \in 0 .. Len(a) : f[k] = StateStep(f, a, k, now_ms)
    BY DEF Solves
  <2>2. \A k \in 0 .. Len(b) : g[k] = StateStep(g, b, k, now_ms)
    BY DEF Solves
  <2> QED BY <2>1, <2>2
<1>2. SUFFICES ASSUME Bad # {}
               PROVE  FALSE
  OBVIOUS
<1>3. PICK k \in Bad : \A j \in Bad : k <= j
  <2>1. Bad \subseteq Nat
    OBVIOUS
  <2> HIDE DEF Bad
  <2> QED BY <1>2, <2>1, NatMin
<1>4. k # 0
  BY <1>1, <1>3 DEF StateStep
<1>5. k \in 1 .. Len(a) /\ k - 1 \in 0 .. Len(a) /\ k - 1 \notin Bad
  BY <1>3, <1>4
<1>6. f[k - 1] = g[k - 1] /\ a[k] = b[k]
  BY <1>5
<1>7. f[k] = StateStep(f, a, k, now_ms) /\ g[k] = StateStep(g, b, k, now_ms)
  BY <1>1, <1>3
<1>8. StateStep(f, a, k, now_ms) = StateStep(g, b, k, now_ms)
  BY <1>4, <1>6 DEF StateStep
<1> QED BY <1>3, <1>7, <1>8

\* A history can be continued by one op.
LEMMA HistoryContinues ==
    ASSUME NEW now_ms, NEW accepted \in Seq(SyncOp), NEW op \in SyncOp, NEW f,
           Solves(f, accepted, now_ms)
    PROVE  \E g : Solves(g, Append(accepted, op), now_ms)
<1> DEFINE more == Append(accepted, op)
           L == Len(accepted)
           g == [n \in 0 .. L + 1 |-> IF n = L + 1 THEN Apply(f[L], op, now_ms) ELSE f[n]]
<1>1. /\ L \in Nat /\ Len(more) = L + 1 /\ more[L + 1] = op
      /\ \A n \in 1 .. L : more[n] = accepted[n]
  BY AppendProperties, LenProperties
<1>2. \A n \in 0 .. L : f[n] = StateStep(f, accepted, n, now_ms)
  BY DEF Solves
<1> HIDE DEF more, L
<1>3. \A n \in 0 .. L + 1 : g[n] = StateStep(g, more, n, now_ms)
  <2> SUFFICES ASSUME NEW n \in 0 .. L + 1
               PROVE  g[n] = StateStep(g, more, n, now_ms)
    OBVIOUS
  <2>1. CASE n = 0
    BY <1>1, <1>2, <2>1 DEF StateStep
  <2>2. CASE n \in 1 .. L
    <3>1. n - 1 \in 0 .. L + 1 /\ n - 1 # L + 1 /\ n \in 0 .. L /\ n # L + 1 /\ n # 0
      BY <1>1, <2>2
    <3>2. g[n - 1] = f[n - 1] /\ g[n] = f[n]
      BY <3>1
    <3>3. f[n] = Apply(f[n - 1], accepted[n], now_ms)
      BY <1>2, <3>1 DEF StateStep
    <3> QED BY <1>1, <2>2, <3>1, <3>2, <3>3 DEF StateStep
  <2>3. CASE n = L + 1
    <3>1. n - 1 = L /\ n # 0 /\ L \in 0 .. L + 1 /\ L # L + 1
      BY <1>1, <2>3
    <3>2. g[n - 1] = f[L] /\ g[n] = Apply(f[L], op, now_ms)
      BY <2>3, <3>1
    <3> QED BY <1>1, <2>3, <3>1, <3>2 DEF StateStep
  <2> QED BY <1>1, <2>1, <2>2, <2>3
<1>4. g = [n \in 0 .. L + 1 |-> StateStep(g, more, n, now_ms)]
  BY <1>3
<1>5. Solves(g, more, now_ms)
  BY <1>1, <1>4 DEF Solves
<1> QED BY <1>5 DEF more

\* Every sequence of ops has a history.
LEMMA HistoryExists ==
    ASSUME NEW now_ms, NEW accepted \in Seq(SyncOp)
    PROVE  Solves(StatesOf(accepted, now_ms), accepted, now_ms)
<1> DEFINE Has(a) == \E f : Solves(f, a, now_ms)
           Bad == {n \in Nat : \E a \in Seq(SyncOp) : Len(a) = n /\ ~ Has(a)}
<1>1. Bad = {}
  <2> SUFFICES ASSUME Bad # {}
               PROVE  FALSE
    OBVIOUS
  <2>1. PICK n \in Bad : \A k \in Bad : n <= k
    BY NatMin
  <2>2. PICK a \in Seq(SyncOp) : Len(a) = n /\ ~ Has(a)
    BY <2>1
  <2>3. CASE n = 0
    <3> DEFINE f == [k \in 0 .. 0 |-> DefaultPlayback]
    <3>1. f = [k \in 0 .. 0 |-> StateStep(f, a, k, now_ms)]
      BY DEF StateStep
    <3>2. Solves(f, a, now_ms)
      BY <2>2, <2>3, <3>1 DEF Solves
    <3> QED BY <2>2, <3>2
  <2>4. CASE n # 0
    <3> DEFINE front == SubSeq(a, 1, n - 1)
    <3>1. n \in Nat /\ n - 1 \in Nat /\ n - 1 \notin Bad
      BY <2>1, <2>4
    <3>2. front \in Seq(SyncOp) /\ Len(front) = n - 1 /\ \A k \in 1 .. n - 1 : front[k] = a[k]
      BY <2>2, <3>1, SubSeqProperties, LenProperties
    <3>3. a[n] \in SyncOp
      BY <2>2, <2>4, SeqFacts
    <3>4. a = Append(front, a[n])
      <4> DEFINE b == Append(front, a[n])
      <4>1. b \in Seq(SyncOp) /\ Len(b) = n /\ \A k \in 1 .. n : b[k] = a[k]
        BY <3>1, <3>2, <3>3, AppendFacts
      <4> HIDE DEF b
      <4>2. a = b
        BY <2>2, <4>1, SeqEqual
      <4> QED BY <4>2 DEF b
    <3>5. Has(front)
      BY <3>1, <3>2
    <3> HIDE DEF front
    <3> QED BY <2>2, <3>2, <3>3, <3>4, <3>5, HistoryContinues
  <2> QED BY <2>3, <2>4
<1>2. Has(accepted)
  BY <1>1, LenProperties
<1> QED BY <1>2 DEF StatesOf, Solves, StateStep

\* The states a log leads through are states, with their cursor in bounds.
HistoryOK(accepted, now_ms) ==
    /\ accepted \in Seq(SyncOp)
    /\ \A n \in 0 .. Len(accepted) :
         StatesOf(accepted, now_ms)[n] \in PlaybackState /\ InBounds(StatesOf(accepted, now_ms)[n])
    /\ \A n \in 1 .. Len(accepted) : ~ Rejected(StatesOf(accepted, now_ms)[n - 1], accepted[n])

LEMMA EmptyHistory ==
    ASSUME NEW now_ms
    PROVE  HistoryOK(<< >>, now_ms) /\ StatesOf(<< >>, now_ms)[0] = DefaultPlayback
<1> SUFFICES ASSUME NEW none, none = << >>
             PROVE  HistoryOK(none, now_ms) /\ StatesOf(none, now_ms)[0] = DefaultPlayback
  OBVIOUS
<1>1. none \in Seq(SyncOp) /\ Len(none) = 0
  BY EmptySeq
<1>2. StatesOf(none, now_ms)[0] = StateStep(StatesOf(none, now_ms), none, 0, now_ms)
  <2>1. Solves(StatesOf(none, now_ms), none, now_ms)
    BY <1>1, HistoryExists
  <2> QED BY <1>1, <2>1, SolvesAt
<1>3. StatesOf(none, now_ms)[0] = DefaultPlayback
  BY <1>2 DEF StateStep
<1> QED BY <1>1, <1>3, DefaultSound DEF HistoryOK

\* One more accepted op adds one state and leaves the earlier ones.
LEMMA HistoryGrows ==
    ASSUME NEW now_ms \in Nat, NEW accepted, HistoryOK(accepted, now_ms), NEW op \in SyncOp,
           ~ Rejected(StatesOf(accepted, now_ms)[Len(accepted)], op)
    PROVE  LET more == Append(accepted, op)
               last == Len(accepted)
           IN  /\ HistoryOK(more, now_ms) /\ last \in Nat /\ Len(more) = last + 1 /\ more[last + 1] = op
               /\ \A n \in 1 .. last : more[n] = accepted[n]
               /\ \A n \in 0 .. last : StatesOf(more, now_ms)[n] = StatesOf(accepted, now_ms)[n]
               /\ StatesOf(more, now_ms)[last + 1] = Apply(StatesOf(accepted, now_ms)[last], op, now_ms)
<1> DEFINE more == Append(accepted, op)
           last == Len(accepted)
<1>1. /\ accepted \in Seq(SyncOp) /\ more \in Seq(SyncOp)
      /\ last \in Nat /\ Len(more) = last + 1 /\ more[last + 1] = op
      /\ \A n \in 1 .. last : more[n] = accepted[n]
  BY AppendProperties, LenProperties DEF HistoryOK
<1>2. Solves(StatesOf(accepted, now_ms), accepted, now_ms) /\ Solves(StatesOf(more, now_ms), more, now_ms)
  BY <1>1, HistoryExists
<1> HIDE DEF more, last
<1>3. \A n \in 0 .. last : StatesOf(more, now_ms)[n] = StatesOf(accepted, now_ms)[n]
  <2> TAKE n \in 0 .. last
  <2>1. Len(accepted) \in Nat /\ Len(more) \in Nat /\ Len(accepted) <= Len(more)
    BY <1>1 DEF last
  <2> QED BY <1>1, <1>2, <2>1, HistoriesAgree DEF last
<1>4. StatesOf(more, now_ms)[last + 1] = Apply(StatesOf(accepted, now_ms)[last], op, now_ms)
  <2>1. StatesOf(more, now_ms)[last + 1] = StateStep(StatesOf(more, now_ms), more, last + 1, now_ms)
    BY <1>1, <1>2, SolvesAt
  <2>2. last + 1 # 0 /\ (last + 1) - 1 = last /\ last \in 0 .. last
    BY <1>1
  <2> QED BY <1>1, <1>3, <2>1, <2>2 DEF StateStep
<1>5. StatesOf(accepted, now_ms)[last] \in PlaybackState /\ InBounds(StatesOf(accepted, now_ms)[last])
  BY <1>1 DEF HistoryOK, last
<1>6. StatesOf(more, now_ms)[last + 1] \in PlaybackState /\ InBounds(StatesOf(more, now_ms)[last + 1])
  BY <1>4, <1>5, ApplySound DEF last
<1>7. \A n \in 0 .. last + 1 :
         StatesOf(more, now_ms)[n] \in PlaybackState /\ InBounds(StatesOf(more, now_ms)[n])
  <2> TAKE n \in 0 .. last + 1
  <2>1. CASE n = last + 1
    BY <1>6, <2>1
  <2>2. CASE n \in 0 .. last
    BY <1>3, <2>2 DEF HistoryOK, last
  <2> QED BY <1>1, <2>1, <2>2
<1>8. \A n \in 1 .. last + 1 : ~ Rejected(StatesOf(more, now_ms)[n - 1], more[n])
  <2> TAKE n \in 1 .. last + 1
  <2>1. n - 1 \in 0 .. last
    BY <1>1
  <2>2. StatesOf(more, now_ms)[n - 1] = StatesOf(accepted, now_ms)[n - 1]
    BY <1>3, <2>1
  <2>3. CASE n = last + 1
    <3>1. n - 1 = last
      BY <1>1, <2>3
    <3> QED BY <1>1, <2>2, <2>3, <3>1 DEF last
  <2>4. CASE n \in 1 .. last
    BY <1>1, <2>2, <2>4 DEF HistoryOK, last
  <2> QED BY <1>1, <2>3, <2>4
<1>9. HistoryOK(more, now_ms)
  BY <1>1, <1>7, <1>8 DEF HistoryOK
<1> QED BY <1>1, <1>3, <1>4, <1>9 DEF more, last
=============================================================================
