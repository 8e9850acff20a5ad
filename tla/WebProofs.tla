----------------------------- MODULE WebProofs -----------------------------
(***************************************************************************)
(* The web client and its room, for any ops, any ring, any number of lost  *)
(* links, restarts, redials and devices: what the client confirmed is the  *)
(* room's past, and its ledger is resent without loss, repetition or       *)
(* reordering.                                                             *)
(***************************************************************************)
EXTENDS WebSync, PlaybackProofs, CommonLemmas

-----------------------------------------------------------------------------
(***************************************************************************)
(* The types of frames, sockets and events.                                *)
(***************************************************************************)
UpFrame ==
    [type : {"op"}, op_id : OpId, op : SyncOp] \cup [type : {"ping", "close"}]

State == [playback : PlaybackState, version : Nat]

DownFrame ==
    [type : {"snapshot"}, state : State]
      \cup [type : {"applied"}, op : SyncOp, version : Nat, op_id : OpId \cup {NoOpId}]
      \cup [type : {"ack", "op_error"}, op_id : OpId]
      \cup [type : {"pong"}]

SocketRec ==
    [ client   : {"unused", "connecting", "open", "closing", "closed"},
      attached : BOOLEAN,
      server   : {"none", "serving", "recovering", "gone"},
      overrun  : BOOLEAN,
      next     : Nat,
      up       : Seq(UpFrame),
      down     : Seq(DownFrame) ]

Entry == [op_id : OpId, op : SyncOp]
Logged == [op : SyncOp, op_id : OpId \cup {NoOpId}]

\* What is true of every socket by itself.
Tidy(r) ==
    /\ r.client = "unused" => r.server = "none"
    /\ r.server \in {"none", "gone"} => r.down = << >>
    /\ r.server = "gone" => r.up = << >>
    /\ r.client \in {"unused", "connecting"} => r.up = << >>
    /\ r.server = "recovering" => r.overrun
    /\ r.client = "closing" => ~ r.attached

Up == {"connecting", "open"}

-----------------------------------------------------------------------------
(***************************************************************************)
(* What the operators on sockets do, field by field.                       *)
(***************************************************************************)
\* A sequence and one more element.
LEMMA ConcatOne ==
    ASSUME NEW S, NEW s \in Seq(S), NEW e \in S
    PROVE  s \o <<e>> = Append(s, e)
<1>1. <<e>> \in Seq(S)
  OBVIOUS
<1>2. s \o <<e>> \in Seq(S) /\ Append(s, e) \in Seq(S)
  BY <1>1, ConcatProperties, AppendProperties
<1>3. /\ Len(s \o <<e>>) = Len(s) + 1 /\ Len(Append(s, e)) = Len(s) + 1 /\ Len(s) \in Nat
      /\ \A i \in 1 .. Len(s) + 1 : (s \o <<e>>)[i] = IF i <= Len(s) THEN s[i] ELSE <<e>>[i - Len(s)]
      /\ \A i \in 1 .. Len(s) : Append(s, e)[i] = s[i]
      /\ Append(s, e)[Len(s) + 1] = e
  BY <1>1, ConcatProperties, AppendProperties, LenProperties
<1>4. \A i \in 1 .. Len(s) + 1 : (s \o <<e>>)[i] = Append(s, e)[i]
  BY <1>3
<1> QED BY <1>2, <1>3, <1>4, SeqEqual

\* A sequence without its first element.
LEMMA TailFacts ==
    ASSUME NEW S, NEW s \in Seq(S), s # << >>
    PROVE  /\ Tail(s) \in Seq(S) /\ Head(s) \in S /\ Head(s) = s[1] /\ 1 \in DOMAIN s
           /\ Len(s) \in Nat \ {0} /\ DOMAIN s = 1 .. Len(s) /\ DOMAIN Tail(s) = 1 .. Len(s) - 1
           /\ \A i \in 1 .. Len(s) - 1 : Tail(s)[i] = s[i + 1]
<1>1. /\ Tail(s) \in Seq(S) /\ Head(s) \in S /\ Len(Tail(s)) = Len(s) - 1
      /\ \A i \in 1 .. Len(Tail(s)) : Tail(s)[i] = s[i + 1]
  BY HeadTailProperties
<1>2. Len(s) \in Nat \ {0} /\ DOMAIN s = 1 .. Len(s) /\ DOMAIN Tail(s) = 1 .. Len(Tail(s))
  BY <1>1, EmptySeq, LenProperties
<1>3. Head(s) = s[1]
  OBVIOUS
<1> QED BY <1>1, <1>2, <1>3

LEMMA Unfolded ==
    ASSUME NEW r \in SocketRec
    PROVE  r = [client |-> r.client, attached |-> r.attached, server |-> r.server,
                overrun |-> r.overrun, next |-> r.next, up |-> r.up, down |-> r.down]
BY DEF SocketRec

LEMMA SentFacts ==
    ASSUME NEW r \in SocketRec, NEW frames \in Seq(UpFrame)
    PROVE  LET q == Sent(r, frames)
           IN  /\ q \in SocketRec /\ q.client = r.client /\ q.attached = r.attached
               /\ q.server = r.server /\ q.overrun = r.overrun /\ q.next = r.next /\ q.down = r.down
               /\ q.up = IF r.server = "gone" THEN r.up ELSE r.up \o frames
<1>1. r.up \o frames \in Seq(UpFrame)
  BY ConcatProperties DEF SocketRec
<1> QED BY <1>1 DEF Sent, SocketRec

LEMMA DownstreamFacts ==
    ASSUME NEW r \in SocketRec, NEW frame \in DownFrame
    PROVE  LET q == Downstream(r, frame)
           IN  /\ q \in SocketRec /\ q.client = r.client /\ q.attached = r.attached
               /\ q.server = r.server /\ q.overrun = r.overrun /\ q.next = r.next /\ q.up = r.up
               /\ q.down = IF r.client \in Up THEN Append(r.down, frame) ELSE r.down
<1>1. Append(r.down, frame) \in Seq(DownFrame)
  BY AppendProperties DEF SocketRec
<1> QED BY <1>1 DEF Downstream, SocketRec, Up

LEMMA LostFacts ==
    ASSUME NEW r \in SocketRec
    PROVE  LET q == Lost(r)
           IN  /\ q \in SocketRec /\ q.client = r.client /\ q.attached = r.attached
               /\ q.server = "gone" /\ q.overrun = FALSE /\ q.next = 1 /\ q.up = << >> /\ q.down = << >>
<1> SUFFICES ASSUME NEW none, none = << >>
             PROVE  LET q == Lost(r)
                    IN  /\ q \in SocketRec /\ q.client = r.client /\ q.attached = r.attached
                        /\ q.server = "gone" /\ q.overrun = FALSE /\ q.next = 1
                        /\ q.up = none /\ q.down = none
  OBVIOUS
<1>1. none \in Seq(UpFrame) /\ none \in Seq(DownFrame)
  BY EmptySeq
<1> DEFINE a == [r EXCEPT !.server = "gone"]
           b == [a EXCEPT !.overrun = FALSE]
           c == [b EXCEPT !.next = 1]
           d == [c EXCEPT !.up = none]
           e == [d EXCEPT !.down = none]
<1>2. Lost(r) = e
  BY DEF Lost
<1>3. /\ a \in SocketRec /\ a.client = r.client /\ a.attached = r.attached /\ a.server = "gone"
      /\ a.overrun = r.overrun /\ a.next = r.next /\ a.up = r.up /\ a.down = r.down
  BY <1>1 DEF SocketRec
<1> HIDE DEF a
<1>4. /\ b \in SocketRec /\ b.client = r.client /\ b.attached = r.attached /\ b.server = "gone"
      /\ b.overrun = FALSE /\ b.next = r.next /\ b.up = r.up /\ b.down = r.down
  BY <1>1, <1>3 DEF SocketRec
<1> HIDE DEF b
<1>5. /\ c \in SocketRec /\ c.client = r.client /\ c.attached = r.attached /\ c.server = "gone"
      /\ c.overrun = FALSE /\ c.next = 1 /\ c.up = r.up /\ c.down = r.down
  BY <1>1, <1>4 DEF SocketRec
<1> HIDE DEF c
<1>6. /\ d \in SocketRec /\ d.client = r.client /\ d.attached = r.attached /\ d.server = "gone"
      /\ d.overrun = FALSE /\ d.next = 1 /\ d.up = none /\ d.down = r.down
  BY <1>1, <1>5 DEF SocketRec
<1> HIDE DEF d
<1>7. /\ e \in SocketRec /\ e.client = r.client /\ e.attached = r.attached /\ e.server = "gone"
      /\ e.overrun = FALSE /\ e.next = 1 /\ e.up = none /\ e.down = none
  BY <1>1, <1>6 DEF SocketRec
<1> HIDE DEF e
<1> QED BY <1>2, <1>7

LEMMA ClosingFacts ==
    ASSUME NEW r \in SocketRec
    PROVE  LET q == Closing(r, FALSE)
           IN  /\ q \in SocketRec /\ q.client = "closing" /\ q.attached = FALSE
               /\ q.server = r.server /\ q.overrun = r.overrun /\ q.next = r.next /\ q.down = << >>
               /\ q.up = IF r.server = "gone" THEN r.up ELSE Append(r.up, CloseFrame)
<1> SUFFICES ASSUME NEW none, none = << >>
             PROVE  LET q == Closing(r, FALSE)
                    IN  /\ q \in SocketRec /\ q.client = "closing" /\ q.attached = FALSE
                        /\ q.server = r.server /\ q.overrun = r.overrun /\ q.next = r.next
                        /\ q.down = none
                        /\ q.up = IF r.server = "gone" THEN r.up ELSE Append(r.up, CloseFrame)
  OBVIOUS
<1>1. none \in Seq(DownFrame)
  BY EmptySeq
<1> DEFINE a == [r EXCEPT !.client = "closing"]
           b == [a EXCEPT !.attached = FALSE]
           c == [b EXCEPT !.down = none]
           frames == <<CloseFrame>>
<1>2. Closing(r, FALSE) = Sent(c, frames)
  BY DEF Closing
<1>3. /\ a \in SocketRec /\ a.client = "closing" /\ a.attached = r.attached /\ a.server = r.server
      /\ a.overrun = r.overrun /\ a.next = r.next /\ a.up = r.up /\ a.down = r.down
  BY <1>1 DEF SocketRec
<1> HIDE DEF a
<1>4. /\ b \in SocketRec /\ b.client = "closing" /\ b.attached = FALSE /\ b.server = r.server
      /\ b.overrun = r.overrun /\ b.next = r.next /\ b.up = r.up /\ b.down = r.down
  BY <1>1, <1>3 DEF SocketRec
<1> HIDE DEF b
<1>5. /\ c \in SocketRec /\ c.client = "closing" /\ c.attached = FALSE /\ c.server = r.server
      /\ c.overrun = r.overrun /\ c.next = r.next /\ c.up = r.up /\ c.down = none
  BY <1>1, <1>4 DEF SocketRec
<1> HIDE DEF c
<1>6. CloseFrame \in UpFrame /\ frames \in Seq(UpFrame) /\ r.up \in Seq(UpFrame)
  <2>1. CloseFrame \in UpFrame
    BY DEF CloseFrame, UpFrame
  <2> QED BY <2>1 DEF SocketRec
<1>7. r.up \o frames = Append(r.up, CloseFrame)
  BY <1>6, ConcatOne
<1> DEFINE q == Sent(c, frames)
<1>8. /\ q \in SocketRec /\ q.client = c.client /\ q.attached = c.attached
      /\ q.server = c.server /\ q.overrun = c.overrun /\ q.next = c.next /\ q.down = c.down
      /\ q.up = IF c.server = "gone" THEN c.up ELSE c.up \o frames
  BY <1>6, <1>5, SentFacts
<1> HIDE DEF q, frames
<1> QED BY <1>7, <1>2, <1>5, <1>8 DEF q

\* One socket changes.
LEMMA OneChanges ==
    ASSUME NEW table \in [Socket -> SocketRec], NEW s \in Socket, NEW q \in SocketRec
    PROVE  /\ [table EXCEPT ![s] = q] \in [Socket -> SocketRec]
           /\ \A t \in Socket : [table EXCEPT ![s] = q][t] = IF t = s THEN q ELSE table[t]
OBVIOUS

\* A ping, a close: what is sent behind the rest.
LEMMA SentOne ==
    ASSUME NEW r \in SocketRec, NEW f \in UpFrame
    PROVE  LET q == Sent(r, <<f>>)
           IN  /\ q \in SocketRec /\ q.client = r.client /\ q.attached = r.attached
               /\ q.server = r.server /\ q.overrun = r.overrun /\ q.next = r.next /\ q.down = r.down
               /\ q.up = IF r.server = "gone" THEN r.up ELSE Append(r.up, f)
<1> DEFINE frames == <<f>>
           q == Sent(r, frames)
<1>1. frames \in Seq(UpFrame)
  OBVIOUS
<1>2. r.up \o frames = Append(r.up, f)
  BY ConcatOne DEF SocketRec
<1>3. /\ q \in SocketRec /\ q.client = r.client /\ q.attached = r.attached
      /\ q.server = r.server /\ q.overrun = r.overrun /\ q.next = r.next /\ q.down = r.down
      /\ q.up = IF r.server = "gone" THEN r.up ELSE r.up \o frames
  BY <1>1, SentFacts
<1> HIDE DEF frames
<1>4. q = Sent(r, <<f>>)
  BY DEF frames
<1> HIDE DEF q
<1> QED BY <1>2, <1>3, <1>4

-----------------------------------------------------------------------------
(***************************************************************************)
(* The stream of a socket: its snapshot, then the events that follow it.   *)
(***************************************************************************)
\* A socket at both ends of which the room is being followed.
Live(r) == r.client \in Up /\ r.server = "serving" /\ ~ r.overrun

Ops(events) == [n \in DOMAIN events |-> events[n].op]

History(events) == StatesOf(Ops(events), ServerNow)

Opens(down) == down # << >> /\ down[1].type = "snapshot"

\* The state that the events of a stream are to be applied to.
Base(down, held) == IF Opens(down) THEN down[1].state ELSE held

\* A past state of the room.
Was(state, events) ==
    /\ state.version \in 0 .. Len(events)
    /\ state.playback \in PlaybackState /\ InBounds(state.playback)
    /\ Alike(state.playback, History(events)[state.version])

\* What arrives after state, until next: every event once, in order.
Stream(down, next, state, events) ==
    /\ Was(state, events)
    /\ next \in state.version + 1 .. Len(events) + 1
    /\ \A i \in DOMAIN down : i > 1 => down[i].type # "snapshot"
    /\ \A i \in DOMAIN down : down[i].type = "applied" =>
         /\ down[i].version \in state.version + 1 .. next - 1
         /\ down[i].op = events[down[i].version].op
    /\ \A i, j \in DOMAIN down :
         i < j /\ down[i].type = "applied" /\ down[j].type = "applied"
           => down[i].version < down[j].version
    /\ \A v \in state.version + 1 .. next - 1 :
         \E i \in DOMAIN down : down[i].type = "applied" /\ down[i].version = v

\* Before the client opens, it has read nothing.
Flows(r, held, events) ==
    Live(r) => /\ Stream(r.down, r.next, Base(r.down, held), events)
               /\ r.client = "connecting" => Opens(r.down)

RoomInv ==
    /\ log \in Seq(Logged) /\ room \in Room
    /\ HistoryOK(Ops(log), ServerNow)
    /\ room.version = Len(log) /\ room.playback = History(log)[Len(log)]

\* A step of a socket that its stream does not notice.
Calm(r, q) ==
    Live(q) =>
      /\ Live(r) /\ q.next = r.next
      /\ q.client = "connecting" => r.client = "connecting"
      /\ \/ q.down = r.down
         \/ \E f \in DownFrame : f.type \notin {"snapshot", "applied"} /\ q.down = Append(r.down, f)

\* A frame behind the others does not change what they are applied to.
LEMMA BaseStays ==
    ASSUME NEW down \in Seq(DownFrame), NEW f \in DownFrame, NEW held,
           f.type # "snapshot" \/ down # << >>
    PROVE  Base(Append(down, f), held) = Base(down, held) /\ (Opens(down) => Opens(Append(down, f)))
<1> DEFINE more == Append(down, f)
<1>1. /\ Len(down) \in Nat /\ DOMAIN down = 1 .. Len(down) /\ DOMAIN more = 1 .. Len(down) + 1
      /\ \A i \in 1 .. Len(down) + 1 : more[i] = IF i = Len(down) + 1 THEN f ELSE down[i]
      /\ more \in Seq(DownFrame) /\ Len(more) = Len(down) + 1
  BY AppendFacts, SeqFacts
<1> HIDE DEF more
<1>2. more # << >> /\ (down = << >> <=> Len(down) = 0)
  BY <1>1, EmptySeq
<1>3. CASE down = << >>
  BY <1>1, <1>2, <1>3 DEF Base, Opens, more
<1>4. CASE down # << >>
  <2>1. more[1] = down[1]
    BY <1>1, <1>2, <1>4
  <2> QED BY <1>2, <1>4, <2>1 DEF Base, Opens, more
<1> QED BY <1>3, <1>4

LEMMA CalmFlows ==
    ASSUME NEW r \in SocketRec, NEW q \in SocketRec, NEW held, NEW events,
           Calm(r, q), Flows(r, held, events)
    PROVE  Flows(q, held, events)
<1> SUFFICES ASSUME Live(q)
             PROVE  /\ Stream(q.down, q.next, Base(q.down, held), events)
                    /\ q.client = "connecting" => Opens(q.down)
  BY DEF Flows
<1>1. /\ Stream(r.down, r.next, Base(r.down, held), events) /\ q.next = r.next
      /\ q.client = "connecting" => Opens(r.down)
  BY DEF Calm, Flows
<1>2. CASE q.down = r.down
  BY <1>1, <1>2
<1>3. CASE \E f \in DownFrame : f.type \notin {"snapshot", "applied"} /\ q.down = Append(r.down, f)
  <2>1. PICK f \in DownFrame : f.type \notin {"snapshot", "applied"} /\ q.down = Append(r.down, f)
    BY <1>3
  <2>2. /\ r.down \in Seq(DownFrame) /\ Len(r.down) \in Nat /\ DOMAIN r.down = 1 .. Len(r.down)
        /\ DOMAIN q.down = 1 .. Len(r.down) + 1
        /\ \A i \in 1 .. Len(r.down) + 1 : q.down[i] = IF i = Len(r.down) + 1 THEN f ELSE r.down[i]
    <3>1. r.down \in Seq(DownFrame)
      BY DEF SocketRec
    <3> QED BY <2>1, <3>1, AppendFacts, SeqFacts
  <2>3. Base(q.down, held) = Base(r.down, held) /\ (Opens(r.down) => Opens(q.down))
    BY <2>1, <2>2, BaseStays
  <2> DEFINE b == Base(r.down, held)
             d == r.down
             e == q.down
             n == r.next
  <2>4. /\ \A i \in DOMAIN d : i \in DOMAIN e /\ e[i] = d[i]
        /\ \A i \in DOMAIN e : i \in DOMAIN d \/ e[i] = f
    BY <2>2
  <2>5. Stream(d, n, b, events)
    BY <1>1
  <2> HIDE DEF b, d, e, n
  <2>6. Stream(e, n, b, events)
    <3>1. \A i \in DOMAIN e : e[i].type \in {"snapshot", "applied"} => i \in DOMAIN d /\ e[i] = d[i]
      BY <2>1, <2>4
    <3>2. /\ Was(b, events) /\ n \in b.version + 1 .. Len(events) + 1
          /\ \A i \in DOMAIN e : i > 1 => e[i].type # "snapshot"
      BY <2>5, <3>1 DEF Stream
    <3>3. \A i \in DOMAIN e : e[i].type = "applied" =>
            /\ e[i].version \in b.version + 1 .. n - 1
            /\ e[i].op = events[e[i].version].op
      BY <2>5, <3>1 DEF Stream
    <3>4. \A i, j \in DOMAIN e :
            i < j /\ e[i].type = "applied" /\ e[j].type = "applied" => e[i].version < e[j].version
      BY <2>5, <3>1 DEF Stream
    <3>5. \A v \in b.version + 1 .. n - 1 :
            \E i \in DOMAIN e : e[i].type = "applied" /\ e[i].version = v
      BY <2>4, <2>5 DEF Stream
    <3> QED BY <3>2, <3>3, <3>4, <3>5 DEF Stream
  <2> QED BY <1>1, <2>3, <2>6 DEF b, e, n
<1> QED BY <1>1, <1>2, <1>3 DEF Calm

\* The ops of a log.
LEMMA OpsFacts ==
    ASSUME NEW events \in Seq(Logged)
    PROVE  /\ Ops(events) \in Seq(SyncOp) /\ Len(events) \in Nat /\ Len(Ops(events)) = Len(events)
           /\ \A n \in 1 .. Len(events) : events[n] \in Logged /\ Ops(events)[n] = events[n].op
<1>1. /\ Len(events) \in Nat /\ DOMAIN events = 1 .. Len(events)
      /\ \A n \in 1 .. Len(events) : events[n] \in Logged
  BY SeqFacts
<1>2. \A n \in 1 .. Len(events) : events[n].op \in SyncOp
  BY <1>1 DEF Logged
<1>3. Ops(events) = [n \in 1 .. Len(events) |-> events[n].op]
  BY <1>1 DEF Ops
<1>4. Ops(events) \in [1 .. Len(events) -> SyncOp]
  BY <1>2, <1>3
<1>5. Ops(events) \in Seq(SyncOp)
  BY <1>1, <1>4, SeqDef
<1>6. Len(Ops(events)) = Len(events)
  BY <1>1, <1>4, <1>5, LenProperties
<1> QED BY <1>1, <1>3, <1>5, <1>6

LEMMA OpsGrow ==
    ASSUME NEW events \in Seq(Logged), NEW e \in Logged
    PROVE  Ops(Append(events, e)) = Append(Ops(events), e.op)
<1> DEFINE more == Append(events, e)
           a == Ops(more)
           b == Append(Ops(events), e.op)
<1>1. /\ more \in Seq(Logged) /\ Len(more) = Len(events) + 1
      /\ \A i \in 1 .. Len(events) + 1 : more[i] = IF i = Len(events) + 1 THEN e ELSE events[i]
  BY AppendFacts
<1> HIDE DEF more
<1>2. /\ Ops(events) \in Seq(SyncOp) /\ Len(events) \in Nat /\ Len(Ops(events)) = Len(events)
      /\ \A n \in 1 .. Len(events) : Ops(events)[n] = events[n].op
  BY OpsFacts
<1>3. /\ a \in Seq(SyncOp) /\ Len(a) = Len(events) + 1
      /\ \A n \in 1 .. Len(events) + 1 : a[n] = more[n].op
  BY <1>1, OpsFacts
<1>4. e.op \in SyncOp
  BY DEF Logged
<1>5. /\ b \in Seq(SyncOp) /\ Len(b) = Len(events) + 1
      /\ \A n \in 1 .. Len(events) + 1 : b[n] = IF n = Len(events) + 1 THEN e.op ELSE Ops(events)[n]
  BY <1>2, <1>4, AppendFacts
<1> HIDE DEF a, b
<1>6. \A n \in 1 .. Len(events) + 1 : a[n] = b[n]
  BY <1>1, <1>2, <1>3, <1>5
<1>7. a = b
  BY <1>3, <1>5, <1>6, SeqEqual
<1> QED BY <1>7 DEF a, b, more

\* The longer log says of a stream what the log said.
LEMMA FlowsGrow ==
    ASSUME NEW events \in Seq(Logged), HistoryOK(Ops(events), ServerNow), NEW e \in Logged,
           ~ Rejected(History(events)[Len(events)], e.op)
    PROVE  LET more == Append(events, e)
           IN  /\ HistoryOK(Ops(more), ServerNow) /\ more \in Seq(Logged)
               /\ Len(more) = Len(events) + 1 /\ Len(events) \in Nat /\ more[Len(events) + 1] = e
               /\ \A n \in 1 .. Len(events) : more[n] = events[n]
               /\ History(more)[Len(more)] = Apply(History(events)[Len(events)], e.op, ServerNow)
               /\ \A r, held : Flows(r, held, events) => Flows(r, held, more)
<1> DEFINE more == Append(events, e)
           last == Len(events)
<1>1. /\ more \in Seq(Logged) /\ Len(more) = last + 1 /\ last \in Nat /\ more[last + 1] = e
      /\ \A n \in 1 .. last : more[n] = events[n]
  BY AppendProperties, LenProperties
<1>2. Ops(more) = Append(Ops(events), e.op) /\ Len(Ops(events)) = last /\ Len(Ops(more)) = last + 1
  BY <1>1, OpsGrow, OpsFacts
<1> DEFINE accepted == Ops(events)
<1>3. /\ e.op \in SyncOp /\ ServerNow \in Nat /\ HistoryOK(accepted, ServerNow)
      /\ ~ Rejected(StatesOf(accepted, ServerNow)[Len(accepted)], e.op)
  BY <1>2, WebAssumption DEF Logged, History
<1> HIDE DEF accepted
<1>4. LET longer == Append(accepted, e.op)
      IN  /\ HistoryOK(longer, ServerNow)
          /\ \A n \in 0 .. Len(accepted) : StatesOf(longer, ServerNow)[n] = StatesOf(accepted, ServerNow)[n]
          /\ StatesOf(longer, ServerNow)[Len(accepted) + 1]
               = Apply(StatesOf(accepted, ServerNow)[Len(accepted)], e.op, ServerNow)
  BY <1>3, HistoryGrows
<1>5. /\ HistoryOK(Ops(more), ServerNow)
      /\ \A n \in 0 .. last : History(more)[n] = History(events)[n]
      /\ History(more)[last + 1] = Apply(History(events)[last], e.op, ServerNow)
  BY <1>2, <1>4 DEF History, accepted
<1> HIDE DEF more, last
<1>6. ASSUME NEW r, NEW held, Flows(r, held, events)
      PROVE  Flows(r, held, more)
  <2> SUFFICES ASSUME Live(r)
               PROVE  Stream(r.down, r.next, Base(r.down, held), more)
    BY <1>6 DEF Flows
  <2> DEFINE d == r.down
             n == r.next
             b == Base(r.down, held)
  <2>1. Stream(d, n, b, events)
    BY <1>6 DEF Flows
  <2> HIDE DEF d, n, b
  <2>2. Was(b, more)
    BY <1>1, <1>5, <2>1 DEF Stream, Was, last
  <2>3. n \in b.version + 1 .. Len(more) + 1
    BY <1>1, <2>1 DEF Stream, Was, last
  <2>4. ASSUME NEW i \in DOMAIN d, d[i].type = "applied"
        PROVE  d[i].version \in b.version + 1 .. n - 1 /\ d[i].op = more[d[i].version].op
    <3>1. /\ d[i].version \in b.version + 1 .. n - 1 /\ d[i].op = events[d[i].version].op
          /\ b.version \in 0 .. last /\ n \in b.version + 1 .. last + 1
      BY <2>1, <2>4 DEF Stream, Was, last
    <3>2. d[i].version \in 1 .. last
      BY <1>1, <3>1
    <3> QED BY <1>1, <3>1, <3>2
  <2>5. Stream(d, n, b, more)
    BY <2>1, <2>2, <2>3, <2>4 DEF Stream
  <2> QED BY <2>5 DEF d, n, b
<1> QED BY <1>1, <1>5, <1>6 DEF more, last

\* subscribe: the snapshot, and the receiver that begins right behind it.
LEMMA ServedFlows ==
    ASSUME RoomInv, NEW r, NEW held, r.next = Len(log) + 1, r.down = <<SnapshotFrame>>
    PROVE  Flows(r, held, log)
<1> SUFFICES ASSUME NEW down, down = <<SnapshotFrame>>, r.down = down
             PROVE  Stream(down, r.next, Base(down, held), log) /\ Opens(down)
  BY DEF Flows
<1>1. down # << >> /\ down[1] = SnapshotFrame /\ DOMAIN down = {1}
  OBVIOUS
<1>2. /\ Len(log) \in Nat /\ room.version = Len(log) /\ room.playback = History(log)[Len(log)]
      /\ History(log)[Len(log)] \in PlaybackState /\ InBounds(History(log)[Len(log)])
  BY OpsFacts DEF RoomInv, HistoryOK, History
<1>3. Opens(down) /\ Base(down, held) = [playback |-> room.playback, version |-> room.version]
  BY <1>1 DEF Opens, Base, SnapshotFrame
<1> DEFINE b == Base(down, held)
<1>4. b.playback = room.playback /\ b.version = room.version
  BY <1>3
<1> HIDE DEF b
<1>5. Was(b, log)
  BY <1>2, <1>4 DEF Was, Alike
<1>6. \A i \in DOMAIN down : i = 1 /\ down[i].type = "snapshot"
  BY <1>1 DEF SnapshotFrame
<1>7. Stream(down, r.next, b, log)
  BY <1>2, <1>4, <1>5, <1>6 DEF Stream
<1> QED BY <1>3, <1>7 DEF b

\* The next event of the log is forwarded.
LEMMA ForwardedFlows ==
    ASSUME RoomInv, NEW r \in SocketRec, NEW q, NEW held, Flows(r, held, log), r.next <= Len(log),
           AppliedFrame(r.next) \in DownFrame, r.next \in Nat,
           Live(q) => Live(r), q.client = r.client, q.next = r.next + 1,
           Live(q) => q.down = Append(r.down, AppliedFrame(r.next))
    PROVE  Flows(q, held, log)
<1> SUFFICES ASSUME Live(q)
             PROVE  /\ Stream(q.down, q.next, Base(q.down, held), log)
                    /\ q.client = "connecting" => Opens(q.down)
  BY DEF Flows
<1> DEFINE f == AppliedFrame(r.next)
           b == Base(r.down, held)
           d == r.down
           e == q.down
           n == r.next
<1>1. /\ d \in Seq(DownFrame) /\ e = Append(d, f) /\ f \in DownFrame
      /\ f.type = "applied" /\ f.version = n /\ f.op = log[n].op
      /\ Stream(d, n, b, log)
      /\ q.client = "connecting" => Opens(d)
  BY DEF SocketRec, AppliedFrame, Flows
<1> HIDE DEF f, b, d, e, n
<1>2. /\ Len(d) \in Nat /\ DOMAIN d = 1 .. Len(d) /\ DOMAIN e = 1 .. Len(d) + 1
      /\ \A i \in 1 .. Len(d) + 1 : e[i] = IF i = Len(d) + 1 THEN f ELSE d[i]
  BY <1>1, AppendFacts, SeqFacts
<1>3. Base(e, held) = b /\ (Opens(d) => Opens(e))
  <2>1. Base(Append(d, f), held) = Base(d, held) /\ (Opens(d) => Opens(Append(d, f)))
    BY <1>1, BaseStays
  <2> QED BY <1>1, <2>1 DEF b, d
<1>4. Len(log) \in Nat /\ n \in Nat /\ n <= Len(log) /\ q.next = n + 1
  BY OpsFacts DEF RoomInv, n
<1>5. Was(b, log) /\ b.version \in Nat /\ n \in b.version + 1 .. Len(log) + 1
  BY <1>1, <1>4 DEF Stream, Was
<1>6. Stream(e, n + 1, b, log)
  <2>1. n + 1 \in b.version + 1 .. Len(log) + 1
    BY <1>4, <1>5
  <2>2. \A i \in DOMAIN e : (i \in DOMAIN d /\ e[i] = d[i]) \/ (i = Len(d) + 1 /\ e[i] = f)
    BY <1>2
  <2>3. \A i \in DOMAIN e : i > 1 => e[i].type # "snapshot"
    BY <1>1, <2>2 DEF Stream
  <2>4. ASSUME NEW i \in DOMAIN e, e[i].type = "applied"
        PROVE  e[i].version \in b.version + 1 .. n /\ e[i].op = log[e[i].version].op
    <3>1. CASE i \in DOMAIN d /\ e[i] = d[i]
      <4>1. e[i].version \in b.version + 1 .. n - 1 /\ e[i].op = log[e[i].version].op
        BY <1>1, <2>4, <3>1 DEF Stream
      <4> QED BY <1>4, <1>5, <4>1
    <3>2. CASE e[i] = f
      BY <1>1, <1>4, <1>5, <3>2
    <3> QED BY <2>2, <3>1, <3>2
  <2>5. ASSUME NEW i \in DOMAIN e, NEW j \in DOMAIN e, i < j,
               e[i].type = "applied", e[j].type = "applied"
        PROVE  e[i].version < e[j].version
    <3>1. i \in DOMAIN d /\ e[i] = d[i]
      BY <1>2, <2>5
    <3>2. CASE j \in DOMAIN d /\ e[j] = d[j]
      BY <1>1, <2>5, <3>1, <3>2 DEF Stream
    <3>3. CASE e[j] = f
      <4>1. e[i].version \in b.version + 1 .. n - 1
        BY <1>1, <2>5, <3>1 DEF Stream
      <4> QED BY <1>1, <1>4, <1>5, <3>3, <4>1, SMTT(30)
    <3> QED BY <2>2, <3>2, <3>3
  <2>6. ASSUME NEW v \in b.version + 1 .. n
        PROVE  \E i \in DOMAIN e : e[i].type = "applied" /\ e[i].version = v
    <3>1. CASE v = n
      <4>1. Len(d) + 1 \in DOMAIN e /\ e[Len(d) + 1] = f
        BY <1>2
      <4> QED BY <1>1, <3>1, <4>1
    <3>2. CASE v # n
      <4>1. v \in b.version + 1 .. n - 1
        BY <1>4, <1>5, <3>2
      <4>2. PICK i \in DOMAIN d : d[i].type = "applied" /\ d[i].version = v
        BY <1>1, <4>1 DEF Stream
      <4>3. i \in DOMAIN e /\ e[i] = d[i]
        BY <1>2
      <4> QED BY <4>2, <4>3
    <3> QED BY <3>1, <3>2
  <2>7. (n + 1) - 1 = n
    BY <1>4
  <2> QED BY <1>5, <2>1, <2>3, <2>4, <2>5, <2>6, <2>7 DEF Stream
<1> QED BY <1>1, <1>3, <1>4, <1>6 DEF e

\* The client reads the first frame of a stream; new is what it then holds.
LEMMA StreamRead ==
    ASSUME NEW d \in Seq(DownFrame), d # << >>, NEW n, NEW b, NEW new, NEW events,
           Len(events) \in Nat, Stream(d, n, b, events),
           \/ d[1].type # "applied" /\ new = b
           \/ /\ d[1].type = "applied" /\ new.version = b.version + 1
              /\ b.version + 1 \in 0 .. Len(events) => Was(new, events)
    PROVE  /\ Stream(Tail(d), n, new, events) /\ ~ Opens(Tail(d))
           /\ d[1].type = "applied" => d[1].version = b.version + 1 /\ b.version + 1 < n
<1> DEFINE e == Tail(d)
<1>1. /\ 1 \in DOMAIN d /\ Len(d) \in Nat \ {0} /\ DOMAIN d = 1 .. Len(d) /\ DOMAIN e = 1 .. Len(d) - 1
      /\ \A i \in 1 .. Len(d) - 1 : e[i] = d[i + 1]
      /\ e \in Seq(DownFrame) /\ Len(e) = Len(d) - 1
  <2>1. e \in Seq(DownFrame) /\ Len(e) = Len(d) - 1
    BY HeadTailProperties
  <2> QED BY <2>1, TailFacts
<1> HIDE DEF e
<1>2. \A i \in DOMAIN e : i + 1 \in DOMAIN d /\ i + 1 > 1 /\ e[i] = d[i + 1]
  BY <1>1
<1>3. \A i \in DOMAIN d : i = 1 \/ (i - 1 \in DOMAIN e /\ e[i - 1] = d[i])
  BY <1>1
<1>4. b.version \in Nat /\ n \in b.version + 1 .. Len(events) + 1 /\ n \in Nat /\ b.version <= Len(events)
  BY DEF Stream, Was
<1>5. \A i \in DOMAIN e : e[i].type # "snapshot"
  BY <1>2 DEF Stream
<1>6. ~ Opens(e)
  <2>1. e # << >> => 1 \in DOMAIN e
    BY <1>1, EmptySeq
  <2> QED BY <1>5, <2>1 DEF Opens
<1>7. ASSUME NEW i \in DOMAIN e, NEW j \in DOMAIN e, i < j,
             e[i].type = "applied", e[j].type = "applied"
      PROVE  e[i].version < e[j].version
  <2>1. i + 1 \in DOMAIN d /\ j + 1 \in DOMAIN d /\ i + 1 < j + 1 /\ e[i] = d[i + 1] /\ e[j] = d[j + 1]
    BY <1>1, <1>2, <1>7
  <2> QED BY <1>7, <2>1 DEF Stream
<1>8. CASE d[1].type # "applied"
  <2>1. new = b
    BY <1>8
  <2>2. \A i \in DOMAIN e : e[i].type = "applied" =>
          e[i].version \in b.version + 1 .. n - 1 /\ e[i].op = events[e[i].version].op
    BY <1>2 DEF Stream
  <2>3. ASSUME NEW v \in b.version + 1 .. n - 1
        PROVE  \E i \in DOMAIN e : e[i].type = "applied" /\ e[i].version = v
    <3>1. PICK i \in DOMAIN d : d[i].type = "applied" /\ d[i].version = v
      BY DEF Stream
    <3> QED BY <1>3, <1>8, <3>1
  <2>4. Stream(e, n, b, events)
    BY <1>5, <1>7, <2>2, <2>3 DEF Stream
  <2> QED BY <1>6, <1>8, <2>1, <2>4 DEF e
<1>9. CASE d[1].type = "applied"
  <2>1. d[1].version \in b.version + 1 .. n - 1 /\ d[1].version \in Nat
    <3>1. d[1].version \in b.version + 1 .. n - 1
      BY <1>1, <1>9 DEF Stream
    <3> QED BY <1>4, <3>1
  <2>2. d[1].version = b.version + 1
    <3>1. PICK i \in DOMAIN d : d[i].type = "applied" /\ d[i].version = b.version + 1
      <4>1. b.version + 1 \in b.version + 1 .. n - 1
        BY <1>4, <2>1
      <4> QED BY <4>1 DEF Stream
    <3>2. i = 1 \/ 1 < i
      BY <1>1
    <3>3. 1 < i => d[1].version < d[i].version
      BY <1>1, <1>9, <3>1 DEF Stream
    <3> QED BY <1>4, <2>1, <3>1, <3>2, <3>3
  <2>3. b.version + 1 < n /\ b.version + 1 \in 0 .. Len(events)
    BY <1>4, <2>1, <2>2
  <2>4. new.version = b.version + 1 /\ Was(new, events)
    BY <1>9, <2>3
  <2>5. n \in new.version + 1 .. Len(events) + 1
    BY <1>4, <2>3, <2>4
  <2>6. ASSUME NEW i \in DOMAIN e, e[i].type = "applied"
        PROVE  e[i].version \in new.version + 1 .. n - 1 /\ e[i].op = events[e[i].version].op
    <3>1. i + 1 \in DOMAIN d /\ 1 < i + 1 /\ e[i] = d[i + 1]
      BY <1>2
    <3>2. /\ d[i + 1].version \in b.version + 1 .. n - 1 /\ d[i + 1].op = events[d[i + 1].version].op
          /\ d[1].version < d[i + 1].version
      BY <1>1, <1>9, <2>6, <3>1 DEF Stream
    <3> QED BY <1>4, <2>2, <2>4, <3>1, <3>2
  <2>7. ASSUME NEW v \in new.version + 1 .. n - 1
        PROVE  \E i \in DOMAIN e : e[i].type = "applied" /\ e[i].version = v
    <3>1. v \in b.version + 1 .. n - 1 /\ v # b.version + 1
      BY <1>4, <2>4
    <3>2. PICK i \in DOMAIN d : d[i].type = "applied" /\ d[i].version = v
      BY <3>1 DEF Stream
    <3>3. i # 1
      BY <2>2, <3>1, <3>2
    <3> QED BY <1>3, <3>2, <3>3
  <2>8. Stream(e, n, new, events)
    BY <1>5, <1>7, <2>4, <2>5, <2>6, <2>7 DEF Stream
  <2> QED BY <1>6, <1>9, <2>2, <2>3, <2>8 DEF e
<1> QED BY <1>8, <1>9

\* applyOp on the next event of the log.
LEMMA AppliedWas ==
    ASSUME RoomInv, NEW state, Was(state, log), NEW op, state.version + 1 <= Len(log),
           op = log[state.version + 1].op
    PROVE  Was(ApplyOp(state, op, state.version + 1), log)
<1> DEFINE n == state.version + 1
           p == state.playback
           q == History(log)[state.version]
<1>1. /\ Len(log) \in Nat /\ n \in 1 .. Len(log) /\ n - 1 = state.version /\ state.version \in 0 .. Len(log)
      /\ p \in PlaybackState /\ InBounds(p) /\ Alike(p, q)
  BY OpsFacts DEF RoomInv, Was
<1>2. /\ Ops(log) \in Seq(SyncOp) /\ Len(Ops(log)) = Len(log) /\ Ops(log)[n] = op /\ op \in SyncOp
  <2>1. /\ Ops(log) \in Seq(SyncOp) /\ Len(Ops(log)) = Len(log)
        /\ Ops(log)[n] = log[n].op /\ log[n] \in Logged
    BY <1>1, OpsFacts DEF RoomInv
  <2> QED BY <2>1 DEF Logged
<1>3. q \in PlaybackState /\ InBounds(q) /\ ~ Rejected(q, op)
  BY <1>1, <1>2 DEF RoomInv, HistoryOK, History
<1>4. History(log)[n] = Apply(q, op, ServerNow)
  <2>1. Solves(StatesOf(Ops(log), ServerNow), Ops(log), ServerNow)
    BY <1>2, HistoryExists
  <2>2. n \in 0 .. Len(Ops(log)) /\ n # 0
    BY <1>1, <1>2
  <2>3. History(log)[n] = StateStep(History(log), Ops(log), n, ServerNow)
    BY <2>1, <2>2, SolvesAt DEF History
  <2> QED BY <1>1, <1>2, <2>2, <2>3 DEF StateStep
<1> HIDE DEF p, q, n
<1>5. ~ Rejected(p, op)
  BY <1>1, <1>3 DEF Rejected, Alike
<1>6. ServerNow \in Nat /\ ClientNow \in Nat
  BY WebAssumption
<1>7. /\ Apply(p, op, ClientNow) \in PlaybackState /\ InBounds(Apply(p, op, ClientNow))
      /\ Alike(Apply(p, op, ClientNow), Apply(q, op, ServerNow))
  <2>1. Apply(p, op, ClientNow) \in PlaybackState /\ InBounds(Apply(p, op, ClientNow))
    BY <1>1, <1>2, <1>5, <1>6, ApplySound
  <2> QED BY <1>1, <1>2, <1>3, <1>5, <1>6, <2>1, ApplyAlike
<1>8. ~ (op.type = "start_session" /\ op.anchor_index > Len(op.items))
  BY <1>5 DEF Rejected
<1>9. ApplyOp(state, op, n).playback = Apply(p, op, ClientNow) /\ ApplyOp(state, op, n).version = n
  BY <1>8 DEF ApplyOp, p
<1> DEFINE new == ApplyOp(state, op, n)
<1> HIDE DEF new
<1>10. Was(new, log)
  BY <1>1, <1>4, <1>7, <1>9 DEF Was, new
<1> QED BY <1>10 DEF new, n

\* OnMessage, on the stream of its socket.
LEMMA ReadFlows ==
    ASSUME RoomInv, NEW r \in SocketRec, NEW q, NEW held, NEW new, r.down # << >>,
           Flows(r, held, log), Live(q) => Live(r), q.client = "open", q.next = r.next,
           q.down = Tail(r.down),
           LET msg == r.down[1]
           IN  new = IF msg.type = "snapshot" THEN msg.state
                     ELSE IF msg.type = "applied" THEN ApplyOp(held, msg.op, msg.version) ELSE held
    PROVE  Flows(q, new, log)
<1> SUFFICES ASSUME Live(q)
             PROVE  Stream(q.down, q.next, Base(q.down, new), log)
  BY DEF Flows
<1> DEFINE d == r.down
           n == r.next
           b == Base(r.down, held)
<1>1. d \in Seq(DownFrame) /\ d # << >> /\ Stream(d, n, b, log) /\ Len(log) \in Nat
  BY OpsFacts DEF RoomInv, SocketRec, Flows
<1>2. b = IF d[1].type = "snapshot" THEN d[1].state ELSE held
  BY DEF Base, Opens
<1>3. /\ new = IF d[1].type = "snapshot" THEN d[1].state
               ELSE IF d[1].type = "applied" THEN ApplyOp(held, d[1].op, d[1].version) ELSE held
  OBVIOUS
<1>4. 1 \in DOMAIN d
  BY <1>1, TailFacts
<1> HIDE DEF d, n, b
<1>5. CASE d[1].type # "applied"
  <2>1. new = b
    BY <1>2, <1>3, <1>5
  <2>2. Stream(Tail(d), n, new, log) /\ ~ Opens(Tail(d))
    BY <1>1, <1>5, <2>1, StreamRead
  <2> QED BY <2>2 DEF Base, d, n
<1>6. CASE d[1].type = "applied"
  <2> DEFINE it == [playback |-> History(log)[b.version + 1], version |-> b.version + 1]
  <2>1. d[1].version = b.version + 1 /\ b.version + 1 < n
    <3>1. b.version \in Nat
      BY <1>1 DEF Stream, Was
    <3>2. ASSUME b.version + 1 \in 0 .. Len(log)
          PROVE  Was(it, log)
      <4>1. Len(Ops(log)) = Len(log)
        BY OpsFacts DEF RoomInv
      <4>2. /\ History(log)[b.version + 1] \in PlaybackState
            /\ InBounds(History(log)[b.version + 1])
        BY <3>2, <4>1 DEF RoomInv, HistoryOK, History
      <4> QED BY <3>2, <4>2 DEF Was, Alike
    <3> QED BY <1>1, <1>6, <3>2, StreamRead
  <2>2. b.version + 1 <= Len(log) /\ Was(b, log) /\ d[1].op = log[b.version + 1].op
    BY <1>1, <1>4, <1>6, <2>1 DEF Stream, Was
  <2>3. new = ApplyOp(b, d[1].op, b.version + 1)
    BY <1>2, <1>3, <1>6, <2>1
  <2>4. Was(new, log) /\ new.version = b.version + 1
    BY <2>2, <2>3, AppliedWas DEF ApplyOp
  <2>5. Stream(Tail(d), n, new, log) /\ ~ Opens(Tail(d))
    BY <1>1, <1>6, <2>4, StreamRead
  <2> QED BY <2>5 DEF Base, d, n
<1> QED BY <1>5, <1>6

-----------------------------------------------------------------------------
(***************************************************************************)
(* The invariant of sockets, timers and streams.                           *)
(***************************************************************************)
\* One socket is dialled or open at a time: the one in use, and no timer is
\* about to replace it.
ConnInv ==
    /\ dialled \in Socket /\ wsRef \in Socket \cup {NoSocket} /\ retryTimer \in BOOLEAN
    /\ \A s \in Socket : s > dialled => sock[s].client = "unused"
    /\ \A s \in Socket : sock[s].client \in Up => s = wsRef /\ sock[s].attached
    /\ retryTimer => \A s \in Socket : sock[s].client \notin Up

SocketInv == sock \in [Socket -> SocketRec] /\ \A s \in Socket : Tidy(sock[s])

FlowInv == \A s \in Socket : Flows(sock[s], confirmed, log)

WebInv ==
    /\ SocketInv /\ ConnInv /\ RoomInv /\ FlowInv
    /\ pending \in Seq(Entry) /\ submitted \in Seq(SyncOp)

\* A step of a socket that carries no op and no answer to one: what it may do
\* to the frames in flight.
Drifts(r, q, events) ==
    /\ q.client = "open" => r.client = "open"
    /\ q.server # "gone" => r.server # "gone"
    /\ \/ q.up = r.up
       \/ q.up = << >> /\ q.server = "gone"
       \/ \E f \in UpFrame : f.type # "op" /\ q.up = Append(r.up, f)
       \/ r.up # << >> /\ r.up[1].type # "op" /\ q.up = Tail(r.up)
    /\ \/ q.down = r.down
       \/ q.down = << >>
       \/ \E f \in DownFrame :
            /\ \/ f.type \in {"pong", "snapshot"}
               \/ f.type = "applied" /\ \E n \in DOMAIN events : f.op_id = events[n].op_id
            /\ q.down = Append(r.down, f)

Quiet ==
    /\ UNCHANGED <<room, log, fate, confirmed, pending, submitted>>
    /\ SocketInv' /\ FlowInv'
    /\ \A s \in Socket : Drifts(sock[s], sock'[s], log)

\* Socket s alone moves.
LEMMA QuietAt ==
    ASSUME WebInv, NEW s \in Socket, NEW q \in SocketRec, sock' = [sock EXCEPT ![s] = q],
           Tidy(q), Drifts(sock[s], q, log), Flows(q, confirmed, log),
           UNCHANGED <<room, log, fate, confirmed, pending, submitted>>
    PROVE  Quiet /\ \A t \in Socket : sock'[t] = IF t = s THEN q ELSE sock[t]
<1>1. /\ sock' \in [Socket -> SocketRec]
      /\ \A t \in Socket : sock'[t] = IF t = s THEN q ELSE sock[t]
  BY OneChanges DEF WebInv, SocketInv
<1>2. SocketInv'
  BY <1>1 DEF WebInv, SocketInv
<1>3. FlowInv'
  BY <1>1 DEF WebInv, FlowInv
<1>4. \A t \in Socket : Drifts(sock[t], sock'[t], log)
  <2>1. \A t \in Socket : Drifts(sock[t], sock[t], log)
    BY DEF Drifts
  <2> QED BY <1>1, <2>1
<1> QED BY <1>1, <1>2, <1>3, <1>4 DEF Quiet

\* The ends of the sockets stay as they are.
LEMMA SameEnds ==
    ASSUME ConnInv, UNCHANGED <<dialled, wsRef, retryTimer>>,
           \A t \in Socket : sock'[t].client = sock[t].client /\ sock'[t].attached = sock[t].attached
    PROVE  ConnInv'
BY DEF ConnInv

\* A calm step of a socket whose stream is as it should be.
LEMMA CalmAt ==
    ASSUME WebInv, NEW s \in Socket, NEW q \in SocketRec, Calm(sock[s], q)
    PROVE  Flows(q, confirmed, log)
<1>1. sock[s] \in SocketRec /\ Flows(sock[s], confirmed, log)
  BY DEF WebInv, SocketInv, FlowInv
<1> QED BY <1>1, CalmFlows

\* A calm step of one socket.
LEMMA CalmStep ==
    ASSUME WebInv, NEW s \in Socket, NEW q \in SocketRec, sock' = [sock EXCEPT ![s] = q],
           Tidy(q), Drifts(sock[s], q, log), Calm(sock[s], q),
           UNCHANGED <<room, log, fate, confirmed, pending, submitted>>
    PROVE  Quiet /\ \A t \in Socket : sock'[t] = IF t = s THEN q ELSE sock[t]
<1>1. Flows(q, confirmed, log)
  BY CalmAt
<1> QED BY <1>1, QuietAt

\* Pings.
LEMMA PingSteps ==
    ASSUME WebInv, ReadyState = "open", sock' = [sock EXCEPT ![wsRef] = Sent(@, <<PingFrame>>)],
           UNCHANGED <<gateway, wsRef, dialled, retryTimer, ready, replica, budgets>>
    PROVE  Quiet /\ ConnInv'
<1> DEFINE r == sock[wsRef]
           q == Sent(r, <<PingFrame>>)
<1>1. wsRef \in Socket /\ r \in SocketRec /\ r.client = "open" /\ Tidy(r)
  BY DEF ReadyState, WebInv, ConnInv, SocketInv
<1>2. PingFrame \in UpFrame /\ PingFrame.type # "op"
  BY DEF PingFrame, UpFrame
<1>3. sock' = [sock EXCEPT ![wsRef] = q]
  OBVIOUS
<1> HIDE DEF r
<1>4. /\ q \in SocketRec /\ q.client = r.client /\ q.attached = r.attached
      /\ q.server = r.server /\ q.overrun = r.overrun /\ q.next = r.next /\ q.down = r.down
      /\ q.up = IF r.server = "gone" THEN r.up ELSE Append(r.up, PingFrame)
  BY <1>1, <1>2, SentOne
<1> HIDE DEF q
<1>5. Tidy(q) /\ Drifts(r, q, log) /\ Calm(r, q)
  <2>1. Tidy(q)
    BY <1>1, <1>2, <1>4, SMTT(30) DEF Tidy, Live
  <2>2. Drifts(r, q, log)
    <3>1. q.up = r.up \/ \E f \in UpFrame : f.type # "op" /\ q.up = Append(r.up, f)
      BY <1>2, <1>4
    <3> QED BY <1>1, <1>4, <3>1 DEF Drifts
  <2>3. Calm(r, q)
    BY <1>1, <1>2, <1>4, SMTT(30) DEF Calm, Live
  <2> QED BY <2>1, <2>2, <2>3
<1>6. Quiet /\ \A t \in Socket : sock'[t] = IF t = wsRef THEN q ELSE sock[t]
  <2>1. UNCHANGED <<room, log, fate, confirmed, pending, submitted>>
    BY DEF gateway, replica, budgets
  <2>2. q \in SocketRec
    BY <1>4
  <2>3. Drifts(sock[wsRef], q, log) /\ Calm(sock[wsRef], q)
    BY <1>5 DEF r
  <2>4. wsRef \in Socket /\ Tidy(q)
    BY <1>1, <1>5
  <2> HIDE DEF r
  <2> QED BY <1>3, <2>1, <2>2, <2>3, <2>4, CalmStep
<1>7. ConnInv'
  BY <1>1, <1>4, <1>6, SameEnds DEF WebInv, r
<1> QED BY <1>6, <1>7

\* The socket in use is written off.
LEMMA AbandonSteps ==
    ASSUME WebInv, ReadyState = "open", Abandon(wsRef),
           UNCHANGED <<room, log, fate, confirmed, pending, submitted, dialled>>
    PROVE  Quiet /\ ConnInv'
<1> DEFINE r == sock[wsRef]
           q == Closing(r, FALSE)
<1>1. wsRef \in Socket /\ r \in SocketRec /\ r.client = "open" /\ Tidy(r)
  BY DEF ReadyState, WebInv, ConnInv, SocketInv
<1>2. CloseFrame \in UpFrame /\ CloseFrame.type # "op"
  BY DEF CloseFrame, UpFrame
<1>3. sock' = [sock EXCEPT ![wsRef] = q] /\ wsRef' = NoSocket /\ retryTimer' = TRUE
  BY DEF Abandon, ScheduleReconnect
<1> HIDE DEF r
<1>4. /\ q \in SocketRec /\ q.client = "closing" /\ q.attached = FALSE
      /\ q.server = r.server /\ q.overrun = r.overrun /\ q.next = r.next /\ q.down = << >>
      /\ q.up = IF r.server = "gone" THEN r.up ELSE Append(r.up, CloseFrame)
  BY <1>1, ClosingFacts
<1> HIDE DEF q
<1>5. Tidy(q) /\ Drifts(r, q, log) /\ Calm(r, q)
  BY <1>1, <1>2, <1>4 DEF Tidy, Drifts, Calm, Live, Up
<1>6. Quiet /\ \A t \in Socket : sock'[t] = IF t = wsRef THEN q ELSE sock[t]
  BY <1>1, <1>3, <1>4, <1>5, CalmStep DEF r
<1>7. \A t \in Socket : sock'[t].client \notin Up
  BY <1>4, <1>6 DEF WebInv, ConnInv, Up
<1>8. \A t \in Socket : t > dialled => sock'[t].client = "unused"
  BY <1>1, <1>6 DEF WebInv, ConnInv, r
<1> QED BY <1>3, <1>6, <1>7, <1>8 DEF WebInv, ConnInv

\* A dial, on a table whose sockets are all down.
LEMMA ConnectSteps ==
    ASSUME WebInv, NEW table \in [Socket -> SocketRec], Connect(table), retryTimer' = FALSE,
           \A t \in Socket : /\ table[t].client \notin Up /\ Tidy(table[t])
                             /\ t > dialled => table[t] = sock[t]
                             /\ Drifts(sock[t], table[t], log),
           UNCHANGED <<room, log, fate, confirmed, pending, submitted>>
    PROVE  Quiet /\ ConnInv'
<1> DEFINE n == dialled + 1
           r == table[n]
           mid == [table EXCEPT ![n].client = "connecting"]
           a == [r EXCEPT !.client = "connecting"]
           q == [a EXCEPT !.attached = TRUE]
<1>1. n \in Socket /\ dialled' = n /\ wsRef' = n /\ dialled \in Nat
  BY WebAssumption DEF Connect, WebInv, ConnInv, Socket
<1>2. /\ r \in SocketRec /\ r = sock[n] /\ r.client = "unused" /\ r.server = "none"
      /\ r.up = << >> /\ r.down = << >>
  <2>1. r = sock[n] /\ r \in SocketRec /\ r.client = "unused" /\ Tidy(r)
    BY <1>1 DEF WebInv, ConnInv
  <2> QED BY <2>1 DEF Tidy
<1>3. sock' = [mid EXCEPT ![n].attached = TRUE]
  BY DEF Connect
<1>4. mid = [table EXCEPT ![n] = a]
  OBVIOUS
<1> HIDE DEF r, mid
<1>5. /\ a \in SocketRec /\ a.client = "connecting" /\ a.server = r.server /\ a.up = r.up /\ a.down = r.down
  BY <1>2 DEF SocketRec
<1> HIDE DEF a
<1>6. mid \in [Socket -> SocketRec] /\ \A t \in Socket : mid[t] = IF t = n THEN a ELSE table[t]
  BY <1>1, <1>4, <1>5, OneChanges
<1>7. sock' = [mid EXCEPT ![n] = q]
  BY <1>1, <1>3, <1>6
<1>8. /\ q \in SocketRec /\ q.client = "connecting" /\ q.attached /\ q.server = "none"
      /\ q.up = << >> /\ q.down = << >>
  BY <1>2, <1>5 DEF SocketRec
<1> HIDE DEF q
<1>9. /\ sock' \in [Socket -> SocketRec]
      /\ \A t \in Socket : sock'[t] = IF t = n THEN q ELSE table[t]
  <2>1. /\ sock' \in [Socket -> SocketRec]
        /\ \A t \in Socket : sock'[t] = IF t = n THEN q ELSE mid[t]
    BY <1>1, <1>6, <1>7, <1>8, OneChanges
  <2> QED BY <1>6, <2>1
<1> HIDE DEF n
<1>10. SocketInv'
  <2>1. Tidy(q)
    BY <1>8 DEF Tidy
  <2> QED BY <1>9, <2>1 DEF SocketInv
<1>11. FlowInv'
  <2>1. \A t \in Socket : ~ Live(sock'[t])
    BY <1>8, <1>9 DEF Live
  <2> QED BY <2>1 DEF FlowInv, Flows
<1>12. \A t \in Socket : Drifts(sock[t], sock'[t], log)
  <2>1. Drifts(sock[n], q, log)
    BY <1>2, <1>8 DEF Drifts
  <2> QED BY <1>9, <2>1
<1>13. ConnInv'
  <2>1. \A t \in Socket : t > n => sock'[t].client = "unused"
    <3>1. \A t \in Socket : t > n => t > dialled /\ t # n
      BY <1>1 DEF n, Socket
    <3> QED BY <1>9, <3>1 DEF WebInv, ConnInv
  <2>2. \A t \in Socket : sock'[t].client \in Up => t = n /\ sock'[t].attached
    BY <1>8, <1>9
  <2> QED BY <1>1, <2>1, <2>2 DEF ConnInv
<1> QED BY <1>10, <1>11, <1>12, <1>13 DEF Quiet

LEMMA BrowserTimers ==
    ASSUME WebInv,
           RetryTimerFires \/ HeartbeatPings \/ PingOverdue \/ HastyTimeout \/ ReconnectNow
             \/ TokenRefresh
    PROVE  Quiet /\ ConnInv'
<1>0. /\ sock \in [Socket -> SocketRec] /\ \A t \in Socket : Tidy(sock[t])
      /\ \A t \in Socket : Drifts(sock[t], sock[t], log)
  BY DEF WebInv, SocketInv, Drifts
<1>1. CASE RetryTimerFires
  <2>1. \A t \in Socket : sock[t].client \notin Up
    BY <1>1 DEF RetryTimerFires, WebInv, ConnInv
  <2> QED BY <1>0, <1>1, <2>1, ConnectSteps DEF RetryTimerFires, gateway, replica, budgets
<1>2. CASE HeartbeatPings
  BY <1>2, PingSteps DEF HeartbeatPings
<1>3. CASE PingOverdue
  BY <1>3, AbandonSteps DEF PingOverdue, gateway, replica, budgets
<1>4. CASE HastyTimeout
  BY <1>4, AbandonSteps DEF HastyTimeout, gateway, replica
<1>5. CASE ReconnectNow
  <2>1. CASE ReadyState = "open"
    <3>1. /\ sock' = [sock EXCEPT ![wsRef] = Sent(@, <<PingFrame>>)]
          /\ UNCHANGED <<gateway, wsRef, dialled, retryTimer, ready, replica, budgets>>
      BY <1>5, <2>1 DEF ReconnectNow
    <3> QED BY <2>1, <3>1, PingSteps
  <2>2. CASE ReadyState # "open"
    <3>1. /\ ReadyState \notin Up /\ retryTimer' = FALSE /\ Connect(sock)
          /\ UNCHANGED <<room, log, fate, confirmed, pending, submitted>>
      BY <1>5, <2>2 DEF ReconnectNow, Up, gateway, replica, budgets
    <3>2. \A t \in Socket : sock[t].client \notin Up
      <4> SUFFICES ASSUME NEW t \in Socket, sock[t].client \in Up
                   PROVE  FALSE
        OBVIOUS
      <4>1. t = wsRef /\ t # NoSocket
        BY WebAssumption DEF WebInv, ConnInv, Socket, NoSocket
      <4> QED BY <3>1, <4>1 DEF ReadyState
    <3> QED BY <1>0, <3>1, <3>2, ConnectSteps
  <2> QED BY <2>1, <2>2
<1>6. CASE TokenRefresh
  <2>0. \A t \in Socket : sock[t].client \in Up => t = wsRef
    BY DEF WebInv, ConnInv
  <2>1. CASE ReadyState \in Up
    <3> DEFINE r == sock[wsRef]
               q == Closing(r, FALSE)
               table == [sock EXCEPT ![wsRef] = q]
    <3>1. /\ Connect(table) /\ retryTimer' = FALSE
          /\ UNCHANGED <<room, log, fate, confirmed, pending, submitted>>
      BY <1>6, <2>1 DEF TokenRefresh, Up, gateway, replica
    <3>2. wsRef \in Socket /\ r \in SocketRec /\ r.client \in Up /\ Tidy(r)
      <4>1. wsRef # NoSocket
        BY <2>1 DEF ReadyState, Up
      <4> QED BY <1>0, <2>1, <4>1 DEF ReadyState, WebInv, ConnInv
    <3>3. ~ (wsRef > dialled)
      BY <3>2 DEF WebInv, ConnInv, Up
    <3>4. CloseFrame \in UpFrame /\ CloseFrame.type # "op"
      BY DEF CloseFrame, UpFrame
    <3> HIDE DEF r
    <3>5. /\ q \in SocketRec /\ q.client = "closing" /\ q.attached = FALSE
          /\ q.server = r.server /\ q.overrun = r.overrun /\ q.next = r.next /\ q.down = << >>
          /\ q.up = IF r.server = "gone" THEN r.up ELSE Append(r.up, CloseFrame)
      BY <3>2, ClosingFacts
    <3> HIDE DEF q
    <3>6. Tidy(q) /\ Drifts(r, q, log) /\ q.client \notin Up
      BY <3>2, <3>4, <3>5 DEF Tidy, Drifts, Up
    <3>7. /\ table \in [Socket -> SocketRec]
          /\ \A t \in Socket : table[t] = IF t = wsRef THEN q ELSE sock[t]
      BY <1>0, <3>2, <3>5, OneChanges
    <3> HIDE DEF table
    <3>8. \A t \in Socket : /\ table[t].client \notin Up /\ Tidy(table[t])
                            /\ t > dialled => table[t] = sock[t]
                            /\ Drifts(sock[t], table[t], log)
      BY <1>0, <2>0, <3>3, <3>6, <3>7 DEF r
    <3> QED BY <3>1, <3>7, <3>8, ConnectSteps
  <2>2. CASE ReadyState \notin Up
    <3>1. /\ Connect(sock) /\ retryTimer' = FALSE
          /\ UNCHANGED <<room, log, fate, confirmed, pending, submitted>>
      BY <1>6, <2>2 DEF TokenRefresh, Up, gateway, replica
    <3>2. \A t \in Socket : sock[t].client \notin Up
      <4> SUFFICES ASSUME NEW t \in Socket, sock[t].client \in Up
                   PROVE  FALSE
        OBVIOUS
      <4>1. t = wsRef /\ t # NoSocket
        BY WebAssumption DEF WebInv, ConnInv, Socket, NoSocket
      <4> QED BY <2>2, <4>1 DEF ReadyState
    <3> QED BY <1>0, <3>1, <3>2, ConnectSteps
  <2> QED BY <2>1, <2>2
<1> QED BY <1>1, <1>2, <1>3, <1>4, <1>5, <1>6

LEMMA CloseSteps ==
    ASSUME WebInv, NEW s \in Socket, OnClose(s)
    PROVE  Quiet /\ ConnInv'
<1> DEFINE r == sock[s]
           q == [r EXCEPT !.client = "closed"]
<1>1. r \in SocketRec /\ Tidy(r) /\ r.client \in Up \cup {"closing"}
  BY DEF OnClose, WebInv, SocketInv, Up
<1>2. sock' = [sock EXCEPT ![s] = q]
  BY DEF OnClose
<1> HIDE DEF r
<1>3. /\ q \in SocketRec /\ q.client = "closed" /\ q.attached = r.attached /\ q.server = r.server
      /\ q.overrun = r.overrun /\ q.up = r.up /\ q.down = r.down
  BY <1>1 DEF SocketRec
<1> HIDE DEF q
<1>4. Tidy(q) /\ Drifts(r, q, log) /\ Calm(r, q)
  BY <1>1, <1>3 DEF Tidy, Drifts, Calm, Live, Up
<1>5. Quiet /\ \A t \in Socket : sock'[t] = IF t = s THEN q ELSE sock[t]
  BY <1>2, <1>3, <1>4, CalmStep DEF OnClose, gateway, replica, budgets, r
<1>6. ConnInv'
  <2>1. /\ \A t \in Socket : t > dialled => sock'[t].client = "unused"
        /\ \A t \in Socket : sock'[t].client \in Up => t # s /\ t = wsRef /\ sock'[t].attached
    BY <1>1, <1>3, <1>5 DEF WebInv, ConnInv, Up, r
  <2>2. CASE r.attached
    <3>1. s = wsRef
      BY <1>1, <2>2 DEF WebInv, ConnInv, Tidy, r
    <3>2. retryTimer' = TRUE /\ UNCHANGED <<dialled, wsRef>>
      BY <2>2 DEF OnClose, ScheduleReconnect, r
    <3> QED BY <2>1, <3>1, <3>2 DEF WebInv, ConnInv
  <2>3. CASE ~ r.attached
    <3>1. UNCHANGED <<dialled, wsRef, retryTimer>>
      BY <2>3 DEF OnClose, r
    <3>2. \A t \in Socket : sock'[t].client \in Up => sock[t].client \in Up
      BY <1>3, <1>5 DEF Up
    <3> QED BY <2>1, <3>1, <3>2 DEF WebInv, ConnInv
  <2> QED BY <2>2, <2>3
<1> QED BY <1>5, <1>6

\* What the gateway sends is a frame.
LEMMA GatewayFrames ==
    ASSUME WebInv
    PROVE  /\ SnapshotFrame \in DownFrame /\ SnapshotFrame.type = "snapshot"
           /\ \A n \in 1 .. Len(log) : AppliedFrame(n) \in DownFrame /\ AppliedFrame(n).type = "applied"
                                         /\ AppliedFrame(n).op_id = log[n].op_id /\ n \in DOMAIN log
<1>1. SnapshotFrame \in DownFrame
  BY DEF WebInv, RoomInv, Room, SnapshotFrame, DownFrame, State
<1>2. ASSUME NEW n \in 1 .. Len(log)
      PROVE  AppliedFrame(n) \in DownFrame /\ n \in DOMAIN log
  <2>1. log[n] \in Logged /\ n \in Nat /\ n \in DOMAIN log
    BY <1>2, SeqFacts DEF WebInv, RoomInv
  <2>2. log[n].op \in SyncOp /\ log[n].op_id \in OpId \cup {NoOpId}
    BY <2>1 DEF Logged
  <2> QED BY <2>1, <2>2 DEF AppliedFrame, DownFrame
<1> QED BY <1>1, <1>2 DEF SnapshotFrame, AppliedFrame

LEMMA ServeSteps ==
    ASSUME WebInv, NEW s \in Socket, Serve(s)
    PROVE  Quiet /\ ConnInv'
<1> DEFINE r == sock[s]
           a == [r EXCEPT !.server = "serving"]
           b == [a EXCEPT !.next = Len(log) + 1]
           q == Downstream(b, SnapshotFrame)
<1>1. /\ r \in SocketRec /\ Tidy(r) /\ r.server = "none" /\ r.client # "unused"
      /\ Len(log) \in Nat /\ r.down = << >>
  BY OpsFacts DEF Serve, WebInv, SocketInv, RoomInv, Tidy
<1>2. sock' = [sock EXCEPT ![s] = q]
  BY DEF Serve
<1> HIDE DEF r
<1>3. /\ a \in SocketRec /\ a.client = r.client /\ a.attached = r.attached /\ a.server = "serving"
      /\ a.overrun = r.overrun /\ a.up = r.up /\ a.down = r.down
  BY <1>1 DEF SocketRec
<1> HIDE DEF a
<1>4. /\ b \in SocketRec /\ b.client = r.client /\ b.attached = r.attached /\ b.server = "serving"
      /\ b.overrun = r.overrun /\ b.next = Len(log) + 1 /\ b.up = r.up /\ b.down = << >>
  BY <1>1, <1>3 DEF SocketRec
<1> HIDE DEF b
<1>5. /\ q \in SocketRec /\ q.client = r.client /\ q.attached = r.attached /\ q.server = "serving"
      /\ q.next = Len(log) + 1 /\ q.up = r.up
      /\ q.down = IF r.client \in Up THEN Append(r.down, SnapshotFrame) ELSE r.down
  <2>1. /\ q \in SocketRec /\ q.client = b.client /\ q.attached = b.attached
        /\ q.server = b.server /\ q.overrun = b.overrun /\ q.next = b.next /\ q.up = b.up
        /\ q.down = IF b.client \in Up THEN Append(b.down, SnapshotFrame) ELSE b.down
    BY <1>4, GatewayFrames, DownstreamFacts
  <2> HIDE DEF q
  <2> QED BY <1>1, <1>4, <2>1
<1> HIDE DEF q
<1>6. Tidy(q) /\ Drifts(r, q, log)
  BY <1>1, <1>5, GatewayFrames DEF Tidy, Drifts
<1>7. Flows(q, confirmed, log)
  <2>1. CASE r.client \in Up
    <3>1. q.down = <<SnapshotFrame>>
      BY <1>1, <1>5, <2>1
    <3> QED BY <1>5, <3>1, ServedFlows DEF WebInv
  <2>2. CASE r.client \notin Up
    BY <1>5, <2>2 DEF Flows, Live
  <2> QED BY <2>1, <2>2
<1>8. Quiet /\ \A t \in Socket : sock'[t] = IF t = s THEN q ELSE sock[t]
  BY <1>2, <1>5, <1>6, <1>7, QuietAt DEF Serve, gateway, replica, budgets, r
<1>9. ConnInv'
  BY <1>5, <1>8, SameEnds DEF WebInv, Serve, browser, r
<1> QED BY <1>8, <1>9

LEMMA ForwardSteps ==
    ASSUME WebInv, NEW s \in Socket, ForwardBroadcast(s)
    PROVE  Quiet /\ ConnInv'
<1> DEFINE r == sock[s]
<1>1. /\ r \in SocketRec /\ Tidy(r) /\ r.server = "serving" /\ r.client \in Up
      /\ Len(log) \in Nat /\ r.next \in Nat /\ r.next <= Len(log) /\ r.up \in Seq(UpFrame)
  BY OpsFacts DEF ForwardBroadcast, WebInv, SocketInv, RoomInv, SocketRec, Up
<1>2. CASE r.next < OldestRetained
  <2> DEFINE oldest == OldestRetained
             a == [r EXCEPT !.server = "recovering"]
             b == [a EXCEPT !.overrun = TRUE]
             q == [b EXCEPT !.next = oldest]
  <2>1. oldest \in Nat
    BY <1>1, WebAssumption DEF OldestRetained
  <2>2. sock' = [sock EXCEPT ![s].server = "recovering", ![s].overrun = TRUE, ![s].next = OldestRetained]
    BY <1>2 DEF ForwardBroadcast
  <2> HIDE DEF oldest
  <2>3. sock' = [sock EXCEPT ![s] = q]
    <3> DEFINE one == [sock EXCEPT ![s] = a]
               two == [one EXCEPT ![s] = b]
    <3>1. sock \in [Socket -> SocketRec]
      BY DEF WebInv, SocketInv
    <3>2. sock' = [[[sock EXCEPT ![s].server = "recovering"] EXCEPT ![s].overrun = TRUE]
                    EXCEPT ![s].next = oldest]
      BY <2>2 DEF oldest
    <3>3. one = [sock EXCEPT ![s].server = "recovering"]
      OBVIOUS
    <3>4. one[s] = a /\ DOMAIN one = Socket
      BY <3>1
    <3>5. two = [one EXCEPT ![s].overrun = TRUE]
      BY <3>4
    <3>6. two[s] = b
      BY <3>4
    <3>7. sock' = [two EXCEPT ![s] = q]
      BY <3>2, <3>3, <3>5, <3>6
    <3> QED BY <3>1, <3>7
  <2> HIDE DEF r
  <2>4. /\ a \in SocketRec /\ a.client = r.client /\ a.attached = r.attached /\ a.server = "recovering"
        /\ a.up = r.up /\ a.down = r.down
    BY <1>1 DEF SocketRec
  <2> HIDE DEF a
  <2>5. /\ b \in SocketRec /\ b.client = r.client /\ b.attached = r.attached /\ b.server = "recovering"
        /\ b.overrun = TRUE /\ b.up = r.up /\ b.down = r.down
    BY <2>4 DEF SocketRec
  <2> HIDE DEF b
  <2>6. /\ q \in SocketRec /\ q.client = r.client /\ q.attached = r.attached /\ q.server = "recovering"
        /\ q.overrun = TRUE /\ q.up = r.up /\ q.down = r.down
    BY <2>1, <2>5 DEF SocketRec
  <2> HIDE DEF q
  <2>7. Tidy(q) /\ Drifts(r, q, log) /\ Calm(r, q)
    BY <1>1, <2>6 DEF Tidy, Drifts, Calm, Live, Up
  <2>8. Quiet /\ \A t \in Socket : sock'[t] = IF t = s THEN q ELSE sock[t]
    BY <2>3, <2>6, <2>7, CalmStep DEF ForwardBroadcast, gateway, replica, budgets, r
  <2>9. ConnInv'
    BY <2>6, <2>8, SameEnds DEF WebInv, ForwardBroadcast, browser, r
  <2> QED BY <2>8, <2>9
<1>3. CASE ~ (r.next < OldestRetained)
  <2> DEFINE f == AppliedFrame(r.next)
             a == [r EXCEPT !.next = r.next + 1]
             q == Downstream(a, f)
  <2>1. sock' = [sock EXCEPT ![s] = q]
    BY <1>3 DEF ForwardBroadcast
  <2>2. r.next \in 1 .. Len(log)
    <3>1. OldestRetained \in Nat \ {0}
      BY <1>1, WebAssumption DEF OldestRetained
    <3> QED BY <1>1, <1>3, <3>1
  <2>3. f \in DownFrame /\ f.type = "applied" /\ f.op_id = log[r.next].op_id /\ r.next \in DOMAIN log
    BY <2>2, GatewayFrames
  <2> HIDE DEF f, r
  <2>4. /\ a \in SocketRec /\ a.client = r.client /\ a.attached = r.attached /\ a.server = r.server
        /\ a.overrun = r.overrun /\ a.next = r.next + 1 /\ a.up = r.up /\ a.down = r.down
    BY <1>1 DEF SocketRec
  <2> HIDE DEF a
  <2>5. /\ q \in SocketRec /\ q.client = r.client /\ q.attached = r.attached /\ q.server = r.server
        /\ q.overrun = r.overrun /\ q.next = r.next + 1 /\ q.up = r.up
        /\ q.down = Append(r.down, f)
    <3>1. /\ q \in SocketRec /\ q.client = a.client /\ q.attached = a.attached
          /\ q.server = a.server /\ q.overrun = a.overrun /\ q.next = a.next /\ q.up = a.up
          /\ q.down = IF a.client \in Up THEN Append(a.down, f) ELSE a.down
      BY <2>3, <2>4, DownstreamFacts
    <3> HIDE DEF q
    <3> QED BY <1>1, <2>4, <3>1
  <2> HIDE DEF q
  <2>6. Tidy(q) /\ Drifts(r, q, log)
    BY <1>1, <2>3, <2>5 DEF Tidy, Drifts, Up
  <2>7. Flows(q, confirmed, log)
    <3>1. Flows(r, confirmed, log)
      BY DEF WebInv, FlowInv, r
    <3>2. Live(q) => Live(r)
      BY <2>5 DEF Live
    <3> QED BY <1>1, <2>3, <2>5, <3>1, <3>2, ForwardedFlows DEF WebInv, f
  <2>8. Quiet /\ \A t \in Socket : sock'[t] = IF t = s THEN q ELSE sock[t]
    BY <2>1, <2>5, <2>6, <2>7, QuietAt DEF ForwardBroadcast, gateway, replica, budgets, r
  <2>9. ConnInv'
    BY <2>5, <2>8, SameEnds DEF WebInv, ForwardBroadcast, browser, r
  <2> QED BY <2>8, <2>9
<1> QED BY <1>2, <1>3

LEMMA RecoverySteps ==
    ASSUME WebInv, NEW s \in Socket, LaggedSnapshot(s)
    PROVE  Quiet /\ ConnInv'
<1> DEFINE r == sock[s]
           a == [r EXCEPT !.server = "serving"]
           q == Downstream(a, SnapshotFrame)
<1>1. r \in SocketRec /\ Tidy(r) /\ r.server = "recovering" /\ r.client # "unused"
  BY DEF LaggedSnapshot, WebInv, SocketInv, Tidy
<1>2. sock' = [sock EXCEPT ![s] = q]
  BY DEF LaggedSnapshot
<1> HIDE DEF r
<1>3. /\ a \in SocketRec /\ a.client = r.client /\ a.attached = r.attached /\ a.server = "serving"
      /\ a.overrun = r.overrun /\ a.up = r.up /\ a.down = r.down
  BY <1>1 DEF SocketRec
<1> HIDE DEF a
<1>4. /\ q \in SocketRec /\ q.client = r.client /\ q.attached = r.attached /\ q.server = "serving"
      /\ q.overrun = r.overrun /\ q.up = r.up
      /\ q.down = IF r.client \in Up THEN Append(r.down, SnapshotFrame) ELSE r.down
  <2>1. /\ q \in SocketRec /\ q.client = a.client /\ q.attached = a.attached
        /\ q.server = a.server /\ q.overrun = a.overrun /\ q.next = a.next /\ q.up = a.up
        /\ q.down = IF a.client \in Up THEN Append(a.down, SnapshotFrame) ELSE a.down
    BY <1>3, GatewayFrames, DownstreamFacts
  <2> HIDE DEF q
  <2> QED BY <1>3, <2>1
<1> HIDE DEF q
<1>5. Tidy(q) /\ Drifts(r, q, log) /\ Calm(r, q)
  BY <1>1, <1>4, GatewayFrames DEF Tidy, Drifts, Calm, Live
<1>6. Quiet /\ \A t \in Socket : sock'[t] = IF t = s THEN q ELSE sock[t]
  BY <1>2, <1>4, <1>5, CalmStep DEF LaggedSnapshot, gateway, replica, budgets, r
<1>7. ConnInv'
  BY <1>4, <1>6, SameEnds DEF WebInv, LaggedSnapshot, browser, r
<1> QED BY <1>6, <1>7

LEMMA LossSteps ==
    ASSUME WebInv, NEW s \in Socket, LinkDies(s)
    PROVE  Quiet /\ ConnInv'
<1> DEFINE r == sock[s]
           q == Lost(r)
<1>1. r \in SocketRec /\ Tidy(r) /\ r.client \in Up
  BY DEF LinkDies, WebInv, SocketInv, Up
<1>2. sock' = [sock EXCEPT ![s] = q]
  BY DEF LinkDies
<1> HIDE DEF r
<1>3. /\ q \in SocketRec /\ q.client = r.client /\ q.attached = r.attached
      /\ q.server = "gone" /\ q.overrun = FALSE /\ q.next = 1 /\ q.up = << >> /\ q.down = << >>
  BY <1>1, LostFacts
<1> HIDE DEF q
<1>4. Tidy(q) /\ Drifts(r, q, log) /\ Calm(r, q)
  BY <1>1, <1>3 DEF Tidy, Drifts, Calm, Live, Up
<1>5. Quiet /\ \A t \in Socket : sock'[t] = IF t = s THEN q ELSE sock[t]
  BY <1>2, <1>3, <1>4, CalmStep DEF LinkDies, gateway, replica, budgets, r
<1>6. ConnInv'
  BY <1>3, <1>5, SameEnds DEF WebInv, LinkDies, browser, r
<1> QED BY <1>5, <1>6

-----------------------------------------------------------------------------
(***************************************************************************)
(* Steps that carry ops and answers.                                       *)
(***************************************************************************)
\* A part of the ledger and one more entry.
LEMMA FrontAndNext ==
    ASSUME NEW ledger \in Seq(Entry), NEW next \in Entry, NEW front \in Seq(Entry),
           Len(front) <= Len(ledger), \A i \in 1 .. Len(front) : front[i] = ledger[i]
    PROVE  LET r == Append(front, next)
           IN  /\ r \in Seq(Entry) /\ Len(r) \in Nat \ {0} /\ Len(r) = Len(front) + 1
               /\ DOMAIN r = 1 .. Len(r) /\ r[Len(r)] = next
               /\ \A i \in 1 .. Len(r) - 1 : i \in DOMAIN ledger /\ r[i] = ledger[i]
<1> DEFINE r == Append(front, next)
<1>1. Len(ledger) \in Nat /\ DOMAIN ledger = 1 .. Len(ledger)
  BY SeqFacts
<1>2. /\ r \in Seq(Entry) /\ Len(r) = Len(front) + 1 /\ Len(front) \in Nat
      /\ DOMAIN r = 1 .. Len(front) + 1
      /\ \A i \in 1 .. Len(front) + 1 : r[i] = IF i = Len(front) + 1 THEN next ELSE front[i]
  BY AppendFacts, SeqFacts
<1> HIDE DEF r
<1>3. \A i \in 1 .. Len(r) - 1 : i \in 1 .. Len(front) /\ i # Len(front) + 1
  BY <1>2
<1>4. \A i \in 1 .. Len(r) - 1 : i \in DOMAIN ledger /\ r[i] = ledger[i]
  BY <1>1, <1>2, <1>3
<1> QED BY <1>2, <1>4 DEF r

\* enqueuePending: the new op is last, and replaces at most the last one.
LEMMA EnqueueFacts ==
    ASSUME NEW ledger \in Seq(Entry), NEW next \in Entry
    PROVE  LET r == EnqueuePending(ledger, next)
           IN  /\ r \in Seq(Entry) /\ Len(r) \in Nat \ {0} /\ DOMAIN r = 1 .. Len(r) /\ r[Len(r)] = next
               /\ Len(ledger) \in Nat /\ DOMAIN ledger = 1 .. Len(ledger)
               /\ \A i \in 1 .. Len(r) - 1 : i \in DOMAIN ledger /\ r[i] = ledger[i]
               /\ \/ Len(r) = Len(ledger) + 1
                  \/ /\ Len(r) = Len(ledger) /\ ledger[Len(r)].op.type = next.op.type
                     /\ next.op.type \in Superseding
<1> DEFINE r == EnqueuePending(ledger, next)
<1>1. Len(ledger) \in Nat /\ DOMAIN ledger = 1 .. Len(ledger)
  BY SeqFacts
<1>3. CASE ledger # << >> /\ next.op.type \in Superseding /\ Last(ledger).op.type = next.op.type
  <2> DEFINE front == Front(ledger)
  <2>1. Len(ledger) # 0
    BY <1>3, EmptySeq
  <2>2. /\ front \in Seq(Entry) /\ Len(front) = Len(ledger) - 1
        /\ \A i \in 1 .. Len(front) : front[i] = ledger[i]
    BY <1>1, <2>1, SubSeqProperties, SeqFacts DEF Front
  <2>3. r = Append(front, next)
    BY <1>3 DEF EnqueuePending
  <2>4. ledger[Len(ledger)].op.type = next.op.type
    BY <1>3 DEF Last
  <2> HIDE DEF front
  <2>5. Len(front) <= Len(ledger)
    BY <1>1, <2>2
  <2>6. /\ r \in Seq(Entry) /\ Len(r) \in Nat \ {0} /\ Len(r) = Len(front) + 1
        /\ DOMAIN r = 1 .. Len(r) /\ r[Len(r)] = next
        /\ \A i \in 1 .. Len(r) - 1 : i \in DOMAIN ledger /\ r[i] = ledger[i]
    <3> HIDE DEF r
    <3> QED BY <2>2, <2>3, <2>5, FrontAndNext
  <2> HIDE DEF r
  <2>7. Len(r) = Len(ledger)
    BY <1>1, <2>2, <2>6
  <2> QED BY <1>1, <1>3, <2>4, <2>6, <2>7 DEF r
<1>4. CASE ~ (ledger # << >> /\ next.op.type \in Superseding /\ Last(ledger).op.type = next.op.type)
  <2>1. r = Append(ledger, next)
    BY <1>4 DEF EnqueuePending
  <2> HIDE DEF r
  <2>2. /\ r \in Seq(Entry) /\ Len(r) \in Nat \ {0} /\ Len(r) = Len(ledger) + 1
        /\ DOMAIN r = 1 .. Len(r) /\ r[Len(r)] = next
        /\ \A i \in 1 .. Len(r) - 1 : i \in DOMAIN ledger /\ r[i] = ledger[i]
    BY <1>1, <2>1, FrontAndNext
  <2> QED BY <1>1, <2>2 DEF r
<1> QED BY <1>3, <1>4

\* settlePending: what the op id does not name stays, in its order.
LEMMA SettleFacts ==
    ASSUME NEW ledger \in Seq(Entry), NEW id
    PROVE  LET r == SettlePending(ledger, id)
           IN  /\ r \in Seq(Entry)
               /\ \E place \in [DOMAIN r -> DOMAIN ledger] :
                    /\ \A n \in DOMAIN r : r[n] = ledger[place[n]] /\ r[n].op_id # id
                    /\ \A m, n \in DOMAIN r : m < n => place[m] < place[n]
               /\ \A i \in DOMAIN ledger : ledger[i].op_id # id => \E n \in DOMAIN r : r[n] = ledger[i]
<1> DEFINE K == {i \in DOMAIN ledger : ledger[i].op_id # id}
           r == AtPlaces(ledger, K)
           place == Increasing(K)
<1>1. DOMAIN ledger = 1 .. Len(ledger) /\ Len(ledger) \in Nat
  BY SeqFacts
<1>2. K \in SUBSET (1 .. Len(ledger)) /\ \A k \in K : k \in DOMAIN ledger /\ ledger[k].op_id # id
  BY <1>1
<1>3. \A i \in DOMAIN ledger : ledger[i].op_id # id => i \in K
  OBVIOUS
<1>4. SettlePending(ledger, id) = r
  BY DEF SettlePending
<1> HIDE DEF K
<1>5. /\ r \in Seq(Entry) /\ place \in [DOMAIN r -> K]
      /\ \A i, j \in DOMAIN r : i < j => place[i] < place[j]
      /\ \A n \in DOMAIN r : r[n] = ledger[place[n]]
      /\ \A k \in K : \E n \in DOMAIN r : place[n] = k
  <2>1. K \in SUBSET (1 .. Len(ledger))
    BY <1>2
  <2> QED BY <2>1, AtPlacesProperties
<1> HIDE DEF r, place
<1>6. place \in [DOMAIN r -> DOMAIN ledger] /\ \A n \in DOMAIN r : place[n] \in K
  BY <1>2, <1>5
<1>7. \A n \in DOMAIN r : r[n] = ledger[place[n]] /\ r[n].op_id # id
  BY <1>2, <1>5, <1>6
<1>8. \A i \in DOMAIN ledger : ledger[i].op_id # id => \E n \in DOMAIN r : r[n] = ledger[i]
  BY <1>3, <1>5
<1> QED BY <1>4, <1>5, <1>6, <1>7, <1>8

\* apply_with_id and its broadcast keep the room's history.
LEMMA RoomSteps ==
    ASSUME RoomInv, NEW op \in SyncOp, NEW id \in OpId \cup {NoOpId}, ApplyAndBroadcast(op, id)
    PROVE  RoomInv' /\ \A r, held : Flows(r, held, log) => Flows(r, held, log')
<1> DEFINE e == [op |-> op, op_id |-> id]
<1>1. /\ log \in Seq(Logged) /\ HistoryOK(Ops(log), ServerNow) /\ e \in Logged /\ e.op = op
      /\ room.playback = History(log)[Len(log)] /\ room.version = Len(log) /\ room.seen \in Seq(OpId)
      /\ ServerNow \in Nat
  BY WebAssumption DEF RoomInv, Logged, Room
<1>2. CASE ~ Accepted(room, op, id)
  <2>1. room' = room /\ log' = log
    BY <1>2 DEF ApplyAndBroadcast, ApplyWithId
  <2> QED BY <2>1 DEF RoomInv
<1>3. CASE Accepted(room, op, id)
  <2>1. room' = Applied(room, op, id, ServerNow) /\ log' = Append(log, e)
    BY <1>3 DEF ApplyAndBroadcast, ApplyWithId
  <2>2. ~ Rejected(History(log)[Len(log)], op)
    BY <1>1, <1>3 DEF Accepted
  <2> DEFINE more == Append(log, e)
  <2> HIDE DEF e
  <2>3. /\ HistoryOK(Ops(more), ServerNow) /\ more \in Seq(Logged)
        /\ Len(more) = Len(log) + 1 /\ Len(log) \in Nat
        /\ History(more)[Len(more)] = Apply(History(log)[Len(log)], op, ServerNow)
        /\ \A r, held : Flows(r, held, log) => Flows(r, held, more)
    BY <1>1, <2>2, FlowsGrow
  <2> HIDE DEF more
  <2>4. SeenInsert(room.seen, id) \in Seq(OpId) \/ id = NoOpId
    <3> DEFINE seen == room.seen
    <3>1. CASE id # NoOpId /\ Len(seen) < SeenOpIds
      BY <1>1, <3>1, AppendProperties DEF SeenInsert
    <3>2. CASE id # NoOpId /\ ~ (Len(seen) < SeenOpIds)
      <4>1. seen # << >> /\ id \in OpId
        BY <1>1, <3>2, RoomAssumption, EmptySeq
      <4>2. Tail(seen) \in Seq(OpId)
        BY <1>1, <4>1, HeadTailProperties
      <4>3. Append(Tail(seen), id) \in Seq(OpId)
        BY <4>1, <4>2, AppendProperties
      <4> QED BY <1>1, <3>2, <4>3 DEF SeenInsert
    <3> QED BY <3>1, <3>2
  <2>5. /\ room'.playback = History(more)[Len(more)] /\ room'.version = Len(more)
        /\ room' = [playback |-> room'.playback, version |-> room'.version, seen |-> room'.seen]
        /\ room'.seen \in Seq(OpId)
    BY <1>1, <2>1, <2>3, <2>4 DEF Applied
  <2>6. History(more)[Len(more)] \in PlaybackState
    <3>1. Len(Ops(more)) = Len(more) /\ Len(more) \in Nat
      BY <2>3, OpsFacts
    <3> QED BY <2>3, <3>1 DEF HistoryOK, History
  <2>7. room' \in Room
    BY <2>3, <2>5, <2>6 DEF Room
  <2>8. log' = more
    BY <2>1 DEF more
  <2> QED BY <2>3, <2>5, <2>7, <2>8 DEF RoomInv
<1> QED BY <1>2, <1>3

\* The submission, on the socket in use.
Hears(s) == wsRef = s /\ sock[s].client = "open" /\ sock[s].server # "gone"

LEMMA SubmitSteps ==
    ASSUME WebInv, NEW op \in SyncOp, Submit(op)
    PROVE  LET entry == [op_id |-> Len(submitted) + 1, op |-> op]
           IN  /\ WebInv' /\ entry \in Entry /\ Len(submitted) \in Nat
               /\ \A t \in Socket :
                    /\ sock'[t].client = sock[t].client /\ sock'[t].server = sock[t].server
                    /\ sock'[t].down = sock[t].down
                    /\ sock'[t].up = IF Hears(t) THEN Append(sock[t].up, OpFrame(entry)) ELSE sock[t].up
<1> DEFINE entry == [op_id |-> Len(submitted) + 1, op |-> op]
           f == OpFrame(entry)
<1>1. entry \in Entry /\ Len(submitted) \in Nat /\ f \in UpFrame
  <2>1. Len(submitted) \in Nat /\ Len(submitted) + 1 \in OpId
    BY LenProperties, WebAssumption DEF Submit, WebInv
  <2> QED BY <2>1 DEF Entry, OpFrame, UpFrame
<1>2. submitted' \in Seq(SyncOp) /\ pending' \in Seq(Entry)
  <2>1. submitted' = Append(submitted, op) /\ pending' = EnqueuePending(pending, entry)
    BY DEF Submit
  <2> HIDE DEF entry
  <2> QED BY <1>1, <2>1, EnqueueFacts, AppendProperties DEF WebInv
<1>3. sock' = IF ReadyState = "open" THEN [sock EXCEPT ![wsRef] = Sent(sock[wsRef], <<f>>)] ELSE sock
  BY DEF Submit
<1>4. UNCHANGED <<room, log, confirmed, wsRef, dialled, retryTimer>>
  BY DEF Submit, gateway, browser
<1>5. /\ sock \in [Socket -> SocketRec] /\ wsRef \in Socket \cup {NoSocket}
      /\ \A t \in Socket : sock[t] \in SocketRec /\ Tidy(sock[t])
  BY DEF WebInv, SocketInv, ConnInv
<1> HIDE DEF f
<1>6. CASE ReadyState = "open"
  <2> DEFINE r == sock[wsRef]
             q == Sent(r, <<f>>)
  <2>1. wsRef \in Socket /\ r \in SocketRec /\ r.client = "open" /\ Tidy(r)
    BY <1>5, <1>6 DEF ReadyState
  <2>2. sock' = [sock EXCEPT ![wsRef] = q]
    BY <1>3, <1>6
  <2> HIDE DEF r
  <2>3. /\ q \in SocketRec /\ q.client = r.client /\ q.attached = r.attached
        /\ q.server = r.server /\ q.overrun = r.overrun /\ q.next = r.next /\ q.down = r.down
        /\ q.up = IF r.server = "gone" THEN r.up ELSE Append(r.up, f)
    BY <1>1, <2>1, SentOne
  <2> HIDE DEF q
  <2>4. Tidy(q) /\ Calm(r, q)
    BY <2>1, <2>3 DEF Tidy, Calm, Live
  <2>5. Flows(q, confirmed, log)
    BY <2>1, <2>3, <2>4, CalmAt DEF r
  <2>6. /\ sock' \in [Socket -> SocketRec]
        /\ \A t \in Socket : sock'[t] = IF t = wsRef THEN q ELSE sock[t]
    BY <1>5, <2>1, <2>2, <2>3, OneChanges
  <2>7. SocketInv' /\ FlowInv'
    BY <1>4, <1>5, <2>4, <2>5, <2>6 DEF SocketInv, FlowInv, WebInv
  <2>8. ConnInv' /\ RoomInv'
    BY <1>4, <2>3, <2>6, SameEnds DEF WebInv, RoomInv, r
  <2>9. \A t \in Socket : Hears(t) <=> t = wsRef /\ r.server # "gone"
    BY <2>1 DEF Hears, r
  <2> QED BY <1>1, <1>2, <2>3, <2>6, <2>7, <2>8, <2>9 DEF WebInv, r, f
<1>7. CASE ReadyState # "open"
  <2>1. sock' = sock
    BY <1>3, <1>7
  <2>2. \A t \in Socket : ~ Hears(t)
    BY <1>7, WebAssumption DEF Hears, ReadyState, NoSocket, Socket
  <2>3. SocketInv' /\ FlowInv' /\ ConnInv' /\ RoomInv'
    BY <1>4, <2>1 DEF WebInv, SocketInv, FlowInv, ConnInv, RoomInv
  <2> QED BY <1>1, <1>2, <2>1, <2>2, <2>3 DEF WebInv
<1> QED BY <1>6, <1>7

\* Another device's op.
LEMMA OtherSteps ==
    ASSUME WebInv, NEW op \in SyncOp, SubmitOp(op)
    PROVE  WebInv'
<1>1. /\ ApplyAndBroadcast(op, NoOpId)
      /\ UNCHANGED <<sock, wsRef, dialled, retryTimer, confirmed, pending, submitted>>
  BY DEF SubmitOp, browser, replica
<1>2. RoomInv' /\ \A r, held : Flows(r, held, log) => Flows(r, held, log')
  BY <1>1, RoomSteps DEF WebInv
<1>3. SocketInv' /\ ConnInv' /\ FlowInv'
  BY <1>1, <1>2 DEF WebInv, SocketInv, ConnInv, FlowInv
<1> QED BY <1>1, <1>2, <1>3 DEF WebInv

\* onopen: the whole ledger is resent, in order.
LEMMA OpenSteps ==
    ASSUME WebInv, NEW s \in Socket, OnOpen(s)
    PROVE  /\ WebInv' /\ UNCHANGED <<room, log, fate, confirmed, pending, submitted>>
           /\ sock[s].up = << >> /\ sock[s].client = "connecting"
           /\ sock'[s].up = [i \in DOMAIN pending |-> OpFrame(pending[i])]
           /\ sock'[s].down = sock[s].down /\ sock'[s].server = sock[s].server
           /\ \A t \in Socket : t # s => sock'[t] = sock[t]
<1> DEFINE r == sock[s]
           frames == [i \in DOMAIN pending |-> OpFrame(pending[i])]
           a == [r EXCEPT !.client = "open"]
           q == Sent(a, frames)
<1>1. r \in SocketRec /\ Tidy(r) /\ r.client = "connecting" /\ r.attached /\ r.server # "gone" /\ r.up = << >>
  BY DEF OnOpen, Dead, WebInv, SocketInv, Tidy
<1>2. frames \in Seq(UpFrame)
  <2>1. Len(pending) \in Nat /\ DOMAIN pending = 1 .. Len(pending) /\ \A i \in DOMAIN pending : pending[i] \in Entry
    BY SeqFacts DEF WebInv
  <2>2. \A i \in DOMAIN pending : OpFrame(pending[i]) \in UpFrame
    BY <2>1 DEF Entry, OpFrame, UpFrame
  <2>3. frames \in [1 .. Len(pending) -> UpFrame]
    BY <2>1, <2>2
  <2> QED BY <2>1, <2>3, SeqDef
<1>3. sock' = [sock EXCEPT ![s] = q]
  BY DEF OnOpen
<1>4. UNCHANGED <<room, log, fate, confirmed, pending, submitted, wsRef, dialled, retryTimer>>
  BY DEF OnOpen, gateway, replica, budgets
<1> HIDE DEF r, frames
<1>5. /\ a \in SocketRec /\ a.client = "open" /\ a.attached = r.attached /\ a.server = r.server
      /\ a.overrun = r.overrun /\ a.next = r.next /\ a.up = << >> /\ a.down = r.down
  BY <1>1 DEF SocketRec
<1> HIDE DEF a
<1>6. /\ q \in SocketRec /\ q.client = "open" /\ q.attached = r.attached /\ q.server = r.server
      /\ q.overrun = r.overrun /\ q.next = r.next /\ q.down = r.down /\ q.up = frames
  <2>1. /\ q \in SocketRec /\ q.client = a.client /\ q.attached = a.attached
        /\ q.server = a.server /\ q.overrun = a.overrun /\ q.next = a.next /\ q.down = a.down
        /\ q.up = IF a.server = "gone" THEN a.up ELSE a.up \o frames
    BY <1>2, <1>5, SentFacts
  <2>2. << >> \o frames = frames
    BY <1>2, ConcatEmptySeq
  <2> HIDE DEF q
  <2> QED BY <1>1, <1>5, <2>1, <2>2
<1> HIDE DEF q
<1>7. Tidy(q) /\ Calm(r, q)
  BY <1>1, <1>6 DEF Tidy, Calm, Live, Up
<1>8. Flows(q, confirmed, log)
  BY <1>6, <1>7, CalmAt DEF r
<1>9. /\ sock' \in [Socket -> SocketRec]
      /\ \A t \in Socket : sock'[t] = IF t = s THEN q ELSE sock[t]
  BY <1>3, <1>6, OneChanges DEF WebInv, SocketInv
<1>10. SocketInv' /\ FlowInv'
  BY <1>4, <1>7, <1>8, <1>9 DEF WebInv, SocketInv, FlowInv
<1>11. ConnInv'
  <2>1. /\ \A t \in Socket : t > dialled => sock'[t].client = "unused"
        /\ \A t \in Socket : sock'[t].client \in Up => t = wsRef /\ sock'[t].attached
        /\ ~ retryTimer
    BY <1>1, <1>6, <1>9 DEF WebInv, ConnInv, Up, r
  <2> QED BY <1>4, <2>1 DEF WebInv, ConnInv
<1>12. WebInv'
  BY <1>4, <1>10, <1>11 DEF WebInv, RoomInv
<1> QED BY <1>1, <1>4, <1>6, <1>9, <1>12 DEF r, frames

\* onmessage: one frame is read.
LEMMA MessageSteps ==
    ASSUME WebInv, NEW s \in Socket, OnMessage(s)
    PROVE  /\ WebInv' /\ UNCHANGED <<room, log, fate, submitted>>
           /\ sock[s].down \in Seq(DownFrame) /\ sock[s].down # << >>
           /\ sock[s].down[1] \in DownFrame /\ 1 \in DOMAIN sock[s].down
           /\ sock'[s].down = Tail(sock[s].down) /\ sock'[s].up = sock[s].up
           /\ sock'[s].client = sock[s].client /\ sock'[s].server = sock[s].server
           /\ \A t \in Socket : t # s => sock'[t] = sock[t]
           /\ pending' = IF sock[s].down[1].type \in {"applied", "ack", "op_error"}
                         THEN SettlePending(pending, sock[s].down[1].op_id) ELSE pending
<1> DEFINE r == sock[s]
           msg == r.down[1]
           q == [r EXCEPT !.down = Tail(r.down)]
<1>1. r \in SocketRec /\ Tidy(r) /\ r.client = "open" /\ r.down # << >> /\ r.down \in Seq(DownFrame)
  BY DEF OnMessage, WebInv, SocketInv, SocketRec
<1>2. sock' = [sock EXCEPT ![s] = q]
  BY DEF OnMessage
<1>3. UNCHANGED <<room, log, fate, submitted, wsRef, dialled, retryTimer>>
  BY DEF OnMessage, gateway, budgets
<1>4. msg \in DownFrame /\ Tail(r.down) \in Seq(DownFrame) /\ Head(r.down) = msg /\ 1 \in DOMAIN r.down
  BY <1>1, TailFacts
<1>5. /\ pending' = IF msg.type \in {"applied", "ack", "op_error"}
                    THEN SettlePending(pending, msg.op_id) ELSE pending
      /\ confirmed' = IF msg.type = "snapshot" THEN msg.state
                      ELSE IF msg.type = "applied" THEN ApplyOp(confirmed, msg.op, msg.version)
                      ELSE confirmed
  BY <1>4 DEF OnMessage, replica
<1> HIDE DEF r
<1>6. /\ q \in SocketRec /\ q.client = "open" /\ q.attached = r.attached /\ q.server = r.server
      /\ q.overrun = r.overrun /\ q.next = r.next /\ q.up = r.up /\ q.down = Tail(r.down)
  BY <1>1, <1>4 DEF SocketRec
<1> HIDE DEF q, msg
<1>7. Tidy(q)
  BY <1>1, <1>6 DEF Tidy
<1>8. Flows(q, confirmed', log)
  <2>1. Live(q) => Live(r)
    BY <1>1, <1>6 DEF Live
  <2>2. Flows(r, confirmed, log)
    BY DEF WebInv, FlowInv, r
  <2> QED BY <1>1, <1>5, <1>6, <2>1, <2>2, ReadFlows DEF WebInv, msg
<1>9. /\ sock' \in [Socket -> SocketRec]
      /\ \A t \in Socket : sock'[t] = IF t = s THEN q ELSE sock[t]
  BY <1>2, <1>6, OneChanges DEF WebInv, SocketInv
<1>10. SocketInv'
  BY <1>7, <1>9 DEF WebInv, SocketInv
<1>11. FlowInv'
  <2>1. \A t \in Socket : t # s => ~ Live(sock'[t])
    BY <1>1, <1>9 DEF WebInv, ConnInv, Live, Up, r
  <2>2. Flows(sock'[s], confirmed', log')
    BY <1>3, <1>8, <1>9
  <2> QED BY <2>1, <2>2 DEF FlowInv, Flows
<1>12. ConnInv'
  BY <1>1, <1>3, <1>6, <1>9, SameEnds DEF WebInv, r
<1>13. pending' \in Seq(Entry)
  BY <1>5, SettleFacts DEF WebInv
<1>14. WebInv'
  BY <1>3, <1>10, <1>11, <1>12, <1>13 DEF WebInv, RoomInv
<1> QED BY <1>1, <1>3, <1>4, <1>5, <1>6, <1>9, <1>14 DEF r, msg

\* handle_client_text on an op.
LEMMA OpSteps ==
    ASSUME WebInv, NEW s \in Socket, HandleClientText(s), Head(sock[s].up).type = "op"
    PROVE  LET msg == sock[s].up[1]
           IN  /\ WebInv' /\ UNCHANGED <<confirmed, pending, submitted>>
               /\ sock[s].up \in Seq(UpFrame) /\ sock[s].up # << >>
               /\ msg.type = "op" /\ msg.op_id \in OpId /\ msg.op \in SyncOp
               /\ ApplyAndBroadcast(msg.op, msg.op_id)
               /\ sock'[s].up = Tail(sock[s].up)
               /\ sock'[s].client = sock[s].client /\ sock'[s].server = sock[s].server
               /\ \/ sock'[s].down = sock[s].down
                  \/ \E f \in DownFrame :
                       /\ sock'[s].down = Append(sock[s].down, f) /\ f.op_id = msg.op_id
                       /\ \/ f.type = "ack" /\ Duplicate(room, msg.op_id)
                          \/ f.type = "op_error" /\ Refused(room, msg.op, msg.op_id)
               /\ \A t \in Socket : t # s => sock'[t] = sock[t]
<1> DEFINE r == sock[s]
           msg == r.up[1]
           read == [r EXCEPT !.up = Tail(r.up)]
           f == [type |-> IF Duplicate(room, msg.op_id) THEN "ack" ELSE "op_error", op_id |-> msg.op_id]
           q == IF Accepted(room, msg.op, msg.op_id) THEN read ELSE Downstream(read, f)
<1>1. /\ r \in SocketRec /\ Tidy(r) /\ r.server = "serving" /\ r.up # << >> /\ r.up \in Seq(UpFrame)
  BY DEF HandleClientText, WebInv, SocketInv, SocketRec
<1>2. msg \in UpFrame /\ Tail(r.up) \in Seq(UpFrame) /\ Head(r.up) = msg
  BY <1>1, TailFacts
<1>3. /\ ApplyAndBroadcast(msg.op, msg.op_id) /\ sock' = [sock EXCEPT ![s] = q]
      /\ UNCHANGED <<confirmed, pending, submitted, wsRef, dialled, retryTimer>>
  BY <1>2 DEF HandleClientText, browser, replica, budgets
<1>4. msg.type = "op" /\ msg.op_id \in OpId /\ msg.op \in SyncOp
  BY <1>2 DEF UpFrame
<1> HIDE DEF r
<1>5. /\ read \in SocketRec /\ read.client = r.client /\ read.attached = r.attached
      /\ read.server = r.server /\ read.overrun = r.overrun /\ read.next = r.next
      /\ read.up = Tail(r.up) /\ read.down = r.down
  BY <1>1, <1>2 DEF SocketRec
<1> HIDE DEF msg, read
<1>6. f \in DownFrame /\ f.type \notin {"snapshot", "applied"} /\ f.op_id = msg.op_id
      /\ (Duplicate(room, msg.op_id) => f.type = "ack")
      /\ (~ Duplicate(room, msg.op_id) => f.type = "op_error")
  BY <1>4 DEF DownFrame
<1> HIDE DEF f
<1>7. /\ q \in SocketRec /\ q.client = r.client /\ q.attached = r.attached /\ q.server = r.server
      /\ q.overrun = r.overrun /\ q.next = r.next /\ q.up = Tail(r.up)
      /\ \/ q.down = r.down
         \/ q.down = Append(r.down, f) /\ ~ Accepted(room, msg.op, msg.op_id) /\ r.client \in Up
  <2>1. CASE Accepted(room, msg.op, msg.op_id)
    BY <1>5, <2>1
  <2>2. CASE ~ Accepted(room, msg.op, msg.op_id)
    <3> DEFINE d == Downstream(read, f)
    <3>1. /\ d \in SocketRec /\ d.client = read.client /\ d.attached = read.attached
          /\ d.server = read.server /\ d.overrun = read.overrun /\ d.next = read.next /\ d.up = read.up
          /\ d.down = IF read.client \in Up THEN Append(read.down, f) ELSE read.down
      BY <1>5, <1>6, DownstreamFacts
    <3>2. q = d
      BY <2>2
    <3> HIDE DEF d, q
    <3> QED BY <1>5, <2>2, <3>1, <3>2
  <2> QED BY <2>1, <2>2
<1> HIDE DEF q
<1>8. Tidy(q) /\ Calm(r, q)
  <2>1. Tidy(q)
    BY <1>1, <1>7 DEF Tidy
  <2>2. Calm(r, q)
    BY <1>6, <1>7 DEF Calm, Live
  <2> QED BY <2>1, <2>2
<1>9. RoomInv' /\ \A t, held : Flows(t, held, log) => Flows(t, held, log')
  BY <1>3, <1>4, RoomSteps DEF WebInv
<1>10. /\ sock' \in [Socket -> SocketRec]
       /\ \A t \in Socket : sock'[t] = IF t = s THEN q ELSE sock[t]
  BY <1>3, <1>7, OneChanges DEF WebInv, SocketInv
<1>11. SocketInv' /\ FlowInv'
  <2>1. Flows(q, confirmed, log)
    BY <1>7, <1>8, CalmAt DEF r
  <2> QED BY <1>3, <1>8, <1>9, <1>10, <2>1 DEF WebInv, SocketInv, FlowInv
<1>12. ConnInv'
  BY <1>3, <1>7, <1>10, SameEnds DEF WebInv, r
<1>13. WebInv'
  BY <1>3, <1>9, <1>11, <1>12 DEF WebInv
<1>14. sock'[s] = q /\ \A t \in Socket : t # s => sock'[t] = sock[t]
  BY <1>10
<1>15. \/ q.down = r.down
       \/ \E g \in DownFrame :
            /\ q.down = Append(r.down, g) /\ g.op_id = msg.op_id
            /\ \/ g.type = "ack" /\ Duplicate(room, msg.op_id)
               \/ g.type = "op_error" /\ Refused(room, msg.op, msg.op_id)
  BY <1>6, <1>7 DEF Accepted, Refused
<1> QED BY <1>1, <1>3, <1>4, <1>7, <1>13, <1>14, <1>15 DEF r, msg

\* handle_client_text on a ping or a close.
LEMMA OtherFrames ==
    ASSUME WebInv, NEW s \in Socket, HandleClientText(s), Head(sock[s].up).type # "op"
    PROVE  Quiet /\ ConnInv'
<1> DEFINE r == sock[s]
           read == [r EXCEPT !.up = Tail(r.up)]
<1>1. /\ r \in SocketRec /\ Tidy(r) /\ r.server = "serving" /\ r.up # << >> /\ r.up \in Seq(UpFrame)
      /\ Tail(r.up) \in Seq(UpFrame) /\ Head(r.up) = r.up[1] /\ r.up[1].type # "op"
  <2>1. /\ r \in SocketRec /\ Tidy(r) /\ r.server = "serving" /\ r.up # << >> /\ r.up \in Seq(UpFrame)
    BY DEF HandleClientText, WebInv, SocketInv, SocketRec
  <2> QED BY <2>1, TailFacts
<1>2. /\ UNCHANGED <<room, log, fate, confirmed, pending, submitted, wsRef, dialled, retryTimer>>
      /\ \/ sock' = [sock EXCEPT ![s] = Downstream(read, [type |-> "pong"])]
         \/ sock' = [sock EXCEPT ![s] = Lost(read)]
  BY DEF HandleClientText, browser, replica, budgets, gateway
<1> HIDE DEF r
<1>3. /\ read \in SocketRec /\ read.client = r.client /\ read.attached = r.attached
      /\ read.server = r.server /\ read.overrun = r.overrun /\ read.next = r.next
      /\ read.up = Tail(r.up) /\ read.down = r.down
  BY <1>1 DEF SocketRec
<1> HIDE DEF read
<1>4. ASSUME NEW q \in SocketRec, sock' = [sock EXCEPT ![s] = q],
             q.client = r.client, q.attached = r.attached, Tidy(q), Drifts(r, q, log), Calm(r, q)
      PROVE  Quiet /\ ConnInv'
  <2>1. Quiet /\ \A t \in Socket : sock'[t] = IF t = s THEN q ELSE sock[t]
    BY <1>2, <1>4, CalmStep DEF r
  <2>2. ConnInv'
    BY <1>2, <1>4, <2>1, SameEnds DEF WebInv, r
  <2> QED BY <2>1, <2>2
<1>5. CASE sock' = [sock EXCEPT ![s] = Downstream(read, [type |-> "pong"])]
  <2> DEFINE f == [type |-> "pong"]
             q == Downstream(read, f)
  <2>1. f \in DownFrame /\ f.type = "pong"
    BY DEF DownFrame
  <2> HIDE DEF f
  <2>2. /\ q \in SocketRec /\ q.client = read.client /\ q.attached = read.attached
        /\ q.server = read.server /\ q.overrun = read.overrun /\ q.next = read.next /\ q.up = read.up
        /\ q.down = IF read.client \in Up THEN Append(read.down, f) ELSE read.down
    BY <1>3, <2>1, DownstreamFacts
  <2>3. sock' = [sock EXCEPT ![s] = q]
    BY <1>5 DEF f
  <2> HIDE DEF q
  <2>4. Tidy(q)
    BY <1>1, <1>3, <2>2 DEF Tidy
  <2>5. Drifts(r, q, log)
    BY <1>1, <1>3, <2>1, <2>2 DEF Drifts
  <2>6. Calm(r, q)
    BY <1>3, <2>1, <2>2 DEF Calm, Live
  <2> QED BY <1>3, <1>4, <2>2, <2>3, <2>4, <2>5, <2>6
<1>6. CASE sock' = [sock EXCEPT ![s] = Lost(read)]
  <2> DEFINE q == Lost(read)
  <2>1. /\ q \in SocketRec /\ q.client = read.client /\ q.attached = read.attached
        /\ q.server = "gone" /\ q.overrun = FALSE /\ q.next = 1 /\ q.up = << >> /\ q.down = << >>
    BY <1>3, LostFacts
  <2>2. sock' = [sock EXCEPT ![s] = q]
    BY <1>6
  <2> HIDE DEF q
  <2>3. Tidy(q) /\ Drifts(r, q, log) /\ Calm(r, q)
    BY <1>1, <1>3, <2>1 DEF Tidy, Drifts, Calm, Live, Up
  <2> QED BY <1>3, <1>4, <2>1, <2>2, <2>3
<1> QED BY <1>2, <1>5, <1>6

\* The gateway restarts: no frame survives it.
LEMMA RestartSteps ==
    ASSUME WebInv, GatewayRestarts
    PROVE  /\ WebInv' /\ UNCHANGED <<confirmed, pending, submitted, fate>>
           /\ log' = << >> /\ room' = FreshRoom
           /\ \A t \in Socket : /\ sock'[t].up = << >> /\ sock'[t].down = << >>
                                /\ sock'[t].client = "open" => sock'[t].server = "gone"
<1>1. /\ room' = FreshRoom /\ log' = << >>
      /\ UNCHANGED <<confirmed, pending, submitted, fate, wsRef, dialled, retryTimer>>
  BY DEF GatewayRestarts, browser, replica
<1>2. ASSUME NEW t \in Socket
      PROVE  /\ sock'[t] \in SocketRec /\ Tidy(sock'[t]) /\ ~ Live(sock'[t])
             /\ sock'[t].up = << >> /\ sock'[t].down = << >>
             /\ sock'[t].client = sock[t].client /\ sock'[t].attached = sock[t].attached
             /\ sock'[t].client = "open" => sock'[t].server = "gone"
  <2> DEFINE r == sock[t]
             q == Lost(r)
  <2>1. r \in SocketRec /\ Tidy(r)
    BY DEF WebInv, SocketInv
  <2>2. sock'[t] = IF r.client = "unused" \/ (r.client = "connecting" /\ ~ Served(t)) THEN r ELSE q
    BY DEF GatewayRestarts
  <2>3. /\ q \in SocketRec /\ q.client = r.client /\ q.attached = r.attached
        /\ q.server = "gone" /\ q.overrun = FALSE /\ q.next = 1 /\ q.up = << >> /\ q.down = << >>
    BY <2>1, LostFacts
  <2>4. Served(t) <=> r.server \in {"serving", "recovering"}
    BY DEF Served
  <2>5. r.server \in {"none", "serving", "recovering", "gone"}
    BY <2>1 DEF SocketRec
  <2> HIDE DEF r, q
  <2>6. CASE sock'[t] = q /\ r.client # "unused"
    BY <2>1, <2>3, <2>6 DEF Tidy, Live, r
  <2>7. CASE sock'[t] = r /\ (r.client = "unused" \/ (r.client = "connecting" /\ ~ Served(t)))
    BY <2>1, <2>4, <2>5, <2>7 DEF Tidy, Live, r
  <2> QED BY <2>2, <2>6, <2>7
<1>3. SocketInv'
  <2>1. DOMAIN sock' = Socket /\ sock' = [t \in Socket |-> sock'[t]]
    BY DEF GatewayRestarts
  <2> QED BY <1>2, <2>1 DEF SocketInv
<1>4. FlowInv'
  BY <1>2 DEF FlowInv, Flows
<1>5. ConnInv'
  BY <1>1, <1>2, SameEnds DEF WebInv
<1>6. RoomInv'
  <2> DEFINE none == << >>
  <2>1. none \in Seq(Logged) /\ Len(none) = 0 /\ none \in Seq(OpId)
    BY EmptySeq
  <2>2. Ops(none) = << >>
    <3> HIDE DEF none
    <3>1. Ops(none) \in Seq(SyncOp) /\ Len(Ops(none)) = 0
      BY <2>1, OpsFacts
    <3> QED BY <3>1, EmptySeq
  <2>3. HistoryOK(Ops(none), ServerNow) /\ History(none)[0] = DefaultPlayback
    BY <2>2, EmptyHistory DEF History
  <2>4. log' = none
    BY <1>1
  <2> HIDE DEF none
  <2>5. room' \in Room /\ room'.version = 0 /\ room'.playback = DefaultPlayback
    BY <1>1, <2>1, DefaultSound DEF FreshRoom, Room, none
  <2> QED BY <2>1, <2>3, <2>4, <2>5 DEF RoomInv
<1>7. WebInv'
  BY <1>1, <1>3, <1>4, <1>5, <1>6 DEF WebInv
<1> QED BY <1>1, <1>2, <1>7

-----------------------------------------------------------------------------
\* Init: the first socket is dialled, nothing was sent.
LEMMA WebInit == Init => WebInv
<1> SUFFICES ASSUME Init
             PROVE  WebInv
  OBVIOUS
<1> DEFINE none == << >>
           a == [UnusedSocket EXCEPT !.client = "connecting"]
           r == [a EXCEPT !.attached = TRUE]
<1>0. /\ none \in Seq(UpFrame) /\ none \in Seq(DownFrame) /\ none \in Seq(Logged) /\ none \in Seq(OpId)
      /\ none \in Seq(Entry) /\ none \in Seq(SyncOp) /\ Len(none) = 0
  BY EmptySeq
<1>1. UnusedSocket = [client |-> "unused", attached |-> FALSE, server |-> "none", overrun |-> FALSE,
                      next |-> 1, up |-> none, down |-> none]
  BY DEF UnusedSocket
<1>2. /\ room = FreshRoom /\ log = none /\ pending = none /\ submitted = none
      /\ wsRef = 1 /\ dialled = 1 /\ retryTimer = FALSE
      /\ sock = [s \in Socket |-> IF s = 1 THEN r ELSE UnusedSocket]
  BY DEF Init
<1>3. 1 \in Socket /\ Socket \subseteq Nat
  BY WebAssumption DEF Socket
<1> HIDE DEF none
<1>4. UnusedSocket \in SocketRec /\ UnusedSocket.client = "unused" /\ UnusedSocket.server = "none"
      /\ UnusedSocket.up = none /\ UnusedSocket.down = none
  BY <1>0, <1>1 DEF SocketRec
<1>5. /\ a \in SocketRec /\ a.client = "connecting" /\ a.server = "none" /\ a.up = none /\ a.down = none
  BY <1>4 DEF SocketRec
<1> HIDE DEF a
<1>6. /\ r \in SocketRec /\ r.client = "connecting" /\ r.attached /\ r.server = "none"
      /\ r.up = none /\ r.down = none
  BY <1>5 DEF SocketRec
<1> HIDE DEF r
<1>7. Tidy(r) /\ Tidy(UnusedSocket) /\ ~ Live(r) /\ ~ Live(UnusedSocket)
  BY <1>4, <1>6 DEF Tidy, Live, none
<1>8. /\ sock \in [Socket -> SocketRec]
      /\ \A s \in Socket : sock[s] = IF s = 1 THEN r ELSE UnusedSocket
  BY <1>2, <1>4, <1>6
<1>9. SocketInv /\ FlowInv
  BY <1>7, <1>8 DEF SocketInv, FlowInv, Flows
<1>10. ConnInv
  <2>1. \A s \in Socket : s > dialled => sock[s].client = "unused"
    BY <1>2, <1>3, <1>4, <1>8
  <2>2. \A s \in Socket : sock[s].client \in Up => s = wsRef /\ sock[s].attached
    BY <1>2, <1>4, <1>6, <1>8 DEF Up
  <2> QED BY <1>2, <1>3, <2>1, <2>2 DEF ConnInv
<1>11. RoomInv
  <2>1. Ops(none) = << >>
    <3>1. Ops(none) \in Seq(SyncOp) /\ Len(Ops(none)) = 0
      BY <1>0, OpsFacts
    <3> QED BY <3>1, EmptySeq
  <2>2. HistoryOK(Ops(none), ServerNow) /\ History(none)[0] = DefaultPlayback
    BY <2>1, EmptyHistory DEF History
  <2>3. room \in Room /\ room.version = 0 /\ room.playback = DefaultPlayback
    BY <1>0, <1>2, DefaultSound DEF FreshRoom, Room, none
  <2> QED BY <1>0, <1>2, <2>2, <2>3 DEF RoomInv
<1> QED BY <1>0, <1>2, <1>9, <1>10, <1>11 DEF WebInv

\* Every step is quiet, or one of six.
LEMMA Steps ==
    ASSUME WebInv, [Next]_vars
    PROVE  \/ Quiet /\ ConnInv'
           \/ \E op \in SyncOp : Submit(op) \/ SubmitOp(op)
           \/ \E s \in Socket : OnOpen(s) \/ OnMessage(s)
           \/ \E s \in Socket : HandleClientText(s) /\ Head(sock[s].up).type = "op"
           \/ GatewayRestarts
<1>1. CASE Next
  <2>1. MyOps \subseteq SyncOp /\ OtherOps \subseteq SyncOp
    BY WebAssumption
  <2>2. CASE \E op \in MyOps : Submit(op)
    BY <2>1, <2>2
  <2>3. CASE \E op \in OtherOps : SubmitOp(op)
    BY <2>1, <2>3
  <2>4. CASE RetryTimerFires \/ HeartbeatPings \/ PingOverdue \/ HastyTimeout \/ ReconnectNow \/ TokenRefresh
    BY <2>4, BrowserTimers
  <2>5. CASE \E s \in Socket : OnOpen(s) \/ OnMessage(s)
    BY <2>5
  <2>6. CASE \E s \in Socket : OnClose(s)
    BY <2>6, CloseSteps
  <2>7. CASE \E s \in Socket : Serve(s)
    BY <2>7, ServeSteps
  <2>8. CASE \E s \in Socket : ForwardBroadcast(s)
    BY <2>8, ForwardSteps
  <2>9. CASE \E s \in Socket : LaggedSnapshot(s)
    BY <2>9, RecoverySteps
  <2>10. CASE \E s \in Socket : LinkDies(s)
    BY <2>10, LossSteps
  <2>11. CASE \E s \in Socket : HandleClientText(s)
    BY <2>11, OtherFrames
  <2>12. CASE GatewayRestarts
    BY <2>12
  <2> QED BY <1>1, <2>2, <2>3, <2>4, <2>5, <2>6, <2>7, <2>8, <2>9, <2>10, <2>11, <2>12 DEF Next
<1>2. CASE UNCHANGED vars
  <2>1. UNCHANGED <<room, log, fate, confirmed, pending, submitted, sock, wsRef, dialled, retryTimer>>
    BY <1>2 DEF vars
  <2>2. SocketInv' /\ FlowInv' /\ ConnInv'
    BY <2>1 DEF WebInv, SocketInv, FlowInv, ConnInv
  <2>3. \A s \in Socket : Drifts(sock[s], sock'[s], log)
    BY <2>1 DEF Drifts
  <2> QED BY <2>1, <2>2, <2>3 DEF Quiet
<1> QED BY <1>1, <1>2

LEMMA WebNext == WebInv /\ [Next]_vars => WebInv'
<1> SUFFICES ASSUME WebInv, [Next]_vars
             PROVE  WebInv'
  OBVIOUS
<1>1. CASE Quiet /\ ConnInv'
  BY <1>1 DEF Quiet, WebInv, RoomInv
<1>2. CASE \E op \in SyncOp : Submit(op) \/ SubmitOp(op)
  BY <1>2, SubmitSteps, OtherSteps
<1>3. CASE \E s \in Socket : OnOpen(s) \/ OnMessage(s)
  BY <1>3, OpenSteps, MessageSteps
<1>4. CASE \E s \in Socket : HandleClientText(s) /\ Head(sock[s].up).type = "op"
  BY <1>4, OpSteps
<1>5. CASE GatewayRestarts
  BY <1>5, RestartSteps
<1> QED BY <1>1, <1>2, <1>3, <1>4, <1>5, Steps

\* ws.rs and SyncContext.tsx: whatever dies, is written off, resent, overrun or
\* restarted, the sockets, the streams on them, the ledger and the room keep
\* the shape the properties below rest on.
THEOREM WebType == Spec => []WebInv
<1> QED BY WebInit, WebNext, PTL DEF Spec

\* What the invariant says of a socket whose snapshot has been read.
LEMMA StreamsInStep == WebInv => InStep
<1> SUFFICES ASSUME WebInv, NEW s \in Socket, InUse(s), ~ sock[s].overrun
             PROVE  /\ {sock[s].down[i].version : i \in AppliedAt(s)}
                          = confirmed.version + 1 .. sock[s].next - 1
                    /\ \A i, j \in AppliedAt(s) : i < j => sock[s].down[i].version < sock[s].down[j].version
                    /\ confirmed.version < sock[s].next
                    /\ Unstamped(confirmed.playback) = Unstamped(StateAt[confirmed.version])
  BY DEF InStep
<1> DEFINE d == sock[s].down
           n == sock[s].next
<1>1. Stream(d, n, Base(d, confirmed), log) /\ d \in Seq(DownFrame)
  BY DEF InUse, Live, Up, WebInv, SocketInv, FlowInv, Flows, SocketRec
<1>2. Base(d, confirmed) = confirmed
  <2>1. d # << >> => 1 \in DOMAIN d
    BY <1>1, TailFacts
  <2> QED BY <2>1 DEF InUse, Base, Opens
<1> DEFINE places == AppliedAt(s)
<1>3. places = {i \in DOMAIN d : d[i].type = "applied"}
  BY DEF AppliedAt
<1> HIDE DEF d, n, places
<1>4. Stream(d, n, confirmed, log)
  BY <1>1, <1>2
<1>5. {d[i].version : i \in places} = confirmed.version + 1 .. n - 1
  <2>1. \A i \in places : d[i].version \in confirmed.version + 1 .. n - 1
    BY <1>3, <1>4 DEF Stream
  <2>2. \A v \in confirmed.version + 1 .. n - 1 : \E i \in places : d[i].version = v
    BY <1>3, <1>4 DEF Stream
  <2> QED BY <2>1, <2>2
<1>6. \A i, j \in places : i < j => d[i].version < d[j].version
  BY <1>3, <1>4 DEF Stream
<1>7. /\ confirmed.version \in 0 .. Len(log) /\ n \in confirmed.version + 1 .. Len(log) + 1
      /\ confirmed.playback \in PlaybackState
      /\ Alike(confirmed.playback, History(log)[confirmed.version])
  BY <1>4 DEF Stream, Was
<1>8. History(log)[confirmed.version] \in PlaybackState /\ Len(log) \in Nat
  BY <1>7, OpsFacts DEF WebInv, RoomInv, HistoryOK, History
<1>9. confirmed.version < n
  BY <1>7, <1>8
<1>10. Unstamped(confirmed.playback) = Unstamped(History(log)[confirmed.version])
  BY <1>7, <1>8, UnstampedAlike
<1>11. StateAt = History(log)
  BY DEF StateAt, History, Ops
<1> QED BY <1>5, <1>6, <1>9, <1>10, <1>11 DEF d, n, places

(***************************************************************************)
(* apply.ts keeps the client convergent: wherever its stream is, what it   *)
(* confirmed is what the room was, and what follows is on its way.         *)
(***************************************************************************)
THEOREM ClientInStep == Spec => []InStep
<1> QED BY WebType, StreamsInStep, PTL

-----------------------------------------------------------------------------
(***************************************************************************)
(* What the gateway decided.                                               *)
(***************************************************************************)
Answers(f) == f.type \in {"applied", "ack", "op_error"}

\* A verdict was given on the op of id.
Known(verdicts, id) == id \in OpId => verdicts[id] # "undecided"

\* What is on its way down answers ops that were decided.
Told(down, verdicts) ==
    \A i \in DOMAIN down : Answers(down[i]) => Known(verdicts, down[i].op_id)

FateInv ==
    /\ fate \in [OpId -> {"undecided", "applied", "refused"}]
    /\ \A i \in DOMAIN room.seen : Known(fate, room.seen[i])
    /\ \A n \in DOMAIN log : Known(fate, log[n].op_id)
    /\ \A s \in Socket : Told(sock[s].down, fate)

\* Each frame of a longer sequence is an old one or the new one.
LEMMA Appended ==
    ASSUME NEW S, NEW s \in Seq(S), NEW e \in S, NEW t, t = Append(s, e)
    PROVE  \A i \in DOMAIN t : t[i] = e \/ (i \in DOMAIN s /\ t[i] = s[i])
BY AppendFacts, SeqFacts

LEMMA Tailed ==
    ASSUME NEW S, NEW s \in Seq(S), s # << >>, NEW t, t = Tail(s)
    PROVE  \A i \in DOMAIN t : i + 1 \in DOMAIN s /\ t[i] = s[i + 1]
BY TailFacts

LEMMA Emptied == DOMAIN << >> = {}
OBVIOUS

\* The frames that drift down.
LEMMA DriftDown ==
    ASSUME NEW r \in SocketRec, NEW q, NEW events, Drifts(r, q, events)
    PROVE  \A i \in DOMAIN q.down :
             \/ i \in DOMAIN r.down /\ q.down[i] = r.down[i]
             \/ q.down[i].type \in {"pong", "snapshot"}
             \/ q.down[i].type = "applied" /\ \E n \in DOMAIN events : q.down[i].op_id = events[n].op_id
<1>0. r.down \in Seq(DownFrame)
  BY DEF SocketRec
<1>1. CASE q.down = r.down
  BY <1>1
<1>2. CASE q.down = << >>
  BY <1>2
<1>3. CASE \E f \in DownFrame :
            /\ \/ f.type \in {"pong", "snapshot"}
               \/ f.type = "applied" /\ \E n \in DOMAIN events : f.op_id = events[n].op_id
            /\ q.down = Append(r.down, f)
  <2>1. PICK f \in DownFrame :
            /\ \/ f.type \in {"pong", "snapshot"}
               \/ f.type = "applied" /\ \E n \in DOMAIN events : f.op_id = events[n].op_id
            /\ q.down = Append(r.down, f)
    BY <1>3
  <2>2. \A i \in DOMAIN q.down : q.down[i] = f \/ (i \in DOMAIN r.down /\ q.down[i] = r.down[i])
    BY <1>0, <2>1, Appended
  <2> QED BY <2>1, <2>2
<1> QED BY <1>1, <1>2, <1>3 DEF Drifts

\* The ids of the window and of the log after an op.
LEMMA SeenAfter ==
    ASSUME NEW seen \in Seq(OpId), NEW id \in OpId
    PROVE  \A i \in DOMAIN SeenInsert(seen, id) :
             SeenInsert(seen, id)[i] = id \/ \E j \in DOMAIN seen : SeenInsert(seen, id)[i] = seen[j]
<1>1. CASE \E i \in DOMAIN seen : seen[i] = id
  BY <1>1 DEF SeenInsert
<1>2. CASE ~ (\E i \in DOMAIN seen : seen[i] = id) /\ Len(seen) < SeenOpIds
  <2>1. SeenInsert(seen, id) = Append(seen, id)
    BY <1>2 DEF SeenInsert
  <2> QED BY <2>1, Appended
<1>3. CASE ~ (\E i \in DOMAIN seen : seen[i] = id) /\ ~ (Len(seen) < SeenOpIds)
  <2>1. SeenInsert(seen, id) = Append(Tail(seen), id) /\ seen # << >>
    BY <1>3, RoomAssumption, EmptySeq DEF SeenInsert
  <2>2. Tail(seen) \in Seq(OpId) /\ \A i \in DOMAIN Tail(seen) : \E j \in DOMAIN seen : Tail(seen)[i] = seen[j]
    BY <2>1, TailFacts, Tailed
  <2> DEFINE front == Tail(seen)
             t == SeenInsert(seen, id)
  <2>3. t = Append(front, id)
    BY <2>1
  <2> HIDE DEF front, t
  <2>4. \A i \in DOMAIN t : t[i] = id \/ (i \in DOMAIN front /\ t[i] = front[i])
    BY <2>2, <2>3, Appended DEF front
  <2> QED BY <2>2, <2>4 DEF front, t
<1> QED BY <1>1, <1>2, <1>3

LEMMA AfterOp ==
    ASSUME RoomInv, NEW op \in SyncOp, NEW id \in OpId \cup {NoOpId}, ApplyAndBroadcast(op, id)
    PROVE  /\ \A i \in DOMAIN room'.seen :
                room'.seen[i] = id \/ \E j \in DOMAIN room.seen : room'.seen[i] = room.seen[j]
           /\ \A n \in DOMAIN log' :
                \/ n \in DOMAIN log /\ log'[n] = log[n]
                \/ log'[n] = [op |-> op, op_id |-> id] /\ Accepted(room, op, id)
<1>0. room.seen \in Seq(OpId) /\ log \in Seq(Logged) /\ [op |-> op, op_id |-> id] \in Logged
  BY DEF RoomInv, Room, Logged
<1>1. CASE ~ Accepted(room, op, id)
  <2>1. room' = room /\ log' = log
    BY <1>1 DEF ApplyAndBroadcast, ApplyWithId
  <2> QED BY <2>1
<1>2. CASE Accepted(room, op, id)
  <2>1. /\ room'.seen = IF id = NoOpId THEN room.seen ELSE SeenInsert(room.seen, id)
        /\ log' = Append(log, [op |-> op, op_id |-> id])
    BY <1>2 DEF ApplyAndBroadcast, ApplyWithId, Applied
  <2>2. \A n \in DOMAIN log' :
          log'[n] = [op |-> op, op_id |-> id] \/ (n \in DOMAIN log /\ log'[n] = log[n])
    <3> DEFINE e == [op |-> op, op_id |-> id]
    <3>1. e \in Logged /\ log' = Append(log, e)
      BY <1>0, <2>1
    <3> HIDE DEF e
    <3>2. \A n \in DOMAIN log' : log'[n] = e \/ (n \in DOMAIN log /\ log'[n] = log[n])
      BY <1>0, <3>1, Appended
    <3> QED BY <3>2 DEF e
  <2>3. \A i \in DOMAIN room'.seen :
          room'.seen[i] = id \/ \E j \in DOMAIN room.seen : room'.seen[i] = room.seen[j]
    <3>1. CASE id = NoOpId
      BY <2>1, <3>1
    <3>2. CASE id # NoOpId
      BY <1>0, <2>1, <3>2, SeenAfter
    <3> QED BY <3>1, <3>2
  <2> QED BY <1>2, <2>2, <2>3
<1> QED BY <1>1, <1>2

\* What the op's own fate is afterwards, and that no fate is forgotten.
LEMMA FateAfter ==
    ASSUME FateInv, NEW op, NEW id \in OpId \cup {NoOpId}, ApplyAndBroadcast(op, id)
    PROVE  /\ fate' \in [OpId -> {"undecided", "applied", "refused"}]
           /\ \A other : Known(fate, other) => Known(fate', other)
           /\ Known(fate', id)
<1>1. CASE id = NoOpId \/ Duplicate(room, id)
  <2>1. fate' = fate
    BY <1>1 DEF ApplyAndBroadcast
  <2>2. Known(fate, id)
    BY <1>1, RoomAssumption DEF Duplicate, Remembers, FateInv, Known
  <2> QED BY <2>1, <2>2 DEF FateInv, Known
<1>2. CASE ~ (id = NoOpId \/ Duplicate(room, id))
  <2>1. PICK verdict \in {"applied", "refused"} : fate' = [fate EXCEPT ![id] = verdict]
    BY <1>2 DEF ApplyAndBroadcast
  <2>2. id \in OpId
    BY <1>2
  <2> QED BY <2>1, <2>2 DEF FateInv, Known
<1> QED BY <1>1, <1>2

LEMMA FateInit == Init => FateInv
<1> SUFFICES ASSUME Init
             PROVE  FateInv
  OBVIOUS
<1>1. room.seen = << >> /\ log = << >> /\ \A s \in Socket : sock[s].down = << >>
  <2>1. \A s \in Socket : sock[s].down = << >>
    <3>1. WebInv
      BY WebInit
    <3>2. \A s \in Socket : sock[s].server = "none"
      BY DEF Init, UnusedSocket
    <3> QED BY <3>1, <3>2 DEF WebInv, SocketInv, Tidy
  <2> QED BY <2>1 DEF Init, FreshRoom
<1>2. fate \in [OpId -> {"undecided", "applied", "refused"}]
  BY DEF Init
<1> QED BY <1>1, <1>2, Emptied DEF FateInv, Told

LEMMA FateNext == WebInv /\ FateInv /\ [Next]_vars => FateInv'
<1> SUFFICES ASSUME WebInv, FateInv, [Next]_vars
             PROVE  FateInv'
  OBVIOUS
<1>0. \A s \in Socket : sock[s] \in SocketRec /\ sock[s].down \in Seq(DownFrame)
  BY DEF WebInv, SocketInv, SocketRec
<1>1. CASE Quiet
  <2>1. UNCHANGED <<room, log, fate>>
    BY <1>1 DEF Quiet
  <2>2. ASSUME NEW s \in Socket, NEW i \in DOMAIN sock'[s].down, Answers(sock'[s].down[i])
        PROVE  Known(fate, sock'[s].down[i].op_id)
    <3> DEFINE r == sock[s]
               q == sock'[s]
    <3>1. r \in SocketRec /\ Drifts(r, q, log)
      BY <1>0, <1>1 DEF Quiet
    <3> HIDE DEF r, q
    <3>2. i \in DOMAIN q.down /\ Answers(q.down[i])
      BY <2>2 DEF q
    <3>3. \/ i \in DOMAIN r.down /\ q.down[i] = r.down[i]
          \/ \E n \in DOMAIN log : q.down[i].op_id = log[n].op_id
      BY <3>1, <3>2, DriftDown DEF Answers
    <3>4. CASE i \in DOMAIN r.down /\ q.down[i] = r.down[i]
      BY <3>2, <3>4 DEF FateInv, Told, r, q
    <3>5. CASE \E n \in DOMAIN log : q.down[i].op_id = log[n].op_id
      BY <3>5 DEF FateInv, q
    <3> QED BY <3>3, <3>4, <3>5
  <2> QED BY <2>1, <2>2 DEF FateInv, Told
<1>2. CASE \E op \in SyncOp : Submit(op)
  <2>1. PICK op \in SyncOp : Submit(op)
    BY <1>2
  <2>2. UNCHANGED <<room, log, fate>> /\ \A s \in Socket : sock'[s].down = sock[s].down
    BY <2>1, SubmitSteps DEF Submit, gateway
  <2> QED BY <2>2 DEF FateInv
<1>3. CASE \E op \in SyncOp : SubmitOp(op)
  <2>1. PICK op \in SyncOp : SubmitOp(op)
    BY <1>3
  <2>2. ApplyAndBroadcast(op, NoOpId) /\ UNCHANGED sock
    BY <2>1 DEF SubmitOp
  <2>3. /\ fate' \in [OpId -> {"undecided", "applied", "refused"}]
        /\ \A other : Known(fate, other) => Known(fate', other)
        /\ Known(fate', NoOpId)
    BY <2>2, FateAfter
  <2>4. /\ \A i \in DOMAIN room'.seen :
             room'.seen[i] = NoOpId \/ \E j \in DOMAIN room.seen : room'.seen[i] = room.seen[j]
        /\ \A n \in DOMAIN log' :
             (n \in DOMAIN log /\ log'[n] = log[n]) \/ log'[n].op_id = NoOpId
    BY <2>2, AfterOp DEF WebInv
  <2>5. \A i \in DOMAIN room'.seen : Known(fate', room'.seen[i])
    BY <2>3, <2>4 DEF FateInv
  <2>6. \A n \in DOMAIN log' : Known(fate', log'[n].op_id)
    BY <2>3, <2>4 DEF FateInv
  <2>7. \A t \in Socket : Told(sock'[t].down, fate')
    BY <2>2, <2>3 DEF FateInv, Told
  <2> QED BY <2>3, <2>5, <2>6, <2>7 DEF FateInv
<1>4. CASE \E s \in Socket : OnOpen(s)
  <2>1. PICK s \in Socket : OnOpen(s)
    BY <1>4
  <2>2. UNCHANGED <<room, log, fate>> /\ \A t \in Socket : sock'[t].down = sock[t].down
    BY <2>1, OpenSteps
  <2> QED BY <2>2 DEF FateInv
<1>5. CASE \E s \in Socket : OnMessage(s)
  <2>1. PICK s \in Socket : OnMessage(s)
    BY <1>5
  <2>2. /\ UNCHANGED <<room, log, fate>> /\ \A t \in Socket : t # s => sock'[t] = sock[t]
        /\ sock[s].down # << >> /\ sock'[s].down = Tail(sock[s].down)
    BY <2>1, MessageSteps
  <2>3. \A i \in DOMAIN sock'[s].down :
          i + 1 \in DOMAIN sock[s].down /\ sock'[s].down[i] = sock[s].down[i + 1]
    BY <1>0, <2>2, Tailed
  <2>4. Told(sock'[s].down, fate)
    BY <2>3 DEF FateInv, Told
  <2>5. \A t \in Socket : Told(sock'[t].down, fate')
    BY <2>2, <2>4 DEF FateInv
  <2> QED BY <2>2, <2>5 DEF FateInv
<1>6. CASE \E s \in Socket : HandleClientText(s) /\ Head(sock[s].up).type = "op"
  <2>1. PICK s \in Socket : HandleClientText(s) /\ Head(sock[s].up).type = "op"
    BY <1>6
  <2> DEFINE msg == sock[s].up[1]
             op == msg.op
             id == msg.op_id
  <2>2. /\ op \in SyncOp /\ id \in OpId /\ ApplyAndBroadcast(op, id)
        /\ \A t \in Socket : t # s => sock'[t] = sock[t]
        /\ \/ sock'[s].down = sock[s].down
           \/ \E f \in DownFrame : sock'[s].down = Append(sock[s].down, f) /\ f.op_id = id
    BY <2>1, OpSteps
  <2> HIDE DEF msg, op, id
  <2>3. /\ fate' \in [OpId -> {"undecided", "applied", "refused"}]
        /\ \A other : Known(fate, other) => Known(fate', other)
        /\ Known(fate', id)
    BY <2>2, FateAfter
  <2>4. /\ \A i \in DOMAIN room'.seen :
             room'.seen[i] = id \/ \E j \in DOMAIN room.seen : room'.seen[i] = room.seen[j]
        /\ \A n \in DOMAIN log' :
             (n \in DOMAIN log /\ log'[n] = log[n]) \/ log'[n].op_id = id
    BY <2>2, AfterOp DEF WebInv
  <2>5. \A i \in DOMAIN sock'[s].down :
          (i \in DOMAIN sock[s].down /\ sock'[s].down[i] = sock[s].down[i]) \/ sock'[s].down[i].op_id = id
    <3>1. CASE sock'[s].down = sock[s].down
      BY <3>1
    <3>2. CASE \E f \in DownFrame : sock'[s].down = Append(sock[s].down, f) /\ f.op_id = id
      BY <1>0, <3>2, Appended
    <3> QED BY <2>2, <3>1, <3>2
  <2>6. \A i \in DOMAIN room'.seen : Known(fate', room'.seen[i])
    BY <2>3, <2>4 DEF FateInv
  <2>7. \A n \in DOMAIN log' : Known(fate', log'[n].op_id)
    BY <2>3, <2>4 DEF FateInv
  <2>8. \A t \in Socket : Told(sock[t].down, fate')
    BY <2>3 DEF FateInv, Told
  <2>9. Told(sock'[s].down, fate')
    BY <2>3, <2>5, <2>8 DEF Told
  <2>10. \A t \in Socket : Told(sock'[t].down, fate')
    BY <2>2, <2>8, <2>9
  <2> QED BY <2>3, <2>6, <2>7, <2>10 DEF FateInv
<1>7. CASE GatewayRestarts
  <2>1. UNCHANGED fate /\ room'.seen = << >> /\ log' = << >> /\ \A t \in Socket : sock'[t].down = << >>
    BY <1>7, RestartSteps DEF FreshRoom
  <2> QED BY <2>1, Emptied DEF FateInv, Told
<1> QED BY <1>1, <1>2, <1>3, <1>4, <1>5, <1>6, <1>7, Steps

\* store.rs: an answer on its way, an id in the window and an event of the log
\* all speak of an op the gateway has decided.
THEOREM FatesKnown == Spec => []FateInv
<1> QED BY WebInit, WebNext, FateInit, FateNext, PTL DEF Spec

\* An entry of the ledger after the next one was enqueued.
LEMMA EnqueuedAt ==
    ASSUME NEW ledger \in Seq(Entry), NEW next \in Entry, NEW i \in DOMAIN ledger,
           NEW later, later = EnqueuePending(ledger, next)
    PROVE  \/ \E j \in DOMAIN later : later[j] = ledger[i]
           \/ /\ later # << >> /\ Last(later) = next
              /\ ledger[i].op.type = next.op.type /\ next.op.type \in Superseding
<1> DEFINE r == EnqueuePending(ledger, next)
<1>1. /\ r \in Seq(Entry) /\ Len(r) \in Nat \ {0} /\ DOMAIN r = 1 .. Len(r) /\ r[Len(r)] = next
      /\ Len(ledger) \in Nat /\ DOMAIN ledger = 1 .. Len(ledger)
      /\ \A n \in 1 .. Len(r) - 1 : n \in DOMAIN ledger /\ r[n] = ledger[n]
  BY EnqueueFacts
<1>4. \/ Len(r) = Len(ledger) + 1
      \/ Len(r) = Len(ledger) /\ ledger[Len(r)].op.type = next.op.type /\ next.op.type \in Superseding
  BY EnqueueFacts
<1> DEFINE m == Len(r)
           n == Len(ledger)
<1>5. m \in Nat /\ n \in Nat /\ i \in 1 .. n /\ (m = n + 1 \/ m = n)
  BY <1>1, <1>4
<1> HIDE DEF r
<1>2. CASE i \in 1 .. Len(r) - 1
  <2>1. i \in DOMAIN r /\ r[i] = ledger[i]
    BY <1>1, <1>2
  <2> QED BY <2>1 DEF r
<1>3. CASE i \notin 1 .. Len(r) - 1
  <2>1. i = Len(r) /\ Len(r) = Len(ledger)
    <3>1. i \notin 1 .. m - 1
      BY <1>3
    <3> HIDE DEF m, n
    <3>2. i = m /\ m = n
      BY <1>5, <3>1
    <3> QED BY <3>2 DEF m, n
  <2>2. r # << >> /\ Last(r) = next
    BY <1>1, EmptySeq DEF Last
  <2> QED BY <1>4, <2>1, <2>2 DEF r
<1> QED BY <1>2, <1>3

\* What one step may do to an entry of the ledger.
Stays(entry) == \E j \in DOMAIN pending' : pending'[j] = entry

LEMMA LedgerStep ==
    ASSUME WebInv, FateInv, [Next]_vars, NEW i \in DOMAIN pending
    PROVE  \/ Stays(pending[i])
           \/ fate[pending[i].op_id] # "undecided"
           \/ /\ pending' # << >> /\ Last(pending').op_id = Len(submitted')
              /\ Len(submitted') = Len(submitted) + 1
              /\ Last(pending').op.type = pending[i].op.type
              /\ pending[i].op.type \in Superseding
<1>1. CASE pending' = pending
  BY <1>1 DEF Stays
<1>2. CASE \E op \in SyncOp : Submit(op)
  <2>1. PICK op \in SyncOp : Submit(op)
    BY <1>2
  <2> DEFINE entry == [op_id |-> Len(submitted) + 1, op |-> op]
  <2>2. /\ entry \in Entry /\ pending' = EnqueuePending(pending, entry)
        /\ submitted' = Append(submitted, op)
    BY <2>1, SubmitSteps DEF Submit
  <2>3. entry.op_id = Len(submitted) + 1 /\ entry.op = op
    OBVIOUS
  <2> HIDE DEF entry
  <2>4. Len(submitted') = Len(submitted) + 1
    BY <2>2, AppendProperties DEF WebInv
  <2> DEFINE later == pending'
  <2>5. later = EnqueuePending(pending, entry) /\ pending \in Seq(Entry)
    BY <2>2 DEF WebInv
  <2> HIDE DEF later
  <2>6. \/ \E j \in DOMAIN later : later[j] = pending[i]
        \/ /\ later # << >> /\ Last(later) = entry
           /\ pending[i].op.type = entry.op.type /\ entry.op.type \in Superseding
    BY <2>2, <2>5, EnqueuedAt
  <2> QED BY <2>3, <2>4, <2>6 DEF Stays, later
<1>3. CASE \E s \in Socket : OnMessage(s)
  <2>1. PICK s \in Socket : OnMessage(s)
    BY <1>3
  <2> DEFINE msg == sock[s].down[1]
  <2>2. /\ 1 \in DOMAIN sock[s].down
        /\ pending' = IF Answers(msg) THEN SettlePending(pending, msg.op_id) ELSE pending
    BY <2>1, MessageSteps DEF Answers
  <2>3. Answers(msg) => Known(fate, msg.op_id)
    BY <2>2 DEF FateInv, Told
  <2>4. pending[i] \in Entry
    BY SeqFacts DEF WebInv
  <2> HIDE DEF msg
  <2>5. CASE Answers(msg)
    <3> DEFINE id == msg.op_id
    <3>1. pending' = SettlePending(pending, id) /\ Known(fate, id)
      BY <2>2, <2>3, <2>5
    <3> HIDE DEF id
    <3>2. pending[i].op_id # id => Stays(pending[i])
      BY <3>1, SettleFacts DEF WebInv, Stays
    <3>3. pending[i].op_id = id => fate[pending[i].op_id] # "undecided"
      BY <2>4, <3>1 DEF Known, Entry
    <3> QED BY <3>2, <3>3
  <2> QED BY <1>1, <2>2, <2>5
<1>4. CASE Quiet \/ GatewayRestarts \/ (\E op \in SyncOp : SubmitOp(op)) \/ (\E s \in Socket : OnOpen(s))
           \/ (\E s \in Socket : HandleClientText(s) /\ Head(sock[s].up).type = "op")
  <2>1. pending' = pending
    <3>1. Quiet => pending' = pending
      BY DEF Quiet
    <3>2. GatewayRestarts => pending' = pending
      BY DEF GatewayRestarts, replica
    <3>3. (\E op \in SyncOp : SubmitOp(op)) => pending' = pending
      BY DEF SubmitOp, replica
    <3>4. (\E s \in Socket : OnOpen(s)) => pending' = pending
      BY DEF OnOpen, replica
    <3>5. (\E s \in Socket : HandleClientText(s)) => pending' = pending
      BY DEF HandleClientText, replica
    <3> QED BY <1>4, <3>1, <3>2, <3>3, <3>4, <3>5
  <2> QED BY <1>1, <2>1
<1> QED BY <1>2, <1>3, <1>4, Steps

(***************************************************************************)
(* The ledger loses nothing: what leaves it was decided by the gateway, or *)
(* replaced by the setter of its kind that was submitted right after it.   *)
(***************************************************************************)
THEOREM LedgerLosesNothing == Spec => LeavesLedgerDecided
<1>1. WebInv /\ FateInv /\ [Next]_vars =>
        [\A i \in DOMAIN pending :
           \/ \E j \in DOMAIN pending' : pending'[j] = pending[i]
           \/ fate[pending[i].op_id] # "undecided"
           \/ /\ pending' # << >> /\ Last(pending').op_id = Len(submitted')
              /\ Len(submitted') = Len(submitted) + 1
              /\ Last(pending').op.type = pending[i].op.type
              /\ pending[i].op.type \in Superseding]_vars
  BY LedgerStep DEF Stays
<1> QED BY <1>1, WebType, FatesKnown, PTL DEF Spec, LeavesLedgerDecided

-----------------------------------------------------------------------------
(***************************************************************************)
(* The order of the ops.  A queue of frames is in line when every op that  *)
(* was submitted before one of its ops, and that no later op replaces, is  *)
(* ahead of it or can no longer enter the log.                             *)
(***************************************************************************)
Carries(up, a) == \E j \in DOMAIN up : up[j].type = "op" /\ up[j].op_id = a

Waits(ledger, a) == \E i \in DOMAIN ledger : ledger[i].op_id = a

Ahead(up, j, a) == \E k \in DOMAIN up : k < j /\ up[k].type = "op" /\ up[k].op_id = a

InLine(up, plain, over) ==
    \A j \in DOMAIN up : up[j].type = "op" =>
        \A a \in plain : a < up[j].op_id => a \in over \/ Ahead(up, j, a)

\* The more is over, the more is in line.
LEMMA InLineGrows ==
    ASSUME NEW up, NEW plain, NEW over, NEW more, over \subseteq more, InLine(up, plain, over)
    PROVE  InLine(up, plain, more)
BY DEF InLine

LEMMA InLineEmpty == \A plain, over : InLine(<< >>, plain, over)
BY Emptied DEF InLine

\* A frame joins the queue.
LEMMA InLineAppend ==
    ASSUME NEW up \in Seq(UpFrame), NEW f \in UpFrame, NEW q, q = Append(up, f)
    PROVE  /\ \A a : Carries(q, a) <=> Carries(up, a) \/ (f.type = "op" /\ f.op_id = a)
           /\ \A plain, over :
                /\ InLine(up, plain, over)
                /\ f.type = "op" => \A a \in plain : a < f.op_id => a \in over \/ Carries(up, a)
                => InLine(q, plain, over)
<1>1. /\ Len(up) \in Nat /\ DOMAIN up = 1 .. Len(up) /\ DOMAIN q = 1 .. Len(up) + 1
      /\ q[Len(up) + 1] = f /\ \A j \in 1 .. Len(up) : q[j] = up[j]
  BY AppendFacts, SeqFacts
<1>2. \A j \in DOMAIN q : j \in DOMAIN up \/ j = Len(up) + 1
  BY <1>1
<1>3. Len(up) + 1 \in DOMAIN q /\ \A j \in DOMAIN up : j \in DOMAIN q /\ q[j] = up[j] /\ j < Len(up) + 1
  BY <1>1
<1> DEFINE n == Len(up) + 1
<1>4. q[n] = f /\ n \in DOMAIN q
  BY <1>1, <1>3
<1>5. /\ \A j \in DOMAIN q : j \in DOMAIN up \/ j = n
      /\ \A j \in DOMAIN up : j \in DOMAIN q /\ q[j] = up[j] /\ j < n
  BY <1>2, <1>3
<1> HIDE DEF n
<1>6. \A a : Carries(q, a) <=> Carries(up, a) \/ (f.type = "op" /\ f.op_id = a)
  BY <1>4, <1>5 DEF Carries
<1>7. ASSUME NEW plain, NEW over, InLine(up, plain, over),
             f.type = "op" => \A a \in plain : a < f.op_id => a \in over \/ Carries(up, a),
             NEW j \in DOMAIN q, q[j].type = "op", NEW a \in plain, a < q[j].op_id
      PROVE  a \in over \/ Ahead(q, j, a)
  <2>1. CASE j \in DOMAIN up
    <3>1. a \in over \/ Ahead(up, j, a)
      BY <1>5, <1>7, <2>1 DEF InLine
    <3> QED BY <1>5, <3>1 DEF Ahead
  <2>2. CASE j = n
    <3>1. a \in over \/ Carries(up, a)
      BY <1>4, <1>7, <2>2
    <3> QED BY <1>5, <2>2, <3>1 DEF Ahead, Carries
  <2> QED BY <1>5, <2>1, <2>2
<1> QED BY <1>6, <1>7 DEF InLine

\* The first frame is read.
LEMMA InLineTail ==
    ASSUME NEW up \in Seq(UpFrame), up # << >>, NEW q, q = Tail(up)
    PROVE  /\ \A a : Carries(q, a) => Carries(up, a)
           /\ \A a : Carries(up, a) => Carries(q, a) \/ (up[1].type = "op" /\ up[1].op_id = a)
           /\ \A plain, over :
                InLine(up, plain, over) /\ (up[1].type = "op" /\ up[1].op_id \in plain => up[1].op_id \in over)
                => InLine(q, plain, over)
<1>1. /\ Len(up) \in Nat \ {0} /\ DOMAIN up = 1 .. Len(up) /\ DOMAIN q = 1 .. Len(up) - 1
      /\ \A j \in 1 .. Len(up) - 1 : q[j] = up[j + 1]
  BY TailFacts
<1>2. \A j \in DOMAIN q : j + 1 \in DOMAIN up /\ q[j] = up[j + 1] /\ j \in Nat
  BY <1>1
<1>3. \A j \in DOMAIN up : j # 1 => j - 1 \in DOMAIN q /\ q[j - 1] = up[j] /\ j \in Nat
  <2>1. \A j \in DOMAIN up : j # 1 => j - 1 \in 1 .. Len(up) - 1 /\ (j - 1) + 1 = j /\ j \in Nat
    BY <1>1
  <2> QED BY <1>1, <2>1
<1>4. \A a : Carries(q, a) => Carries(up, a)
  BY <1>2 DEF Carries
<1>5. \A a : Carries(up, a) => Carries(q, a) \/ (up[1].type = "op" /\ up[1].op_id = a)
  BY <1>3 DEF Carries
<1>6. ASSUME NEW plain, NEW over, InLine(up, plain, over),
             up[1].type = "op" /\ up[1].op_id \in plain => up[1].op_id \in over,
             NEW j \in DOMAIN q, q[j].type = "op", NEW a \in plain, a < q[j].op_id
      PROVE  a \in over \/ Ahead(q, j, a)
  <2>1. a \in over \/ Ahead(up, j + 1, a)
    BY <1>2, <1>6 DEF InLine
  <2>2. CASE Ahead(up, j + 1, a)
    <3>1. PICK k \in DOMAIN up : k < j + 1 /\ up[k].type = "op" /\ up[k].op_id = a
      BY <2>2 DEF Ahead
    <3>2. CASE k = 1
      BY <1>6, <3>1, <3>2
    <3>3. CASE k # 1
      <4>1. k - 1 \in DOMAIN q /\ q[k - 1] = up[k] /\ k - 1 < j
        BY <1>2, <1>3, <1>6, <3>1, <3>3
      <4> QED BY <3>1, <4>1 DEF Ahead
    <3> QED BY <3>2, <3>3
  <2> QED BY <2>1, <2>2
<1> QED BY <1>4, <1>5, <1>6 DEF InLine

-----------------------------------------------------------------------------
(***************************************************************************)
(* The invariant of the order.                                             *)
(***************************************************************************)
\* Ops that no later op replaces.
Plain == {a \in DOMAIN submitted : submitted[a].type \notin Superseding}

\* A session whose anchor is out of range: no room accepts it.
Void(op) == op.type = "start_session" /\ op.anchor_index > Len(op.items)

InLog(events, a) == \E n \in DOMAIN events : events[n].op_id = a

\* An op that cannot enter the log for the first time any more while the room
\* lives: it is in it or the room refuses it, or it is nowhere on its way.
Spent(a) == InLog(log, a) \/ Void(submitted[a])

Nowhere(a) == ~ Waits(pending, a) /\ \A s \in Socket : ~ Carries(sock[s].up, a)

Over == {a \in Plain : Spent(a) \/ Nowhere(a)}

\* A frame, an entry or an event of this client carries the op of its id.
Minted(e, ops) == e.op_id \in DOMAIN ops /\ e.op = ops[e.op_id]

Rising(ledger) == \A i, j \in DOMAIN ledger : i < j => ledger[i].op_id < ledger[j].op_id

MintedInv ==
    /\ DOMAIN submitted \subseteq OpId
    /\ \A s \in Socket : \A j \in DOMAIN sock[s].up :
         sock[s].up[j].type = "op" => Minted(sock[s].up[j], submitted)
    /\ \A s \in Socket : \A j \in DOMAIN sock[s].down :
         Answers(sock[s].down[j]) /\ sock[s].down[j].op_id # NoOpId =>
             sock[s].down[j].op_id \in DOMAIN submitted
    /\ \A i \in DOMAIN pending : Minted(pending[i], submitted)
    /\ \A n \in DOMAIN log : Mine(n) => Minted(log[n], submitted)
    /\ Rising(pending)

\* The ops of this client that came after the place i of the log.
OthersAfter(i) == OthersBetween(i, Len(log) + 1)

\* The window holds each of its ids once, and in the order of the log: what
\* follows an id in it was applied after the id was.
WindowOrder ==
    /\ \A p, q \in DOMAIN room.seen : room.seen[p] = room.seen[q] => p = q
    /\ \A p \in DOMAIN room.seen : InLog(log, room.seen[p])
    /\ \A p, q \in DOMAIN room.seen : p < q =>
         \A i \in DOMAIN log : log[i].op_id = room.seen[p] =>
             \E k \in DOMAIN log : i < k /\ log[k].op_id = room.seen[q]

\* It forgets an op of the log only after SeenOpIds others.
WindowInv ==
    /\ WindowOrder
    /\ \A i \in DOMAIN log : Mine(i) =>
         Remembers(room, log[i].op_id) \/ Cardinality(OthersAfter(i)) >= SeenOpIds

\* What a queue, an open socket and an answer promise about the ops that are
\* not over.
SocketLines(r, plain, over, waits, spent) ==
    /\ InLine(r.up, plain, over)
    /\ \A a \in plain : Carries(r.up, a) => a \in waits \/ a \in spent
    /\ r.client = "open" /\ r.server # "gone" =>
         \A a \in plain : a \in waits => a \in spent \/ Carries(r.up, a)
    /\ \A i \in DOMAIN r.down : Answers(r.down[i]) /\ r.down[i].op_id \in plain => r.down[i].op_id \in spent

Waiting == {a \in Plain : Waits(pending, a)}
SpentOps == {a \in Plain : Spent(a)}

LineInv ==
    /\ \A s \in Socket : SocketLines(sock[s], Plain, Over, Waiting, SpentOps)
    /\ \A n \in DOMAIN log : Mine(n) => \A a \in Plain : a < log[n].op_id => a \in Over

OrderInv == MintedInv /\ WindowInv /\ LineInv /\ AppliedOnce /\ SubmissionOrder

\* Distinct ids of a sequence are as many members of a set that has them all.
LEMMA AsManyIds ==
    ASSUME NEW ids \in Seq(OpId), \A p, q \in DOMAIN ids : ids[p] = ids[q] => p = q,
           NEW T \in SUBSET OpId, \A p \in DOMAIN ids : ids[p] \in T
    PROVE  Cardinality(T) \in Nat /\ Len(ids) <= Cardinality(T)
<1>1. Len(ids) \in Nat /\ DOMAIN ids = 1 .. Len(ids)
  BY SeqFacts
<1>2. IsFiniteSet(T) /\ Cardinality(T) \in Nat
  <2>1. IsFiniteSet(OpId)
    BY WebAssumption, FS_Interval
  <2>2. IsFiniteSet(T)
    BY <2>1, FS_Subset
  <2> QED BY <2>2, FS_CardinalityType
<1>3. ids \in Injection(1 .. Len(ids), T)
  <2>1. ids = [p \in 1 .. Len(ids) |-> ids[p]]
    BY <1>1, LenProperties
  <2>2. ids \in [1 .. Len(ids) -> T]
    BY <1>1, <2>1
  <2> QED BY <1>1, <2>2 DEF Injection, IsInjective
<1>4. Cardinality(1 .. Len(ids)) <= Cardinality(T)
  BY <1>2, <1>3, FS_Injection
<1>5. Cardinality(1 .. Len(ids)) = Len(ids)
  <2>1. \A n \in Nat : Cardinality(1 .. n) = n
    <3>1. \A n \in Nat : Cardinality(1 .. n) = IF 1 > n THEN 0 ELSE n - 1 + 1
      BY FS_Interval
    <3> QED BY <3>1
  <2> QED BY <1>1, <2>1
<1> QED BY <1>2, <1>4, <1>5

\* An event joins the log: what lay between two places still does.
LEMMA LogGrows ==
    ASSUME log \in Seq(Logged), NEW e \in Logged, log' = Append(log, e)
    PROVE  /\ Len(log) \in Nat /\ Len(log') = Len(log) + 1
           /\ DOMAIN log = 1 .. Len(log) /\ DOMAIN log' = 1 .. Len(log) + 1
           /\ log'[Len(log) + 1] = e /\ \A n \in DOMAIN log : n \in DOMAIN log' /\ log'[n] = log[n]
           /\ \A i \in DOMAIN log : \A j \in DOMAIN log' : OthersBetween(i, j)' = OthersBetween(i, j)
           /\ \A i \in DOMAIN log : OthersAfter(i) \subseteq OthersAfter(i)'
           /\ \A i \in DOMAIN log : OthersAfter(i)' \subseteq OpId
           /\ \A i \in DOMAIN log : Cardinality(OthersAfter(i)) <= Cardinality(OthersAfter(i)')
           /\ \A i \in DOMAIN log : Cardinality(OthersAfter(i)') \in Nat /\ Cardinality(OthersAfter(i)) \in Nat
<1>1. /\ Len(log) \in Nat /\ DOMAIN log = 1 .. Len(log) /\ DOMAIN log' = 1 .. Len(log) + 1
      /\ Len(log') = Len(log) + 1 /\ log' \in Seq(Logged)
      /\ log'[Len(log) + 1] = e /\ \A n \in 1 .. Len(log) : log'[n] = log[n]
  BY AppendFacts, SeqFacts
<1>2. \A n \in DOMAIN log : n \in DOMAIN log' /\ log'[n] = log[n]
  BY <1>1
<1>3. ASSUME NEW i \in DOMAIN log, NEW j \in DOMAIN log'
      PROVE  OthersBetween(i, j)' = OthersBetween(i, j)
  <2>1. \A m : m \in DOMAIN log' /\ i < m /\ m < j <=> m \in DOMAIN log /\ i < m /\ m < j
    BY <1>1
  <2>2. log'[i].op_id = log[i].op_id
    BY <1>2
  <2>3. OthersBetween(i, j)' =
          {log'[k].op_id : k \in {m \in DOMAIN log' : i < m /\ m < j}} \ {NoOpId, log'[i].op_id}
    BY DEF OthersBetween
  <2>4. {m \in DOMAIN log' : i < m /\ m < j} = {m \in DOMAIN log : i < m /\ m < j}
    BY <2>1
  <2> DEFINE between == {m \in DOMAIN log : i < m /\ m < j}
  <2>5. \A k \in between : log'[k].op_id = log[k].op_id
    BY <1>2
  <2>6. OthersBetween(i, j) = {log[k].op_id : k \in between} \ {NoOpId, log[i].op_id}
    BY DEF OthersBetween
  <2> HIDE DEF between
  <2> QED BY <2>2, <2>3, <2>4, <2>5, <2>6 DEF between
<1>4. ASSUME NEW i \in DOMAIN log
      PROVE  OthersAfter(i) \subseteq OthersAfter(i)' /\ OthersAfter(i)' \subseteq OpId
  <2>1. OthersAfter(i)' =
          {log'[k].op_id : k \in {m \in DOMAIN log' : i < m /\ m < Len(log') + 1}} \ {NoOpId, log'[i].op_id}
    BY DEF OthersAfter, OthersBetween
  <2>2. OthersAfter(i) =
          {log[k].op_id : k \in {m \in DOMAIN log : i < m /\ m < Len(log) + 1}} \ {NoOpId, log[i].op_id}
    BY DEF OthersAfter, OthersBetween
  <2>3. \A m \in DOMAIN log : i < m /\ m < Len(log) + 1 =>
          m \in DOMAIN log' /\ m < Len(log') + 1 /\ log'[m].op_id = log[m].op_id
    BY <1>1, <1>2
  <2>4. \A m \in DOMAIN log' : log'[m].op_id \in OpId \cup {NoOpId}
    <3>1. \A m \in DOMAIN log' : log'[m] \in Logged
      <4> DEFINE later == log'
      <4>1. later \in Seq(Logged)
        BY <1>1
      <4> HIDE DEF later
      <4>2. \A m \in DOMAIN later : later[m] \in Logged
        BY <4>1, SeqFacts
      <4> QED BY <4>2 DEF later
    <3> QED BY <3>1 DEF Logged
  <2> QED BY <1>2, <2>1, <2>2, <2>3, <2>4
<1>5. ASSUME NEW i \in DOMAIN log
      PROVE  /\ Cardinality(OthersAfter(i)) <= Cardinality(OthersAfter(i)')
             /\ Cardinality(OthersAfter(i)') \in Nat /\ Cardinality(OthersAfter(i)) \in Nat
  <2> DEFINE old == OthersAfter(i)
             new == OthersAfter(i)'
  <2>1. old \in SUBSET new /\ new \in SUBSET OpId
    BY <1>4
  <2> HIDE DEF old, new
  <2>2. IsFiniteSet(OpId)
    BY WebAssumption, FS_Interval
  <2>3. IsFiniteSet(new)
    BY <2>1, <2>2, FS_Subset
  <2>4. IsFiniteSet(old) /\ Cardinality(old) <= Cardinality(new)
    BY <2>1, <2>3, FS_Subset
  <2>5. Cardinality(old) \in Nat /\ Cardinality(new) \in Nat
    BY <2>3, <2>4, FS_CardinalityType
  <2> QED BY <2>4, <2>5 DEF old, new
<1> QED BY <1>1, <1>2, <1>3, <1>4, <1>5

\* The window after an id it did not hold: the id is the last, and the ids
\* before it are those it held, less the first if it was full.
SlidBy(seen, later, id, n) ==
    /\ later \in Seq(OpId) /\ Len(seen) \in Nat /\ DOMAIN seen = 1 .. Len(seen)
    /\ n = 1 => Len(seen) >= SeenOpIds
    /\ n <= Len(seen) /\ Len(later) = Len(seen) + 1 - n
    /\ DOMAIN later = 1 .. Len(seen) + 1 - n
    /\ later[Len(seen) + 1 - n] = id
    /\ \A p \in 1 .. Len(seen) - n : p + n \in DOMAIN seen /\ later[p] = seen[p + n]

LEMMA Inserted ==
    ASSUME NEW seen \in Seq(OpId), NEW id \in OpId, \A p \in DOMAIN seen : seen[p] # id,
           NEW later, later = SeenInsert(seen, id)
    PROVE  \E n \in {0, 1} : SlidBy(seen, later, id, n)
<1>1. Len(seen) \in Nat /\ DOMAIN seen = 1 .. Len(seen) /\ SeenOpIds \in Nat \ {0}
  BY SeqFacts, RoomAssumption
<1>2. CASE Len(seen) < SeenOpIds
  <2>1. later = Append(seen, id)
    BY <1>2 DEF SeenInsert
  <2>2. /\ later \in Seq(OpId) /\ Len(later) = Len(seen) + 1 /\ DOMAIN later = 1 .. Len(seen) + 1
        /\ later[Len(seen) + 1] = id /\ \A p \in 1 .. Len(seen) : later[p] = seen[p]
    <3> DEFINE t == Append(seen, id)
    <3>1. /\ t \in Seq(OpId) /\ Len(t) = Len(seen) + 1 /\ DOMAIN t = 1 .. Len(seen) + 1
          /\ \A p \in 1 .. Len(seen) + 1 : t[p] = IF p = Len(seen) + 1 THEN id ELSE seen[p]
      BY AppendFacts
    <3> HIDE DEF t
    <3>2. t[Len(seen) + 1] = id /\ \A p \in 1 .. Len(seen) : t[p] = seen[p]
      BY <1>1, <3>1
    <3> QED BY <2>1, <3>1, <3>2 DEF t
  <2>3. Len(seen) + 1 - 0 = Len(seen) + 1 /\ Len(seen) - 0 = Len(seen) /\ \A p \in 1 .. Len(seen) : p + 0 = p
    BY <1>1
  <2>4. SlidBy(seen, later, id, 0)
    BY <1>1, <2>2, <2>3 DEF SlidBy
  <2> QED BY <2>4
<1>3. CASE ~ (Len(seen) < SeenOpIds)
  <2> DEFINE rest == Tail(seen)
             m == Len(seen) - 1
  <2>1. later = Append(rest, id) /\ seen # << >>
    BY <1>1, <1>3, EmptySeq DEF SeenInsert
  <2>2. /\ rest \in Seq(OpId) /\ DOMAIN rest = 1 .. m /\ m \in Nat
        /\ \A p \in 1 .. m : rest[p] = seen[p + 1]
    BY <1>1, <2>1, TailFacts
  <2> HIDE DEF rest
  <2>3. Len(rest) = m
    BY <2>2, LenProperties
  <2> DEFINE t == Append(rest, id)
  <2>4. /\ t \in Seq(OpId) /\ Len(t) = m + 1 /\ DOMAIN t = 1 .. m + 1
        /\ \A p \in 1 .. m + 1 : t[p] = IF p = m + 1 THEN id ELSE rest[p]
    BY <2>2, <2>3, AppendFacts
  <2> HIDE DEF t, m
  <2>5. t[m + 1] = id /\ \A p \in 1 .. m : t[p] = seen[p + 1]
    <3>1. m + 1 \in 1 .. m + 1 /\ \A p \in 1 .. m : p \in 1 .. m + 1 /\ p # m + 1
      BY <2>2
    <3> QED BY <2>2, <2>4, <3>1
  <2>6. /\ Len(seen) + 1 - 1 = m + 1 /\ Len(seen) - 1 = m /\ 1 <= Len(seen) /\ Len(seen) >= SeenOpIds
        /\ \A p \in 1 .. m : p + 1 \in DOMAIN seen
    BY <1>1, <1>3, <2>2 DEF m
  <2>7. SlidBy(seen, later, id, 1)
    BY <1>1, <2>1, <2>4, <2>5, <2>6 DEF t, SlidBy
  <2> QED BY <2>7
<1> QED BY <1>2, <1>3

\* What an op of this client adds to the later part of the log.
LEMMA AddedAfter ==
    ASSUME log \in Seq(Logged), NEW e \in Logged, log' = Append(log, e),
           NEW i \in DOMAIN log, NEW a,
           a # log[i].op_id, a # NoOpId,
           a = e.op_id \/ \E k \in DOMAIN log : i < k /\ log[k].op_id = a
    PROVE  a \in OthersAfter(i)'
<1>1. OthersAfter(i)' =
        {log'[k].op_id : k \in {m \in DOMAIN log' : i < m /\ m < Len(log') + 1}} \ {NoOpId, log'[i].op_id}
  BY DEF OthersAfter, OthersBetween
<1>2. /\ Len(log) \in Nat /\ Len(log') = Len(log) + 1
      /\ DOMAIN log = 1 .. Len(log) /\ DOMAIN log' = 1 .. Len(log) + 1
      /\ log'[Len(log) + 1] = e /\ \A n \in DOMAIN log : n \in DOMAIN log' /\ log'[n] = log[n]
  BY LogGrows
<1>3. \E k \in DOMAIN log' : i < k /\ log'[k].op_id = a
  <2>1. CASE a = e.op_id
    <3>1. Len(log) + 1 \in DOMAIN log' /\ i < Len(log) + 1
      BY <1>2
    <3> QED BY <1>2, <2>1, <3>1
  <2>2. CASE \E k \in DOMAIN log : i < k /\ log[k].op_id = a
    BY <1>2, <2>2
  <2> QED BY <2>1, <2>2
<1>4. \A k \in DOMAIN log' : k < Len(log') + 1
  BY <1>2
<1> QED BY <1>1, <1>2, <1>3, <1>4

\* The window and the log after an op of this client.
LEMMA WindowAfter ==
    ASSUME RoomInv, WindowInv,
           NEW op \in SyncOp, NEW id \in OpId, ApplyAndBroadcast(op, id), Accepted(room, op, id)
    PROVE  /\ ~ Remembers(room, id) /\ WindowInv'
           /\ \A a : InLog(log', a) <=> InLog(log, a) \/ a = id
           /\ Len(log) \in Nat /\ DOMAIN log = 1 .. Len(log) /\ DOMAIN log' = 1 .. Len(log) + 1
           /\ log'[Len(log) + 1] = [op |-> op, op_id |-> id]
           /\ \A n \in DOMAIN log : n \in DOMAIN log' /\ log'[n] = log[n]
           /\ \A i \in DOMAIN log : \A j \in DOMAIN log' : OthersBetween(i, j)' = OthersBetween(i, j)
<1> DEFINE seen == room.seen
           later == room'.seen
           e == [op |-> op, op_id |-> id]
<1>0. seen \in Seq(OpId) /\ log \in Seq(Logged) /\ e \in Logged /\ e.op_id = id
  BY DEF RoomInv, Room, Logged
<1>1. id # NoOpId /\ ~ Remembers(room, id) /\ \A p \in DOMAIN seen : seen[p] # id
  BY RoomAssumption DEF Accepted, Duplicate, Remembers
<1>2. later = SeenInsert(seen, id) /\ log' = Append(log, e)
  BY <1>1 DEF ApplyAndBroadcast, ApplyWithId, Applied
<1>3. /\ \A p, q \in DOMAIN seen : seen[p] = seen[q] => p = q
      /\ \A p \in DOMAIN seen : InLog(log, seen[p])
      /\ \A p, q \in DOMAIN seen : p < q =>
           \A i \in DOMAIN log : log[i].op_id = seen[p] =>
               \E k \in DOMAIN log : i < k /\ log[k].op_id = seen[q]
      /\ \A i \in DOMAIN log : Mine(i) =>
           (\E p \in DOMAIN seen : seen[p] = log[i].op_id) \/ Cardinality(OthersAfter(i)) >= SeenOpIds
  BY DEF WindowInv, WindowOrder, Remembers
<1>4. e = [op |-> op, op_id |-> id]
  OBVIOUS
<1> HIDE DEF seen, later, e
<1>6. /\ Len(log) \in Nat /\ Len(log') = Len(log) + 1
      /\ DOMAIN log = 1 .. Len(log) /\ DOMAIN log' = 1 .. Len(log) + 1
      /\ log'[Len(log) + 1] = e /\ \A n \in DOMAIN log : n \in DOMAIN log' /\ log'[n] = log[n]
      /\ \A i \in DOMAIN log : \A j \in DOMAIN log' : OthersBetween(i, j)' = OthersBetween(i, j)
      /\ \A i \in DOMAIN log : OthersAfter(i)' \subseteq OpId
      /\ \A i \in DOMAIN log : Cardinality(OthersAfter(i)) <= Cardinality(OthersAfter(i)')
      /\ \A i \in DOMAIN log : Cardinality(OthersAfter(i)') \in Nat /\ Cardinality(OthersAfter(i)) \in Nat
  BY <1>0, <1>2, LogGrows
<1>7. PICK n \in {0, 1} :
        /\ later \in Seq(OpId) /\ Len(seen) \in Nat /\ DOMAIN seen = 1 .. Len(seen)
        /\ n = 1 => Len(seen) >= SeenOpIds
        /\ n <= Len(seen) /\ Len(later) = Len(seen) + 1 - n
        /\ DOMAIN later = 1 .. Len(seen) + 1 - n
        /\ later[Len(seen) + 1 - n] = id
        /\ \A p \in 1 .. Len(seen) - n : p + n \in DOMAIN seen /\ later[p] = seen[p + n]
  BY <1>0, <1>1, <1>2, Inserted DEF SlidBy
<1> DEFINE m == Len(seen) + 1 - n
           end == Len(log) + 1
<1>8. /\ m \in DOMAIN later /\ later[m] = id /\ m \in Nat
      /\ \A p \in DOMAIN later : p \in Nat /\ p <= m
      /\ \A p \in DOMAIN later : p # m => p + n \in DOMAIN seen /\ later[p] = seen[p + n]
  <2>1. \A p \in DOMAIN later : p # m => p \in 1 .. Len(seen) - n
    BY <1>7
  <2> QED BY <1>7, <2>1
<1>9. /\ end \in DOMAIN log' /\ log'[end] = e /\ log'[end].op_id = id
      /\ \A i \in DOMAIN log' : i = end \/ i \in DOMAIN log
      /\ \A i \in DOMAIN log : i < end /\ i # end
  BY <1>0, <1>6
<1> HIDE DEF m, end
<1>10. \A a : InLog(log', a) <=> InLog(log, a) \/ a = id
  BY <1>6, <1>9 DEF InLog
<1>11. \A p, q \in DOMAIN later : later[p] = later[q] => p = q
  BY <1>1, <1>3, <1>7, <1>8
<1>12. ASSUME NEW p \in DOMAIN later
       PROVE  \E k \in DOMAIN log' : log'[k].op_id = later[p]
  <2>1. CASE p = m
    BY <1>8, <1>9, <2>1
  <2>2. CASE p # m
    BY <1>3, <1>6, <1>8, <2>2 DEF InLog
  <2> QED BY <2>1, <2>2
<1>13. ASSUME NEW p \in DOMAIN later, NEW q \in DOMAIN later, p < q,
              NEW i \in DOMAIN log', log'[i].op_id = later[p]
       PROVE  \E k \in DOMAIN log' : i < k /\ log'[k].op_id = later[q]
  <2>1. p # m
    BY <1>8, <1>13
  <2>2. p + n \in DOMAIN seen /\ later[p] = seen[p + n]
    BY <1>8, <2>1
  <2>3. i \in DOMAIN log /\ log[i].op_id = seen[p + n]
    BY <1>1, <1>6, <1>9, <1>13, <2>2
  <2>4. CASE q = m
    BY <1>8, <1>9, <2>3, <2>4
  <2>5. CASE q # m
    <3>1. q + n \in DOMAIN seen /\ later[q] = seen[q + n] /\ p + n < q + n
      BY <1>7, <1>8, <1>13, <2>5
    <3>2. PICK k \in DOMAIN log : i < k /\ log[k].op_id = seen[q + n]
      BY <1>3, <2>2, <2>3, <3>1
    <3> QED BY <1>6, <3>1, <3>2
  <2> QED BY <2>4, <2>5
<1>14. ASSUME NEW i \in DOMAIN log, Mine(i)
       PROVE  (\E p \in DOMAIN later : later[p] = log[i].op_id) \/ Cardinality(OthersAfter(i)') >= SeenOpIds
  <2>1. CASE Cardinality(OthersAfter(i)) >= SeenOpIds
    BY <1>6, <2>1, RoomAssumption
  <2>2. ASSUME NEW p \in DOMAIN seen, seen[p] = log[i].op_id
        PROVE  (\E q \in DOMAIN later : later[q] = log[i].op_id) \/ Cardinality(OthersAfter(i)') >= SeenOpIds
    <3>1. CASE p > n
      <4>1. p - n \in 1 .. Len(seen) - n /\ (p - n) + n = p
        BY <1>7, <3>1
      <4>2. p - n \in DOMAIN later /\ later[p - n] = seen[p]
        BY <1>7, <4>1
      <4> QED BY <2>2, <4>2
    <3>2. CASE ~ (p > n)
      <4>1. n = 1 /\ p = 1 /\ Len(seen) >= SeenOpIds /\ Len(later) = Len(seen)
        BY <1>7, <3>2
      <4>2. ASSUME NEW q \in DOMAIN later
            PROVE  later[q] \in OthersAfter(i)'
        <5>1. later[q] # log[i].op_id /\ later[q] # NoOpId
          <6>1. later[q] \in OpId
            BY <1>7, SeqFacts
          <6>2. CASE q = m
            BY <1>1, <1>8, <2>2, <6>1, <6>2, RoomAssumption
          <6>3. CASE q # m
            <7>1. q + 1 \in DOMAIN seen /\ later[q] = seen[q + 1] /\ q + 1 # 1
              BY <1>7, <1>8, <4>1, <6>3
            <7> QED BY <1>3, <2>2, <4>1, <6>1, <7>1, RoomAssumption
          <6> QED BY <6>2, <6>3
        <5>2. later[q] = e.op_id \/ \E k \in DOMAIN log : i < k /\ log[k].op_id = later[q]
          <6>1. CASE q = m
            BY <1>0, <1>8, <6>1
          <6>2. CASE q # m
            <7>1. q + 1 \in DOMAIN seen /\ later[q] = seen[q + 1] /\ 1 < q + 1
              BY <1>7, <1>8, <4>1, <6>2
            <7> QED BY <1>3, <2>2, <4>1, <7>1
          <6> QED BY <6>1, <6>2
        <5> QED BY <1>0, <1>2, <5>1, <5>2, AddedAfter
      <4>3. Cardinality(OthersAfter(i)') \in Nat /\ Len(later) <= Cardinality(OthersAfter(i)')
        <5> DEFINE T == OthersAfter(i)'
        <5>1. T \in SUBSET OpId /\ \A q \in DOMAIN later : later[q] \in T
          BY <1>6, <4>2
        <5> HIDE DEF T
        <5>2. Cardinality(T) \in Nat /\ Len(later) <= Cardinality(T)
          BY <1>7, <1>11, <5>1, AsManyIds
        <5> QED BY <5>2 DEF T
      <4> QED BY <1>7, <4>1, <4>3, RoomAssumption
    <3> QED BY <3>1, <3>2
  <2> QED BY <1>3, <1>14, <2>1, <2>2
<1>15. \A a : Remembers(room', a) <=> \E p \in DOMAIN later : later[p] = a
  BY DEF Remembers, later
<1>16. WindowOrder'
  BY <1>11, <1>12, <1>13 DEF WindowOrder, InLog, later
<1>17. ASSUME NEW i \in DOMAIN log', Mine(i)'
       PROVE  Remembers(room', log'[i].op_id) \/ Cardinality(OthersAfter(i)') >= SeenOpIds
  <2>1. CASE i = end
    BY <1>8, <1>9, <1>15, <2>1
  <2>2. CASE i \in DOMAIN log
    <3>1. log'[i] = log[i] /\ Mine(i)
      BY <1>6, <1>17, <2>2 DEF Mine
    <3> QED BY <1>14, <1>15, <2>2, <3>1
  <2> QED BY <1>9, <2>1, <2>2
<1>18. WindowInv'
  BY <1>16, <1>17 DEF WindowInv
<1> QED BY <1>1, <1>4, <1>6, <1>10, <1>18

\* A step that leaves the room and the log alone.
LEMMA SameWindow ==
    ASSUME WindowInv, AppliedOnce, SubmissionOrder, UNCHANGED <<room, log>>
    PROVE  WindowInv' /\ AppliedOnce' /\ SubmissionOrder'
BY DEF WindowInv, WindowOrder, AppliedOnce, SubmissionOrder, FirstTime, Remembers, InLog, Mine,
       OthersAfter, OthersBetween

\* A step that forgets no verdict and puts no op on its way that was not
\* already, or waiting: what was over stays over.
Moves ==
    /\ UNCHANGED submitted
    /\ \A a : InLog(log, a) => InLog(log', a)
    /\ \A a : Waits(pending', a) => Waits(pending, a)
    /\ \A a \in Plain : Waits(pending, a) => Waits(pending', a) \/ Spent(a)
    /\ \A s \in Socket : \A a : Carries(sock'[s].up, a) => Carries(sock[s].up, a) \/ Waits(pending, a)

LEMMA MovesKeep ==
    ASSUME Moves, LineInv
    PROVE  /\ Plain' = Plain /\ Over \subseteq Over' /\ SpentOps \subseteq SpentOps'
           /\ Waiting' \subseteq Waiting
           /\ \A a \in Plain : a \in Waiting => a \in Waiting' \/ a \in SpentOps'
           /\ \A s \in Socket : \A a \in Plain :
                Carries(sock'[s].up, a) => a \in Waiting' \/ a \in SpentOps'
<1>1. Plain' = Plain
  BY DEF Moves, Plain
<1>2. ASSUME NEW a \in Plain
      PROVE  /\ a \in SpentOps => a \in SpentOps'
             /\ a \in Waiting' => a \in Waiting
             /\ a \in Waiting => a \in Waiting' \/ a \in SpentOps'
             /\ a \in SpentOps <=> Spent(a)
             /\ a \in Waiting <=> Waits(pending, a)
             /\ a \in SpentOps' <=> InLog(log', a) \/ Void(submitted[a])
  <2>1. a \in SpentOps <=> Spent(a)
    BY DEF SpentOps
  <2>2. a \in SpentOps' <=> InLog(log', a) \/ Void(submitted[a])
    BY <1>1 DEF SpentOps, Spent, Moves
  <2>3. a \in Waiting <=> Waits(pending, a)
    BY DEF Waiting
  <2>4. a \in Waiting' <=> Waits(pending', a)
    BY <1>1 DEF Waiting
  <2> QED BY <2>1, <2>2, <2>3, <2>4 DEF Moves, Spent
<1>3. ASSUME NEW s \in Socket, NEW a \in Plain, Carries(sock'[s].up, a)
      PROVE  a \in Waiting' \/ a \in SpentOps'
  <2>1. Carries(sock[s].up, a) => a \in Waiting \/ a \in SpentOps
    BY DEF LineInv, SocketLines
  <2>2. Carries(sock[s].up, a) \/ a \in Waiting
    BY <1>2, <1>3 DEF Moves
  <2> QED BY <1>2, <2>1, <2>2
<1>4. ASSUME NEW a \in Over
      PROVE  a \in Over'
  <2>1. a \in Plain /\ (Spent(a) \/ Nowhere(a))
    BY <1>4 DEF Over
  <2>2. Spent(a) => Spent(a)'
    BY <1>2, <2>1 DEF Spent, Moves
  <2>3. Nowhere(a) => Nowhere(a)'
    BY DEF Moves, Nowhere
  <2> QED BY <1>1, <2>1, <2>2, <2>3 DEF Over
<1>5. SpentOps \subseteq SpentOps' /\ Waiting' \subseteq Waiting
  <2>1. SpentOps \subseteq Plain /\ Waiting' \subseteq Plain
    BY <1>1 DEF SpentOps, Waiting
  <2> QED BY <1>2, <2>1
<1> QED BY <1>1, <1>2, <1>3, <1>4, <1>5

\* A socket whose queue of ops stays as it is, or is lost with the socket.
LEMMA LinesKept ==
    ASSUME NEW r, NEW q, NEW plain, NEW over, NEW waits, NEW spent,
           NEW more, NEW fewer, NEW known,
           SocketLines(r, plain, over, waits, spent),
           over \subseteq more, fewer \subseteq waits, spent \subseteq known,
           InLine(r.up, plain, over) => InLine(q.up, plain, over),
           \A a \in plain : Carries(q.up, a) => a \in fewer \/ a \in known,
           q.client = "open" /\ q.server # "gone" =>
             /\ r.client = "open" /\ r.server # "gone"
             /\ \A a \in plain : Carries(r.up, a) => a \in known \/ Carries(q.up, a),
           \A i \in DOMAIN q.down : Answers(q.down[i]) /\ q.down[i].op_id \in plain =>
             \/ q.down[i].op_id \in known
             \/ \E k \in DOMAIN r.down : q.down[i] = r.down[k]
    PROVE  SocketLines(q, plain, more, fewer, known)
<1>1. InLine(q.up, plain, more)
  BY InLineGrows DEF SocketLines
<1>2. ASSUME q.client = "open", q.server # "gone", NEW a \in plain, a \in fewer
      PROVE  a \in known \/ Carries(q.up, a)
  BY <1>2 DEF SocketLines
<1>3. ASSUME NEW i \in DOMAIN q.down, Answers(q.down[i]), q.down[i].op_id \in plain
      PROVE  q.down[i].op_id \in known
  BY <1>3 DEF SocketLines
<1> QED BY <1>1, <1>2, <1>3 DEF SocketLines

\* The ops that drift up.
LEMMA DriftUp ==
    ASSUME NEW r \in SocketRec, NEW q, NEW events, Drifts(r, q, events)
    PROVE  /\ \A a : Carries(q.up, a) => Carries(r.up, a)
           /\ q.server # "gone" => \A a : Carries(r.up, a) => Carries(q.up, a)
           /\ \A plain, over : InLine(r.up, plain, over) => InLine(q.up, plain, over)
           /\ \A j \in DOMAIN q.up : q.up[j].type = "op" => \E k \in DOMAIN r.up : q.up[j] = r.up[k]
<1> DEFINE up == r.up
           later == q.up
<1>0. up \in Seq(UpFrame)
  BY DEF SocketRec
<1>1. CASE later = up
  BY <1>1
<1>2. CASE later = << >> /\ q.server = "gone"
  <2>1. DOMAIN later = {} /\ \A plain, over : InLine(later, plain, over)
    BY <1>2, Emptied, InLineEmpty
  <2> QED BY <1>2, <2>1 DEF Carries
<1>3. CASE \E f \in UpFrame : f.type # "op" /\ later = Append(up, f)
  <2>1. PICK f \in UpFrame : f.type # "op" /\ later = Append(up, f)
    BY <1>3
  <2> HIDE DEF up, later
  <2>2. /\ \A a : Carries(later, a) <=> Carries(up, a)
        /\ \A plain, over : InLine(up, plain, over) => InLine(later, plain, over)
    BY <1>0, <2>1, InLineAppend
  <2>3. \A j \in DOMAIN later : later[j] = f \/ (j \in DOMAIN up /\ later[j] = up[j])
    BY <1>0, <2>1, Appended
  <2>4. \A j \in DOMAIN later : later[j].type = "op" => \E k \in DOMAIN up : later[j] = up[k]
    BY <2>1, <2>3
  <2> QED BY <2>2, <2>4 DEF up, later
<1>4. CASE up # << >> /\ up[1].type # "op" /\ later = Tail(up)
  <2> HIDE DEF up, later
  <2>1. /\ \A a : Carries(later, a) => Carries(up, a)
        /\ \A a : Carries(up, a) => Carries(later, a)
        /\ \A plain, over : InLine(up, plain, over) => InLine(later, plain, over)
    BY <1>0, <1>4, InLineTail
  <2>2. \A j \in DOMAIN later : j + 1 \in DOMAIN up /\ later[j] = up[j + 1]
    BY <1>0, <1>4, Tailed
  <2> QED BY <2>1, <2>2 DEF up, later
<1> QED BY <1>1, <1>2, <1>3, <1>4 DEF Drifts

LEMMA QuietOrder ==
    ASSUME WebInv, OrderInv, Quiet
    PROVE  OrderInv'
<1>1. UNCHANGED <<room, log, pending, submitted>> /\ \A s \in Socket : Drifts(sock[s], sock'[s], log)
  BY DEF Quiet
<1>2. ASSUME NEW s \in Socket
      PROVE  sock[s] \in SocketRec
  BY DEF WebInv, SocketInv
<1>3. ASSUME NEW s \in Socket
      PROVE  /\ \A a : Carries(sock'[s].up, a) => Carries(sock[s].up, a)
             /\ sock'[s].server # "gone" => \A a : Carries(sock[s].up, a) => Carries(sock'[s].up, a)
             /\ \A plain, over : InLine(sock[s].up, plain, over) => InLine(sock'[s].up, plain, over)
             /\ \A j \in DOMAIN sock'[s].up : sock'[s].up[j].type = "op" =>
                  \E k \in DOMAIN sock[s].up : sock'[s].up[j] = sock[s].up[k]
  <2> DEFINE r == sock[s]
             q == sock'[s]
  <2>1. r \in SocketRec /\ Drifts(r, q, log)
    BY <1>1, <1>2
  <2> HIDE DEF r, q
  <2>2. /\ \A a : Carries(q.up, a) => Carries(r.up, a)
        /\ q.server # "gone" => \A a : Carries(r.up, a) => Carries(q.up, a)
        /\ \A plain, over : InLine(r.up, plain, over) => InLine(q.up, plain, over)
        /\ \A j \in DOMAIN q.up : q.up[j].type = "op" => \E k \in DOMAIN r.up : q.up[j] = r.up[k]
    BY <2>1, DriftUp
  <2> QED BY <2>2 DEF r, q
<1>4. ASSUME NEW s \in Socket, NEW i \in DOMAIN sock'[s].down, Answers(sock'[s].down[i])
      PROVE  \/ \E k \in DOMAIN sock[s].down : sock'[s].down[i] = sock[s].down[k]
             \/ \E n \in DOMAIN log : sock'[s].down[i].op_id = log[n].op_id
  <2> DEFINE r == sock[s]
             q == sock'[s]
  <2>1. r \in SocketRec /\ Drifts(r, q, log) /\ i \in DOMAIN q.down /\ Answers(q.down[i])
    BY <1>1, <1>2, <1>4
  <2> HIDE DEF r, q
  <2>2. \/ i \in DOMAIN r.down /\ q.down[i] = r.down[i]
        \/ \E n \in DOMAIN log : q.down[i].op_id = log[n].op_id
    BY <2>1, DriftDown DEF Answers
  <2> QED BY <2>2 DEF r, q
<1>5. Moves
  BY <1>1, <1>3 DEF Moves, InLog
<1>6. LineInv
  BY DEF OrderInv
<1>7. /\ Plain' = Plain /\ Over \subseteq Over' /\ SpentOps \subseteq SpentOps' /\ Waiting' \subseteq Waiting
      /\ \A s \in Socket : \A a \in Plain : Carries(sock'[s].up, a) => a \in Waiting' \/ a \in SpentOps'
  BY <1>5, <1>6, MovesKeep
<1>8. \A n \in DOMAIN log : log[n].op_id \in Plain => log[n].op_id \in SpentOps'
  <2>1. \A n \in DOMAIN log : InLog(log, log[n].op_id)
    BY DEF InLog
  <2> QED BY <1>7, <2>1 DEF SpentOps, Spent
<1>9. ASSUME NEW s \in Socket
      PROVE  SocketLines(sock'[s], Plain, Over', Waiting', SpentOps')
  <2> DEFINE r == sock[s]
             q == sock'[s]
  <2>1. SocketLines(r, Plain, Over, Waiting, SpentOps)
    BY <1>6 DEF LineInv
  <2>2. InLine(r.up, Plain, Over) => InLine(q.up, Plain, Over)
    BY <1>3
  <2>3. \A a \in Plain : Carries(q.up, a) => a \in Waiting' \/ a \in SpentOps'
    BY <1>7
  <2>4. q.client = "open" /\ q.server # "gone" =>
          /\ r.client = "open" /\ r.server # "gone"
          /\ \A a \in Plain : Carries(r.up, a) => a \in SpentOps' \/ Carries(q.up, a)
    BY <1>1, <1>3 DEF Drifts
  <2>5. \A i \in DOMAIN q.down : Answers(q.down[i]) /\ q.down[i].op_id \in Plain =>
          q.down[i].op_id \in SpentOps' \/ \E k \in DOMAIN r.down : q.down[i] = r.down[k]
    BY <1>4, <1>8
  <2> HIDE DEF r, q
  <2>6. SocketLines(q, Plain, Over', Waiting', SpentOps')
    BY <1>7, <2>1, <2>2, <2>3, <2>4, <2>5, LinesKept
  <2> QED BY <2>6 DEF q
<1>10. LineInv'
  <2>1. \A n \in DOMAIN log' : Mine(n)' => \A a \in Plain : a < log'[n].op_id => a \in Over'
    BY <1>1, <1>6, <1>7 DEF LineInv, Mine
  <2> QED BY <1>7, <1>9, <2>1 DEF LineInv
<1>11. WindowInv' /\ AppliedOnce' /\ SubmissionOrder'
  BY <1>1, SameWindow DEF OrderInv
<1>12. MintedInv'
  <2>1. \A s \in Socket : \A j \in DOMAIN sock'[s].up :
          sock'[s].up[j].type = "op" => Minted(sock'[s].up[j], submitted')
    BY <1>1, <1>3 DEF OrderInv, MintedInv
  <2>2. \A s \in Socket : \A j \in DOMAIN sock'[s].down :
          Answers(sock'[s].down[j]) /\ sock'[s].down[j].op_id # NoOpId =>
              sock'[s].down[j].op_id \in DOMAIN submitted'
    BY <1>1, <1>4 DEF OrderInv, MintedInv, Mine, Minted
  <2> QED BY <1>1, <2>1, <2>2 DEF OrderInv, MintedInv, Mine
<1> QED BY <1>10, <1>11, <1>12 DEF OrderInv

\* An op of another device: only the log may grow, by an event that is not
\* this client's.
LEMMA OtherOrder ==
    ASSUME WebInv, OrderInv, NEW op \in SyncOp, SubmitOp(op)
    PROVE  OrderInv'
<1>1. /\ ApplyAndBroadcast(op, NoOpId) /\ UNCHANGED <<sock, pending, submitted>>
  BY DEF SubmitOp, replica
<1>2. room'.seen = room.seen
  BY <1>1 DEF ApplyAndBroadcast, ApplyWithId, Applied
<1>3. \/ log' = log
      \/ log' = Append(log, [op |-> op, op_id |-> NoOpId])
  BY <1>1 DEF ApplyAndBroadcast
<1>4. CASE log' = log
  <2>1. WindowInv' /\ AppliedOnce' /\ SubmissionOrder'
    BY <1>2, <1>4 DEF OrderInv, WindowInv, WindowOrder, AppliedOnce, SubmissionOrder, FirstTime,
                      Remembers, InLog, Mine, OthersAfter, OthersBetween
  <2>2. Plain' = Plain /\ Over' = Over /\ Waiting' = Waiting /\ SpentOps' = SpentOps
    BY <1>1, <1>4 DEF Plain, Over, Waiting, SpentOps, Spent, Nowhere, InLog
  <2>3. LineInv' /\ MintedInv'
    BY <1>1, <1>4, <2>2 DEF OrderInv, LineInv, MintedInv, Mine
  <2> QED BY <2>1, <2>3 DEF OrderInv
<1>5. CASE log' = Append(log, [op |-> op, op_id |-> NoOpId])
  <2> DEFINE e == [op |-> op, op_id |-> NoOpId]
             end == Len(log) + 1
  <2>1. log \in Seq(Logged) /\ e \in Logged /\ log' = Append(log, e) /\ e.op_id = NoOpId
    BY <1>5 DEF WebInv, RoomInv, Logged
  <2> HIDE DEF e
  <2>2. /\ Len(log) \in Nat /\ Len(log') = Len(log) + 1
        /\ DOMAIN log = 1 .. Len(log) /\ DOMAIN log' = 1 .. Len(log) + 1
        /\ log'[Len(log) + 1] = e /\ \A n \in DOMAIN log : n \in DOMAIN log' /\ log'[n] = log[n]
        /\ \A i \in DOMAIN log : \A j \in DOMAIN log' : OthersBetween(i, j)' = OthersBetween(i, j)
        /\ \A i \in DOMAIN log : Cardinality(OthersAfter(i)) <= Cardinality(OthersAfter(i)')
        /\ \A i \in DOMAIN log : Cardinality(OthersAfter(i)') \in Nat /\ Cardinality(OthersAfter(i)) \in Nat
    BY <2>1, LogGrows
  <2>3. /\ \A n \in DOMAIN log' : n \in DOMAIN log \/ (n = end /\ log'[n].op_id = NoOpId)
        /\ \A n \in DOMAIN log : n < end /\ n \in Nat
    BY <2>1, <2>2
  <2>4. \A a : a # NoOpId => (InLog(log', a) <=> InLog(log, a))
    BY <2>2, <2>3 DEF InLog
  <2>5. \A n \in DOMAIN log' : Mine(n)' => n \in DOMAIN log /\ Mine(n) /\ log'[n] = log[n]
    BY <2>2, <2>3 DEF Mine
  <2>6. NoOpId \notin Plain /\ \A p \in DOMAIN room.seen : room.seen[p] # NoOpId /\ room.seen[p] \in OpId
    <3>1. room.seen \in Seq(OpId)
      BY DEF WebInv, RoomInv, Room
    <3>2. \A p \in DOMAIN room.seen : room.seen[p] \in OpId
      BY <3>1, SeqFacts
    <3>3. Plain \subseteq OpId
      BY DEF Plain, OrderInv, MintedInv
    <3> QED BY <3>2, <3>3, RoomAssumption
  <2> HIDE DEF end
  <2>7. /\ Plain' = Plain /\ Over' = Over /\ Waiting' = Waiting /\ SpentOps' = SpentOps
    <3>1. Plain' = Plain /\ Waiting' = Waiting
      BY <1>1 DEF Plain, Waiting
    <3>2. \A a \in Plain : (Spent(a)' <=> Spent(a)) /\ (Nowhere(a)' <=> Nowhere(a))
      BY <1>1, <2>4, <2>6 DEF Spent, Nowhere
    <3> QED BY <3>1, <3>2 DEF Over, SpentOps
  <2>8. LineInv'
    <3>1. \A s \in Socket : SocketLines(sock'[s], Plain', Over', Waiting', SpentOps')
      BY <1>1, <2>7 DEF OrderInv, LineInv
    <3>2. \A n \in DOMAIN log' : Mine(n)' => \A a \in Plain' : a < log'[n].op_id => a \in Over'
      BY <2>5, <2>7 DEF OrderInv, LineInv
    <3> QED BY <3>1, <3>2 DEF LineInv
  <2>9. MintedInv'
    BY <1>1, <2>5 DEF OrderInv, MintedInv
  <2>10. WindowOrder'
    <3>1. ASSUME NEW p \in DOMAIN room.seen, NEW q \in DOMAIN room.seen, p < q,
                 NEW i \in DOMAIN log', log'[i].op_id = room.seen[p]
          PROVE  \E k \in DOMAIN log' : i < k /\ log'[k].op_id = room.seen[q]
      <4>1. i \in DOMAIN log /\ log[i].op_id = room.seen[p]
        BY <2>2, <2>3, <2>6, <3>1
      <4>2. PICK k \in DOMAIN log : i < k /\ log[k].op_id = room.seen[q]
        <5>1. \A x, y \in DOMAIN room.seen : x < y =>
                \A n \in DOMAIN log : log[n].op_id = room.seen[x] =>
                    \E k \in DOMAIN log : n < k /\ log[k].op_id = room.seen[y]
          BY DEF OrderInv, WindowInv, WindowOrder
        <5> QED BY <3>1, <4>1, <5>1
      <4>3. k \in DOMAIN log' /\ log'[k].op_id = room.seen[q]
        BY <2>2, <4>2
      <4> QED BY <4>2, <4>3
    <3>2. \A p \in DOMAIN room.seen : \E n \in DOMAIN log' : log'[n].op_id = room.seen[p]
      BY <2>2 DEF OrderInv, WindowInv, WindowOrder, InLog
    <3> QED BY <1>2, <3>1, <3>2 DEF OrderInv, WindowInv, WindowOrder, InLog
  <2>11. WindowInv'
    <3>1. ASSUME NEW i \in DOMAIN log', Mine(i)'
          PROVE  Remembers(room', log'[i].op_id) \/ Cardinality(OthersAfter(i)') >= SeenOpIds
      <4>1. i \in DOMAIN log /\ Mine(i) /\ log'[i] = log[i]
        BY <2>5, <3>1
      <4>2. Remembers(room, log[i].op_id) \/ Cardinality(OthersAfter(i)) >= SeenOpIds
        BY <4>1 DEF OrderInv, WindowInv
      <4> QED BY <1>2, <2>2, <4>1, <4>2, RoomAssumption DEF Remembers
    <3> QED BY <2>10, <3>1 DEF WindowInv
  <2>12. AppliedOnce'
    <3>1. ASSUME NEW i \in DOMAIN log', NEW j \in DOMAIN log', i < j, Mine(i)', log'[i].op_id = log'[j].op_id
          PROVE  Cardinality(OthersBetween(i, j)') >= SeenOpIds
      <4>1. Mine(j)'
        BY <3>1 DEF Mine
      <4>2. /\ i \in DOMAIN log /\ Mine(i) /\ log'[i] = log[i]
            /\ j \in DOMAIN log /\ log'[j] = log[j]
        BY <2>5, <3>1, <4>1
      <4> QED BY <2>2, <3>1, <4>2 DEF OrderInv, AppliedOnce
    <3> QED BY <3>1 DEF AppliedOnce
  <2>13. SubmissionOrder'
    <3>1. ASSUME NEW i \in DOMAIN log', NEW j \in DOMAIN log', i < j, Mine(i)', Mine(j)', FirstTime(j)',
                 {log'[i].op.type, log'[j].op.type} \cap Superseding = {}
          PROVE  log'[i].op_id < log'[j].op_id
      <4>1. /\ i \in DOMAIN log /\ Mine(i) /\ log'[i] = log[i]
            /\ j \in DOMAIN log /\ Mine(j) /\ log'[j] = log[j]
        BY <2>5, <3>1
      <4>2. FirstTime(j)
        BY <2>2, <3>1, <4>1 DEF FirstTime
      <4> QED BY <3>1, <4>1, <4>2 DEF OrderInv, SubmissionOrder
    <3> QED BY <3>1 DEF SubmissionOrder
  <2> QED BY <2>8, <2>9, <2>11, <2>12, <2>13 DEF OrderInv
<1> QED BY <1>3, <1>4, <1>5

\* A restart: nothing is on its way, and the room and its log are new.
LEMMA RestartOrder ==
    ASSUME WebInv, OrderInv, GatewayRestarts
    PROVE  OrderInv'
<1>1. /\ UNCHANGED <<pending, submitted>> /\ log' = << >> /\ room'.seen = << >>
      /\ \A t \in Socket : /\ sock'[t].up = << >> /\ sock'[t].down = << >>
                           /\ sock'[t].client = "open" => sock'[t].server = "gone"
  BY RestartSteps DEF FreshRoom
<1>2. DOMAIN log' = {} /\ DOMAIN room'.seen = {}
  BY <1>1, Emptied
<1>3. \A t \in Socket : DOMAIN sock'[t].up = {} /\ DOMAIN sock'[t].down = {}
  BY <1>1, Emptied
<1>4. \A t \in Socket : SocketLines(sock'[t], Plain', Over', Waiting', SpentOps')
  BY <1>1, <1>3 DEF SocketLines, InLine, Carries
<1>5. LineInv'
  BY <1>2, <1>4 DEF LineInv
<1>6. MintedInv'
  BY <1>1, <1>2, <1>3 DEF OrderInv, MintedInv
<1>7. WindowInv' /\ AppliedOnce' /\ SubmissionOrder'
  BY <1>2 DEF WindowInv, WindowOrder, AppliedOnce, SubmissionOrder
<1> QED BY <1>5, <1>6, <1>7 DEF OrderInv

\* The ledger is resent: a queue that starts anew is in line.
LEMMA ResentInLine ==
    ASSUME NEW ledger \in Seq(Entry), Rising(ledger), NEW up,
           up = [i \in DOMAIN ledger |-> OpFrame(ledger[i])]
    PROVE  /\ \A a : Carries(up, a) <=> Waits(ledger, a)
           /\ \A j \in DOMAIN up : j \in DOMAIN ledger /\ up[j].type = "op"
                                   /\ up[j].op_id = ledger[j].op_id /\ up[j].op = ledger[j].op
           /\ \A over : \A plain \in SUBSET OpId :
                (\A a \in plain : a \in over \/ Waits(ledger, a)) => InLine(up, plain, over)
<1>1. DOMAIN up = DOMAIN ledger
  OBVIOUS
<1>2. \A j \in DOMAIN up : /\ j \in DOMAIN ledger /\ up[j].type = "op"
                           /\ up[j].op_id = ledger[j].op_id /\ up[j].op = ledger[j].op
  BY DEF OpFrame
<1>3. \A a : Carries(up, a) <=> Waits(ledger, a)
  BY <1>1, <1>2 DEF Carries, Waits
<1>4. ASSUME NEW plain \in SUBSET OpId, NEW over, \A a \in plain : a \in over \/ Waits(ledger, a),
             NEW j \in DOMAIN up, NEW a \in plain, a < up[j].op_id, a \notin over
      PROVE  Ahead(up, j, a)
  <2>1. PICK k \in DOMAIN ledger : ledger[k].op_id = a
    BY <1>4 DEF Waits
  <2>2. j \in Nat /\ k \in Nat /\ ledger[j].op_id \in Nat /\ a \in Nat
    <3>1. Len(ledger) \in Nat /\ DOMAIN ledger = 1 .. Len(ledger) /\ \A i \in DOMAIN ledger : ledger[i] \in Entry
      BY SeqFacts
    <3>2. OpId \subseteq Nat
      BY WebAssumption
    <3>3. j \in DOMAIN ledger /\ a \in OpId
      BY <1>2, <1>4
    <3>4. ledger[j].op_id \in OpId
      BY <3>1, <3>3 DEF Entry
    <3>5. DOMAIN ledger \subseteq Nat
      BY <3>1
    <3> QED BY <3>2, <3>3, <3>4, <3>5
  <2>3. a < ledger[j].op_id
    BY <1>2, <1>4
  <2>4. k < j
    BY <1>1, <1>4, <2>1, <2>2, <2>3 DEF Rising
  <2> QED BY <1>1, <1>2, <2>1, <2>4 DEF Ahead
<1> QED BY <1>2, <1>3, <1>4 DEF InLine

\* What neither waits nor is over would be on its way, and so spent.
LEMMA OverOrWaiting ==
    ASSUME LineInv, NEW a \in Plain
    PROVE  a \in Over \/ Waits(pending, a)
<1> SUFFICES ASSUME ~ Waits(pending, a)
             PROVE  Spent(a) \/ Nowhere(a)
  BY DEF Over
<1>1. \A t \in Socket : Carries(sock[t].up, a) => a \in Waiting \/ a \in SpentOps
  BY DEF LineInv, SocketLines
<1> QED BY <1>1 DEF Waiting, SpentOps, Nowhere

LEMMA OpenOrder ==
    ASSUME WebInv, OrderInv, NEW s \in Socket, OnOpen(s)
    PROVE  OrderInv'
<1> DEFINE q == sock'[s]
<1>1. /\ UNCHANGED <<room, log, pending, submitted>> /\ sock[s].up = << >>
      /\ q.up = [i \in DOMAIN pending |-> OpFrame(pending[i])] /\ q.down = sock[s].down
      /\ \A t \in Socket : t # s => sock'[t] = sock[t]
  BY OpenSteps
<1>2. pending \in Seq(Entry) /\ Rising(pending) /\ Plain \subseteq OpId
  BY DEF WebInv, OrderInv, MintedInv, Plain
<1>3. /\ \A a : Carries(q.up, a) <=> Waits(pending, a)
      /\ \A j \in DOMAIN q.up : j \in DOMAIN pending /\ q.up[j].type = "op"
                                /\ q.up[j].op_id = pending[j].op_id /\ q.up[j].op = pending[j].op
      /\ \A over : \A plain \in SUBSET OpId :
           (\A a \in plain : a \in over \/ Waits(pending, a)) => InLine(q.up, plain, over)
  <2> DEFINE up == q.up
  <2>1. up = [i \in DOMAIN pending |-> OpFrame(pending[i])]
    BY <1>1
  <2> HIDE DEF up
  <2>2. /\ \A a : Carries(up, a) <=> Waits(pending, a)
        /\ \A j \in DOMAIN up : j \in DOMAIN pending /\ up[j].type = "op"
                                /\ up[j].op_id = pending[j].op_id /\ up[j].op = pending[j].op
        /\ \A over : \A plain \in SUBSET OpId :
             (\A a \in plain : a \in over \/ Waits(pending, a)) => InLine(up, plain, over)
    BY <1>2, <2>1, ResentInLine
  <2> QED BY <2>2 DEF up
<1>4. Moves
  BY <1>1, <1>3 DEF Moves, InLog
<1>5. LineInv
  BY DEF OrderInv
<1>6. /\ Plain' = Plain /\ Over \subseteq Over' /\ SpentOps \subseteq SpentOps' /\ Waiting' \subseteq Waiting
      /\ \A t \in Socket : \A a \in Plain : Carries(sock'[t].up, a) => a \in Waiting' \/ a \in SpentOps'
  BY <1>4, <1>5, MovesKeep
<1>7. \A a \in Plain : a \in Over \/ Waits(pending, a)
  BY <1>5, OverOrWaiting
<1>8. SocketLines(q, Plain, Over', Waiting', SpentOps')
  <2>1. InLine(q.up, Plain, Over')
    BY <1>2, <1>3, <1>6, <1>7
  <2>2. \A a \in Plain : a \in Waiting' => Carries(q.up, a)
    BY <1>1, <1>3, <1>6 DEF Waiting
  <2>3. \A i \in DOMAIN q.down : Answers(q.down[i]) /\ q.down[i].op_id \in Plain => q.down[i].op_id \in SpentOps'
    BY <1>1, <1>5, <1>6 DEF LineInv, SocketLines
  <2> QED BY <1>6, <2>1, <2>2, <2>3 DEF SocketLines
<1>9. ASSUME NEW t \in Socket, t # s
      PROVE  SocketLines(sock'[t], Plain, Over', Waiting', SpentOps')
  <2> DEFINE r == sock[t]
  <2>1. SocketLines(r, Plain, Over, Waiting, SpentOps) /\ sock'[t] = r
    BY <1>1, <1>5, <1>9 DEF LineInv
  <2>2. \A a \in Plain : Carries(r.up, a) => a \in Waiting' \/ a \in SpentOps'
    BY <1>6, <2>1
  <2> HIDE DEF r
  <2>3. SocketLines(r, Plain, Over', Waiting', SpentOps')
    BY <1>6, <2>1, <2>2, LinesKept
  <2> QED BY <2>1, <2>3
<1>10. LineInv'
  <2>1. \A n \in DOMAIN log' : Mine(n)' => \A a \in Plain : a < log'[n].op_id => a \in Over'
    BY <1>1, <1>5, <1>6 DEF LineInv, Mine
  <2> QED BY <1>6, <1>8, <1>9, <2>1 DEF LineInv
<1>11. WindowInv' /\ AppliedOnce' /\ SubmissionOrder'
  BY <1>1, SameWindow DEF OrderInv
<1>12. MintedInv'
  <2>1. \A t \in Socket : \A j \in DOMAIN sock'[t].up :
          sock'[t].up[j].type = "op" => Minted(sock'[t].up[j], submitted')
    BY <1>1, <1>3 DEF OrderInv, MintedInv, Minted
  <2>2. \A t \in Socket : sock'[t].down = sock[t].down
    BY <1>1
  <2> QED BY <1>1, <2>1, <2>2 DEF OrderInv, MintedInv, Mine
<1> QED BY <1>10, <1>11, <1>12 DEF OrderInv

\* An answer settles an op: one that is not replaced is spent.
LEMMA MessageOrder ==
    ASSUME WebInv, OrderInv, NEW s \in Socket, OnMessage(s)
    PROVE  OrderInv'
<1> DEFINE r == sock[s]
           q == sock'[s]
           msg == r.down[1]
<1>1. /\ UNCHANGED <<room, log, submitted>> /\ r.down \in Seq(DownFrame) /\ r.down # << >>
      /\ 1 \in DOMAIN r.down /\ q.down = Tail(r.down) /\ q.up = r.up
      /\ q.client = r.client /\ q.server = r.server
      /\ \A t \in Socket : t # s => sock'[t] = sock[t]
      /\ pending' = IF Answers(msg) THEN SettlePending(pending, msg.op_id) ELSE pending
  BY MessageSteps DEF Answers
<1>2. LineInv /\ pending \in Seq(Entry)
  BY DEF OrderInv, WebInv
<1>3. Answers(msg) /\ msg.op_id \in Plain => Spent(msg.op_id)
  BY <1>1, <1>2 DEF LineInv, SocketLines, SpentOps
<1>4. \A i \in DOMAIN q.down : \E k \in DOMAIN r.down : q.down[i] = r.down[k]
  BY <1>1, Tailed
<1>5. ASSUME NEW t \in Socket
       PROVE  /\ sock'[t].up = sock[t].up /\ sock'[t].client = sock[t].client
              /\ sock'[t].server = sock[t].server
              /\ \A i \in DOMAIN sock'[t].down : \E k \in DOMAIN sock[t].down : sock'[t].down[i] = sock[t].down[k]
  <2>1. CASE t = s
    <3>1. q.up = r.up /\ q.client = r.client /\ q.server = r.server
      BY <1>1
    <3> QED BY <1>4, <2>1, <3>1
  <2>2. CASE t # s
    <3>1. sock'[t] = sock[t]
      BY <1>1, <2>2
    <3> QED BY <3>1
  <2> QED BY <2>1, <2>2
<1>6. /\ Rising(pending')
      /\ \A n \in DOMAIN pending' : \E i \in DOMAIN pending : pending'[n] = pending[i]
      /\ \A i \in DOMAIN pending :
           (Answers(msg) /\ pending[i].op_id = msg.op_id) \/ \E n \in DOMAIN pending' : pending'[n] = pending[i]
  <2> DEFINE later == pending'
             id == msg.op_id
  <2>1. CASE Answers(msg)
    <3>1. later = SettlePending(pending, id)
      BY <1>1, <2>1
    <3>2. Rising(pending)
      BY DEF OrderInv, MintedInv
    <3> HIDE DEF later, id
    <3>3. PICK place \in [DOMAIN later -> DOMAIN pending] :
            /\ \A n \in DOMAIN later : later[n] = pending[place[n]] /\ later[n].op_id # id
            /\ \A m, n \in DOMAIN later : m < n => place[m] < place[n]
      BY <1>2, <3>1, SettleFacts
    <3>4. Rising(later)
      BY <3>2, <3>3 DEF Rising
    <3>5. \A i \in DOMAIN pending : pending[i].op_id # id => \E n \in DOMAIN later : later[n] = pending[i]
      BY <1>2, <3>1, SettleFacts
    <3> QED BY <2>1, <3>3, <3>4, <3>5 DEF later, id
  <2>2. CASE ~ Answers(msg)
    BY <1>1, <2>2 DEF OrderInv, MintedInv
  <2> QED BY <2>1, <2>2
<1>7. Moves
  <2>1. \A a : Waits(pending', a) => Waits(pending, a)
    BY <1>6 DEF Waits
  <2>2. \A a \in Plain : Waits(pending, a) => Waits(pending', a) \/ Spent(a)
    BY <1>3, <1>6 DEF Waits
  <2>3. \A t \in Socket : sock'[t].up = sock[t].up
    BY <1>1
  <2> QED BY <1>1, <2>1, <2>2, <2>3 DEF Moves, InLog
<1>8. /\ Plain' = Plain /\ Over \subseteq Over' /\ SpentOps \subseteq SpentOps' /\ Waiting' \subseteq Waiting
      /\ \A t \in Socket : \A a \in Plain : Carries(sock'[t].up, a) => a \in Waiting' \/ a \in SpentOps'
  BY <1>2, <1>7, MovesKeep
<1>9. ASSUME NEW t \in Socket
      PROVE  SocketLines(sock'[t], Plain, Over', Waiting', SpentOps')
  <2> DEFINE old == sock[t]
             new == sock'[t]
  <2>1. SocketLines(old, Plain, Over, Waiting, SpentOps)
    BY <1>2 DEF LineInv
  <2>2. /\ new.up = old.up /\ new.client = old.client /\ new.server = old.server
        /\ \A i \in DOMAIN new.down : \E k \in DOMAIN old.down : new.down[i] = old.down[k]
    BY <1>5
  <2>3. \A a \in Plain : Carries(new.up, a) => a \in Waiting' \/ a \in SpentOps'
    BY <1>8
  <2> HIDE DEF old, new
  <2>4. SocketLines(new, Plain, Over', Waiting', SpentOps')
    BY <1>8, <2>1, <2>2, <2>3, LinesKept
  <2> QED BY <2>4 DEF new
<1>10. LineInv'
  <2>1. \A n \in DOMAIN log' : Mine(n)' => \A a \in Plain : a < log'[n].op_id => a \in Over'
    BY <1>1, <1>2, <1>8 DEF LineInv, Mine
  <2> QED BY <1>8, <1>9, <2>1 DEF LineInv
<1>11. WindowInv' /\ AppliedOnce' /\ SubmissionOrder'
  BY <1>1, SameWindow DEF OrderInv
<1>12. MintedInv'
  <2>1. \A t \in Socket : sock'[t].up = sock[t].up
    BY <1>1
  <2>2. \A t \in Socket : \A j \in DOMAIN sock'[t].down : \E k \in DOMAIN sock[t].down :
          sock'[t].down[j] = sock[t].down[k]
    BY <1>5
  <2>3. \A t \in Socket : \A j \in DOMAIN sock'[t].down :
          Answers(sock'[t].down[j]) /\ sock'[t].down[j].op_id # NoOpId =>
              sock'[t].down[j].op_id \in DOMAIN submitted
    BY <2>2 DEF OrderInv, MintedInv
  <2>4. \A n \in DOMAIN pending' : Minted(pending'[n], submitted)
    BY <1>6 DEF OrderInv, MintedInv
  <2> QED BY <1>1, <1>6, <2>1, <2>3, <2>4 DEF OrderInv, MintedInv, Mine
<1> QED BY <1>10, <1>11, <1>12 DEF OrderInv

\* The room decides about the first op of a queue.
LEMMA DecidedOrder ==
    ASSUME WebInv, OrderInv, NEW s \in Socket, HandleClientText(s),
           Head(sock[s].up).type = "op"
    PROVE  OrderInv'
<1> DEFINE r == sock[s]
           q == sock'[s]
           msg == r.up[1]
           op == msg.op
           id == msg.op_id
<1>1. /\ UNCHANGED <<pending, submitted>> /\ r.up \in Seq(UpFrame) /\ r.up # << >>
      /\ msg.type = "op" /\ id \in OpId /\ op \in SyncOp /\ ApplyAndBroadcast(op, id)
      /\ q.up = Tail(r.up) /\ q.client = r.client /\ q.server = r.server
      /\ \A t \in Socket : t # s => sock'[t] = sock[t]
  BY OpSteps
<1>2. \/ q.down = r.down
      \/ \E f \in DownFrame : q.down = Append(r.down, f) /\ f.op_id = id
  BY OpSteps
<1>3. /\ 1 \in DOMAIN r.up /\ DOMAIN r.up \subseteq Nat \ {0}
      /\ r.down \in Seq(DownFrame)
  <2>1. 1 \in DOMAIN r.up /\ Len(r.up) \in Nat /\ DOMAIN r.up = 1 .. Len(r.up)
    BY <1>1, TailFacts
  <2>2. r.down \in Seq(DownFrame)
    BY DEF WebInv, SocketInv, SocketRec
  <2> QED BY <2>1, <2>2
<1>4. Minted(msg, submitted) /\ id # NoOpId
  BY <1>1, <1>3, RoomAssumption DEF OrderInv, MintedInv
<1>5. Carries(r.up, id)
  BY <1>1, <1>3 DEF Carries
<1> HIDE DEF msg, op, id
<1>6. /\ \A a : InLog(log, a) => InLog(log', a)
      /\ Accepted(room, op, id) => InLog(log', id)
      /\ ~ Accepted(room, op, id) => room' = room /\ log' = log
  <2>1. CASE Accepted(room, op, id)
    BY <1>1, <2>1, WindowAfter DEF WebInv, OrderInv
  <2>2. CASE ~ Accepted(room, op, id)
    BY <1>1, <2>2 DEF ApplyAndBroadcast, ApplyWithId, InLog
  <2> QED BY <2>1, <2>2
<1>7. id \in Plain => InLog(log', id) \/ Void(submitted[id])
  <2>1. CASE Accepted(room, op, id)
    BY <1>6, <2>1
  <2>2. CASE ~ Accepted(room, op, id) /\ Duplicate(room, id)
    <3>1. InLog(log, id)
      BY <2>2 DEF Duplicate, Remembers, OrderInv, WindowInv, WindowOrder
    <3> QED BY <1>6, <3>1
  <2>3. CASE ~ Accepted(room, op, id) /\ ~ Duplicate(room, id)
    <3>1. Rejected(room.playback, op) /\ op = submitted[id]
      BY <1>4, <2>3 DEF Accepted, Minted, op, id
    <3>2. id \in Plain => op.type # "set_now_playing"
      BY <3>1 DEF Plain, Superseding
    <3> QED BY <3>1, <3>2 DEF Rejected, Void
  <2> QED BY <2>1, <2>2, <2>3
<1>8. /\ \A a : Carries(q.up, a) => Carries(r.up, a)
      /\ \A a : Carries(r.up, a) => Carries(q.up, a) \/ a = id
      /\ \A over : InLine(r.up, Plain, over) /\ (id \in Plain => id \in over) => InLine(q.up, Plain, over)
  <2> DEFINE up == r.up
             later == q.up
  <2>1. up \in Seq(UpFrame) /\ up # << >> /\ later = Tail(up) /\ up[1].type = "op" /\ up[1].op_id = id
    BY <1>1 DEF msg, id
  <2> HIDE DEF up, later
  <2>2. /\ \A a : Carries(later, a) => Carries(up, a)
        /\ \A a : Carries(up, a) => Carries(later, a) \/ (up[1].type = "op" /\ up[1].op_id = a)
        /\ \A plain, over :
             InLine(up, plain, over) /\ (up[1].type = "op" /\ up[1].op_id \in plain => up[1].op_id \in over)
             => InLine(later, plain, over)
    BY <2>1, InLineTail
  <2> QED BY <2>1, <2>2 DEF up, later
<1>9. Moves
  <2>1. ASSUME NEW t \in Socket, NEW a, Carries(sock'[t].up, a)
        PROVE  Carries(sock[t].up, a)
    BY <1>1, <1>8, <2>1
  <2> QED BY <1>1, <1>6, <2>1 DEF Moves
<1>10. LineInv
  BY DEF OrderInv
<1>11. /\ Plain' = Plain /\ Over \subseteq Over' /\ SpentOps \subseteq SpentOps' /\ Waiting' \subseteq Waiting
       /\ \A t \in Socket : \A a \in Plain : Carries(sock'[t].up, a) => a \in Waiting' \/ a \in SpentOps'
  BY <1>9, <1>10, MovesKeep
<1>12. id \in Plain => id \in SpentOps' /\ id \in Over'
  BY <1>1, <1>7, <1>11 DEF SpentOps, Over, Spent
<1>13. SocketLines(r, Plain, Over, Waiting, SpentOps)
  BY <1>10 DEF LineInv
<1>14. SocketLines(q, Plain, Over', Waiting', SpentOps')
  <2>1. InLine(q.up, Plain, Over')
    <3>1. InLine(r.up, Plain, Over')
      BY <1>11, <1>13, InLineGrows DEF SocketLines
    <3> QED BY <1>8, <1>12, <3>1
  <2>2. q.client = "open" /\ q.server # "gone" =>
          \A a \in Plain : a \in Waiting' => a \in SpentOps' \/ Carries(q.up, a)
    BY <1>1, <1>8, <1>11, <1>12, <1>13 DEF SocketLines
  <2>3. \A i \in DOMAIN q.down : (i \in DOMAIN r.down /\ q.down[i] = r.down[i]) \/ q.down[i].op_id = id
    <3>1. CASE q.down = r.down
      BY <3>1
    <3>2. CASE \E f \in DownFrame : q.down = Append(r.down, f) /\ f.op_id = id
      BY <1>3, <3>2, Appended
    <3> QED BY <1>2, <3>1, <3>2
  <2>4. \A i \in DOMAIN q.down : Answers(q.down[i]) /\ q.down[i].op_id \in Plain => q.down[i].op_id \in SpentOps'
    BY <1>11, <1>12, <1>13, <2>3 DEF SocketLines
  <2> QED BY <1>11, <2>1, <2>2, <2>4 DEF SocketLines
<1>15. ASSUME NEW t \in Socket, t # s
       PROVE  SocketLines(sock'[t], Plain, Over', Waiting', SpentOps')
  <2> DEFINE u == sock[t]
  <2>1. SocketLines(u, Plain, Over, Waiting, SpentOps) /\ sock'[t] = u
    BY <1>1, <1>10, <1>15 DEF LineInv
  <2>2. \A a \in Plain : Carries(u.up, a) => a \in Waiting' \/ a \in SpentOps'
    BY <1>11, <2>1
  <2> HIDE DEF u
  <2>3. SocketLines(u, Plain, Over', Waiting', SpentOps')
    BY <1>11, <2>1, <2>2, LinesKept
  <2> QED BY <2>1, <2>3
\* What was submitted before the op is over.
<1>16. \A a \in Plain : a < id => a \in Over
  <2>1. \A a \in Plain : a < id => a \in Over \/ Ahead(r.up, 1, a)
    BY <1>1, <1>3, <1>13 DEF SocketLines, InLine, msg, id
  <2>2. \A a : ~ Ahead(r.up, 1, a)
    BY <1>3 DEF Ahead
  <2> QED BY <2>1, <2>2
<1>17. \A n \in DOMAIN log' :
         \/ n \in DOMAIN log /\ log'[n] = log[n]
         \/ log'[n] = [op |-> op, op_id |-> id] /\ Accepted(room, op, id) /\ n = Len(log) + 1
  <2>1. CASE Accepted(room, op, id)
    <3>1. /\ Len(log) \in Nat /\ DOMAIN log = 1 .. Len(log) /\ DOMAIN log' = 1 .. Len(log) + 1
          /\ log'[Len(log) + 1] = [op |-> op, op_id |-> id] /\ \A n \in DOMAIN log : log'[n] = log[n]
      BY <1>1, <2>1, WindowAfter DEF WebInv, OrderInv
    <3>2. \A n \in DOMAIN log' : n \in DOMAIN log \/ n = Len(log) + 1
      BY <3>1
    <3> QED BY <2>1, <3>1, <3>2
  <2>2. CASE ~ Accepted(room, op, id)
    BY <1>6, <2>2
  <2> QED BY <2>1, <2>2
<1>18. LineInv'
  <2>1. ASSUME NEW n \in DOMAIN log', Mine(n)', NEW a \in Plain, a < log'[n].op_id
        PROVE  a \in Over'
    <3>1. CASE n \in DOMAIN log /\ log'[n] = log[n]
      BY <1>10, <1>11, <2>1, <3>1 DEF LineInv, Mine
    <3>2. CASE log'[n] = [op |-> op, op_id |-> id]
      BY <1>11, <1>16, <2>1, <3>2
    <3> QED BY <1>17, <3>1, <3>2
  <2> QED BY <1>11, <1>14, <1>15, <2>1 DEF LineInv
\* An op that is accepted for the first time follows what was submitted before.
<1>19. ASSUME Accepted(room, op, id), ~ InLog(log, id), id \in Plain, NEW i \in DOMAIN log, Mine(i)
       PROVE  log[i].op_id < id
  <2>1. ~ Rejected(room.playback, op)
    BY <1>19 DEF Accepted
  <2>2. log[i].op_id # id
    BY <1>19 DEF InLog
  <2>3. ~ Void(submitted[id])
    BY <1>4, <2>1 DEF Rejected, Void, Minted, op, id
  <2>4. id \notin Over
    BY <1>5, <1>19, <2>3 DEF Over, Spent, Nowhere
  <2>5. ~ (id < log[i].op_id)
    BY <1>10, <1>19, <2>4 DEF LineInv
  <2>6. log[i].op_id \in Nat /\ id \in Nat
    <3>1. OpId \subseteq Nat
      BY WebAssumption
    <3>2. log[i].op_id \in OpId
      BY <1>19 DEF OrderInv, MintedInv, Minted
    <3> QED BY <1>1, <3>1, <3>2
  <2> QED BY <2>2, <2>5, <2>6
<1>20. ASSUME Accepted(room, op, id)
       PROVE  WindowInv' /\ AppliedOnce' /\ SubmissionOrder'
  <2>0. /\ ~ Remembers(room, id) /\ WindowInv'
        /\ Len(log) \in Nat /\ DOMAIN log = 1 .. Len(log) /\ DOMAIN log' = 1 .. Len(log) + 1
        /\ log'[Len(log) + 1] = [op |-> op, op_id |-> id]
        /\ \A n \in DOMAIN log : n \in DOMAIN log' /\ log'[n] = log[n]
        /\ \A i \in DOMAIN log : \A j \in DOMAIN log' : OthersBetween(i, j)' = OthersBetween(i, j)
    BY <1>1, <1>20, WindowAfter DEF WebInv, OrderInv
  <2>1. \A i, j \in DOMAIN log' : i < j =>
          i \in DOMAIN log /\ log'[i] = log[i] /\ (j \in DOMAIN log \/ j = Len(log) + 1)
    BY <2>0
  <2>2. ASSUME NEW i \in DOMAIN log', NEW j \in DOMAIN log', i < j, Mine(i)', log'[i].op_id = log'[j].op_id
        PROVE  Cardinality(OthersBetween(i, j)') >= SeenOpIds
    <3>1. i \in DOMAIN log /\ log'[i] = log[i] /\ Mine(i) /\ OthersBetween(i, j)' = OthersBetween(i, j)
      BY <2>0, <2>1, <2>2 DEF Mine
    <3>2. CASE j \in DOMAIN log
      <4>1. log'[j] = log[j]
        BY <2>0, <3>2
      <4> QED BY <2>2, <3>1, <3>2, <4>1 DEF OrderInv, AppliedOnce
    <3>3. CASE j = Len(log) + 1
      <4>1. log[i].op_id = id
        BY <2>0, <2>2, <3>1, <3>3
      <4>2. Cardinality(OthersAfter(i)) >= SeenOpIds
        BY <2>0, <3>1, <4>1 DEF OrderInv, WindowInv
      <4> QED BY <3>1, <3>3, <4>2 DEF OthersAfter
    <3> QED BY <2>1, <2>2, <3>2, <3>3
  <2>3. ASSUME NEW i \in DOMAIN log', NEW j \in DOMAIN log', i < j, Mine(i)', Mine(j)', FirstTime(j)',
               {log'[i].op.type, log'[j].op.type} \cap Superseding = {}
        PROVE  log'[i].op_id < log'[j].op_id
    <3>1. i \in DOMAIN log /\ log'[i] = log[i] /\ Mine(i)
      BY <2>1, <2>3 DEF Mine
    <3>2. CASE j \in DOMAIN log
      <4>1. log'[j] = log[j] /\ Mine(j)
        BY <2>0, <2>3, <3>2 DEF Mine
      <4>2. FirstTime(j)
        BY <2>0, <2>3, <3>2, <4>1 DEF FirstTime
      <4> QED BY <2>3, <3>1, <3>2, <4>1, <4>2 DEF OrderInv, SubmissionOrder
    <3>3. CASE j = Len(log) + 1
      <4>1. log'[j].op_id = id /\ log'[j].op = op
        BY <2>0, <3>3
      <4>2. id \in Plain
        BY <1>4, <2>3, <4>1 DEF Plain, Minted, op, id
      <4>3. ~ InLog(log, id)
        <5>1. \A k \in DOMAIN log : k < j /\ log'[k].op_id # log'[j].op_id
          BY <2>0, <2>3, <3>3 DEF FirstTime
        <5> QED BY <2>0, <4>1, <5>1 DEF InLog
      <4> QED BY <1>19, <1>20, <3>1, <4>1, <4>2, <4>3
    <3> QED BY <2>1, <2>3, <3>2, <3>3
  <2> QED BY <2>0, <2>2, <2>3 DEF AppliedOnce, SubmissionOrder
<1>21. ASSUME ~ Accepted(room, op, id)
       PROVE  WindowInv' /\ AppliedOnce' /\ SubmissionOrder'
  BY <1>6, <1>21, SameWindow DEF OrderInv
<1>22. WindowInv' /\ AppliedOnce' /\ SubmissionOrder'
  BY <1>20, <1>21
<1>23. MintedInv'
  <2>1. ASSUME NEW t \in Socket, NEW j \in DOMAIN sock'[t].up, sock'[t].up[j].type = "op"
        PROVE  Minted(sock'[t].up[j], submitted)
    <3>1. \E k \in DOMAIN sock[t].up : sock'[t].up[j] = sock[t].up[k]
      <4>1. CASE t = s
        <5>1. \A n \in DOMAIN q.up : n + 1 \in DOMAIN r.up /\ q.up[n] = r.up[n + 1]
          BY <1>1, Tailed
        <5> QED BY <2>1, <4>1, <5>1
      <4>2. CASE t # s
        <5>1. sock'[t] = sock[t]
          BY <1>1, <4>2
        <5> QED BY <2>1, <5>1
      <4> QED BY <4>1, <4>2
    <3> QED BY <2>1, <3>1 DEF OrderInv, MintedInv
  <2>2. ASSUME NEW t \in Socket, NEW j \in DOMAIN sock'[t].down, Answers(sock'[t].down[j]),
               sock'[t].down[j].op_id # NoOpId
        PROVE  sock'[t].down[j].op_id \in DOMAIN submitted
    <3>1. (\E k \in DOMAIN sock[t].down : sock'[t].down[j] = sock[t].down[k]) \/ sock'[t].down[j].op_id = id
      <4>1. CASE t = s /\ q.down = r.down
        BY <2>2, <4>1
      <4>2. CASE t = s /\ \E f \in DownFrame : q.down = Append(r.down, f) /\ f.op_id = id
        <5>1. \A i \in DOMAIN q.down : (i \in DOMAIN r.down /\ q.down[i] = r.down[i]) \/ q.down[i].op_id = id
          BY <1>3, <4>2, Appended
        <5> QED BY <2>2, <4>2, <5>1
      <4>3. CASE t # s
        <5>1. sock'[t] = sock[t]
          BY <1>1, <4>3
        <5> QED BY <2>2, <5>1
      <4> QED BY <1>2, <4>1, <4>2, <4>3
    <3>2. id \in DOMAIN submitted
      BY <1>4 DEF Minted, id
    <3> QED BY <2>2, <3>1, <3>2 DEF OrderInv, MintedInv
  <2>3. ASSUME NEW n \in DOMAIN log', Mine(n)'
        PROVE  Minted(log'[n], submitted)
    <3>1. CASE n \in DOMAIN log /\ log'[n] = log[n]
      BY <2>3, <3>1 DEF OrderInv, MintedInv, Mine
    <3>2. CASE log'[n] = [op |-> op, op_id |-> id]
      BY <1>4, <3>2 DEF Minted, op, id
    <3> QED BY <1>17, <3>1, <3>2
  <2> QED BY <1>1, <2>1, <2>2, <2>3 DEF OrderInv, MintedInv
<1> QED BY <1>18, <1>22, <1>23 DEF OrderInv

\* The ledger keeps its order when an op joins it.
LEMMA EnqueuedRising ==
    ASSUME NEW ledger \in Seq(Entry), NEW next \in Entry, Rising(ledger), NEW later,
           later = EnqueuePending(ledger, next),
           \A i \in DOMAIN ledger : ledger[i].op_id < next.op_id
    PROVE  /\ Rising(later) /\ \E k \in DOMAIN later : later[k] = next
           /\ \A k \in DOMAIN later : later[k] = next \/ \E i \in DOMAIN ledger : later[k] = ledger[i]
<1> DEFINE r == EnqueuePending(ledger, next)
           m == Len(r)
<1>1. /\ m \in Nat \ {0} /\ DOMAIN r = 1 .. m /\ r[m] = next
      /\ \A i \in 1 .. m - 1 : i \in DOMAIN ledger /\ r[i] = ledger[i]
  BY EnqueueFacts
<1> HIDE DEF r, m
<1>2. m \in DOMAIN r /\ \A i \in DOMAIN r : i = m \/ (i < m /\ i \in DOMAIN ledger /\ r[i] = ledger[i])
  BY <1>1
<1>3. \A i, j \in DOMAIN r : i < j => i # m
  BY <1>1
<1>4. Rising(r)
  <2>1. ASSUME NEW i \in DOMAIN r, NEW j \in DOMAIN r, i < j
        PROVE  r[i].op_id < r[j].op_id
    <3>1. i \in DOMAIN ledger /\ r[i] = ledger[i]
      BY <1>2, <1>3, <2>1
    <3> QED BY <1>1, <1>2, <2>1, <3>1 DEF Rising
  <2> QED BY <2>1 DEF Rising
<1> QED BY <1>1, <1>2, <1>4 DEF r

\* A submission.  What was submitted before is where it was; the new op waits,
\* and is sent on the open socket after everything that is not over.
LEMMA SubmitOrder ==
    ASSUME WebInv, OrderInv, NEW op \in SyncOp, Submit(op)
    PROVE  OrderInv'
<1> DEFINE n == Len(submitted) + 1
           entry == [op_id |-> n, op |-> op]
           frame == OpFrame(entry)
<1>1. /\ entry \in Entry /\ Len(submitted) \in Nat
      /\ \A t \in Socket :
           /\ sock'[t].client = sock[t].client /\ sock'[t].server = sock[t].server
           /\ sock'[t].down = sock[t].down
           /\ sock'[t].up = IF Hears(t) THEN Append(sock[t].up, frame) ELSE sock[t].up
  BY SubmitSteps
<1>2. /\ pending' = EnqueuePending(pending, entry) /\ submitted' = Append(submitted, op)
      /\ UNCHANGED <<room, log>>
  BY DEF Submit, gateway
<1>3. /\ frame.type = "op" /\ frame.op_id = n /\ frame.op = op
      /\ entry.op_id = n /\ entry.op = op /\ n \in OpId /\ frame \in UpFrame
  BY <1>1 DEF OpFrame, Entry, UpFrame
<1>4. /\ pending \in Seq(Entry) /\ LineInv /\ submitted \in Seq(SyncOp)
      /\ \A t \in Socket : sock[t].up \in Seq(UpFrame)
  BY DEF WebInv, OrderInv, SocketInv, SocketRec
<1>5. /\ DOMAIN submitted' = DOMAIN submitted \cup {n} /\ n \notin DOMAIN submitted /\ n \in Nat
      /\ \A a \in DOMAIN submitted : a < n /\ submitted'[a] = submitted[a]
      /\ submitted'[n] = op
  <2> DEFINE k == Len(submitted)
  <2>1. /\ k \in Nat /\ DOMAIN submitted = 1 .. k /\ DOMAIN submitted' = 1 .. k + 1
        /\ submitted'[k + 1] = op /\ \A a \in 1 .. k : submitted'[a] = submitted[a]
    BY <1>2, <1>4, AppendFacts, SeqFacts
  <2> HIDE DEF k
  <2>2. /\ 1 .. k + 1 = (1 .. k) \cup {k + 1} /\ k + 1 \notin 1 .. k /\ k + 1 \in Nat
        /\ \A a \in 1 .. k : a < k + 1
    BY <2>1
  <2> QED BY <2>1, <2>2 DEF k
<1> HIDE DEF n, entry, frame
<1>6. /\ \A a \in Plain : a \in DOMAIN submitted /\ a # n /\ a < n /\ a \in Plain'
      /\ \A a \in Plain' : a \in Plain \/ a = n
  BY <1>5 DEF Plain
<1>7. /\ Rising(pending') /\ \E k \in DOMAIN pending' : pending'[k] = entry
      /\ \A k \in DOMAIN pending' :
           pending'[k] = entry \/ \E i \in DOMAIN pending : pending'[k] = pending[i]
  <2>1. Rising(pending) /\ \A i \in DOMAIN pending : pending[i].op_id < entry.op_id
    BY <1>3, <1>5 DEF OrderInv, MintedInv, Minted
  <2> DEFINE later == pending'
  <2>2. later = EnqueuePending(pending, entry)
    BY <1>2
  <2> HIDE DEF later
  <2>3. /\ Rising(later) /\ \E k \in DOMAIN later : later[k] = entry
        /\ \A k \in DOMAIN later : later[k] = entry \/ \E i \in DOMAIN pending : later[k] = pending[i]
    BY <1>1, <1>4, <2>1, <2>2, EnqueuedRising
  <2> QED BY <2>3 DEF later
<1>8. ASSUME NEW a \in Plain
      PROVE  Waits(pending', a) <=> Waits(pending, a)
  <2>1. Waits(pending', a) => Waits(pending, a)
    BY <1>3, <1>6, <1>7 DEF Waits
  <2>2. ASSUME NEW i \in DOMAIN pending, pending[i].op_id = a
        PROVE  Waits(pending', a)
    <3>1. pending[i].op.type \notin Superseding
      BY <2>2 DEF OrderInv, MintedInv, Minted, Plain
    <3> DEFINE later == pending'
    <3>2. later = EnqueuePending(pending, entry)
      BY <1>2
    <3> HIDE DEF later
    <3>3. \E j \in DOMAIN later : later[j] = pending[i]
      BY <1>1, <1>4, <3>1, <3>2, EnqueuedAt
    <3> QED BY <2>2, <3>3 DEF Waits, later
  <2> QED BY <2>1, <2>2 DEF Waits
<1>9. ASSUME NEW s \in Socket
      PROVE  /\ \A a : Carries(sock'[s].up, a) <=> Carries(sock[s].up, a) \/ (Hears(s) /\ a = n)
             /\ \A plain, over :
                  /\ InLine(sock[s].up, plain, over)
                  /\ Hears(s) => \A a \in plain : a < n => a \in over \/ Carries(sock[s].up, a)
                  => InLine(sock'[s].up, plain, over)
  <2> DEFINE up == sock[s].up
             later == sock'[s].up
  <2>1. up \in Seq(UpFrame) /\ later = IF Hears(s) THEN Append(up, frame) ELSE up
    BY <1>1, <1>4
  <2> HIDE DEF up, later
  <2>2. CASE Hears(s)
    <3>1. later = Append(up, frame)
      BY <2>1, <2>2
    <3>2. /\ \A a : Carries(later, a) <=> Carries(up, a) \/ (frame.type = "op" /\ frame.op_id = a)
          /\ \A plain, over :
               /\ InLine(up, plain, over)
               /\ frame.type = "op" => \A a \in plain : a < frame.op_id => a \in over \/ Carries(up, a)
               => InLine(later, plain, over)
      BY <1>3, <2>1, <3>1, InLineAppend
    <3> QED BY <1>3, <2>2, <3>2 DEF up, later
  <2>3. CASE ~ Hears(s)
    BY <2>1, <2>3 DEF up, later
  <2> QED BY <2>2, <2>3
<1>10. ASSUME NEW a \in Plain
       PROVE  /\ a \in SpentOps' <=> a \in SpentOps
              /\ a \in Waiting' <=> a \in Waiting
              /\ a \in Over' <=> a \in Over
  <2>1. Spent(a)' <=> Spent(a)
    BY <1>2, <1>5, <1>6 DEF Spent, InLog
  <2>2. Nowhere(a)' <=> Nowhere(a)
    BY <1>6, <1>8, <1>9 DEF Nowhere
  <2> QED BY <1>6, <1>8, <2>1, <2>2 DEF SpentOps, Waiting, Over
<1>11. n \in Plain' => n \in Waiting'
  BY <1>3, <1>7 DEF Waiting, Waits
<1>12. ASSUME NEW s \in Socket
       PROVE  SocketLines(sock'[s], Plain', Over', Waiting', SpentOps')
  <2> DEFINE r == sock[s]
             q == sock'[s]
  <2>1. SocketLines(r, Plain, Over, Waiting, SpentOps)
    BY <1>4 DEF LineInv
  <2>2. q.client = r.client /\ q.server = r.server /\ q.down = r.down
    BY <1>1
  <2>3. InLine(r.up, Plain', Over')
    <3>1. \A j \in DOMAIN r.up : r.up[j].type = "op" => r.up[j].op_id \in DOMAIN submitted
      BY DEF OrderInv, MintedInv, Minted
    <3>2. DOMAIN submitted \subseteq Nat
      BY <1>4, SeqFacts
    <3>3. \A j \in DOMAIN r.up : r.up[j].type = "op" => ~ (n < r.up[j].op_id)
      BY <1>5, <3>1, <3>2
    <3> QED BY <1>6, <1>10, <2>1, <3>3 DEF SocketLines, InLine
  <2>4. Hears(s) => \A a \in Plain' : a < n => a \in Over' \/ Carries(r.up, a)
    <3> SUFFICES ASSUME Hears(s), NEW a \in Plain', a < n
                 PROVE  a \in Over' \/ Carries(r.up, a)
      OBVIOUS
    <3>1. a \in Plain
      BY <1>5, <1>6
    <3>2. a \in Over \/ a \in Waiting
      BY <1>4, <3>1, OverOrWaiting DEF Waiting
    <3>3. a \in Waiting => a \in SpentOps \/ Carries(r.up, a)
      BY <2>1, <3>1 DEF SocketLines, Hears
    <3>4. a \in SpentOps => a \in Over
      BY DEF SpentOps, Over
    <3> QED BY <1>10, <3>1, <3>2, <3>3, <3>4
  <2>5. InLine(q.up, Plain', Over')
    BY <1>9, <2>3, <2>4
  <2>6. \A a \in Plain' : Carries(q.up, a) => a \in Waiting' \/ a \in SpentOps'
    BY <1>6, <1>9, <1>10, <1>11, <2>1 DEF SocketLines
  <2>7. q.client = "open" /\ q.server # "gone" => Hears(s)
    BY <2>2 DEF WebInv, ConnInv, Up, Hears
  <2>8. q.client = "open" /\ q.server # "gone" =>
          \A a \in Plain' : a \in Waiting' => a \in SpentOps' \/ Carries(q.up, a)
    BY <1>6, <1>9, <1>10, <2>1, <2>2, <2>7 DEF SocketLines
  <2>9. \A i \in DOMAIN q.down : Answers(q.down[i]) /\ q.down[i].op_id \in Plain' => q.down[i].op_id \in SpentOps'
    <3>1. \A i \in DOMAIN r.down : Answers(r.down[i]) => r.down[i].op_id # n
      BY <1>3, <1>5, RoomAssumption DEF OrderInv, MintedInv
    <3> QED BY <1>6, <1>10, <2>1, <2>2, <3>1 DEF SocketLines
  <2> QED BY <2>5, <2>6, <2>8, <2>9 DEF SocketLines
<1>13. LineInv'
  <2>1. ASSUME NEW m \in DOMAIN log', Mine(m)', NEW a \in Plain', a < log'[m].op_id
        PROVE  a \in Over'
    <3>1. log' = log /\ m \in DOMAIN log /\ Mine(m)
      BY <1>2, <2>1 DEF Mine
    <3>2. log[m].op_id \in DOMAIN submitted /\ DOMAIN submitted \subseteq Nat
      BY <1>4, <3>1, SeqFacts DEF OrderInv, MintedInv, Minted
    <3>3. a \in Plain
      BY <1>5, <1>6, <2>1, <3>1, <3>2
    <3> QED BY <1>4, <1>10, <2>1, <3>1, <3>3 DEF LineInv
  <2> QED BY <1>12, <2>1 DEF LineInv
<1>14. WindowInv' /\ AppliedOnce' /\ SubmissionOrder'
  BY <1>2, SameWindow DEF OrderInv
<1>15. MintedInv'
  <2>1. \A e : Minted(e, submitted) => Minted(e, submitted')
    BY <1>5 DEF Minted
  <2>2. Minted(frame, submitted') /\ Minted(entry, submitted')
    BY <1>3, <1>5 DEF Minted
  <2>3. ASSUME NEW t \in Socket, NEW j \in DOMAIN sock'[t].up, sock'[t].up[j].type = "op"
        PROVE  Minted(sock'[t].up[j], submitted')
    <3> DEFINE up == sock[t].up
               later == sock'[t].up
    <3>1. up \in Seq(UpFrame) /\ later = IF Hears(t) THEN Append(up, frame) ELSE up
      BY <1>1, <1>4
    <3>2. j \in DOMAIN later /\ later[j].type = "op"
      BY <2>3
    <3>3. \A i \in DOMAIN up : up[i].type = "op" => Minted(up[i], submitted)
      BY DEF OrderInv, MintedInv
    <3> HIDE DEF up, later
    <3>4. later[j] = frame \/ (j \in DOMAIN up /\ later[j] = up[j])
      <4>1. CASE Hears(t)
        <5>1. later = Append(up, frame)
          BY <3>1, <4>1
        <5> QED BY <1>3, <3>1, <3>2, <5>1, Appended
      <4>2. CASE ~ Hears(t)
        BY <3>1, <3>2, <4>2
      <4> QED BY <4>1, <4>2
    <3>5. Minted(later[j], submitted')
      BY <2>1, <2>2, <3>2, <3>3, <3>4
    <3> QED BY <3>5 DEF later
  <2>4. \A k \in DOMAIN pending' : Minted(pending'[k], submitted')
    BY <1>7, <2>1, <2>2 DEF OrderInv, MintedInv
  <2>5. \A t \in Socket : \A j \in DOMAIN sock'[t].down :
          Answers(sock'[t].down[j]) /\ sock'[t].down[j].op_id # NoOpId =>
              sock'[t].down[j].op_id \in DOMAIN submitted'
    BY <1>1, <1>5 DEF OrderInv, MintedInv
  <2>6. \A m \in DOMAIN log' : Mine(m)' => Minted(log'[m], submitted')
    BY <1>2, <2>1 DEF OrderInv, MintedInv, Mine
  <2>7. DOMAIN submitted' \subseteq OpId
    BY <1>3, <1>5 DEF OrderInv, MintedInv
  <2> QED BY <1>7, <2>3, <2>4, <2>5, <2>6, <2>7 DEF MintedInv
<1> QED BY <1>13, <1>14, <1>15 DEF OrderInv

LEMMA OrderInit == Init => OrderInv
<1> SUFFICES ASSUME Init
             PROVE  OrderInv
  OBVIOUS
<1>1. /\ room.seen = << >> /\ log = << >> /\ pending = << >> /\ submitted = << >>
      /\ \A s \in Socket : sock[s].up = << >> /\ sock[s].down = << >> /\ sock[s].client # "open"
  <2>1. WebInv
    BY WebInit
  <2>2. \A s \in Socket : sock[s].server = "none" /\ sock[s].client \in {"unused", "connecting"}
    BY DEF Init, UnusedSocket
  <2> QED BY <2>1, <2>2 DEF WebInv, SocketInv, Tidy, Init, FreshRoom
<1>2. /\ DOMAIN room.seen = {} /\ DOMAIN log = {} /\ DOMAIN pending = {} /\ DOMAIN submitted = {}
      /\ \A s \in Socket : DOMAIN sock[s].up = {} /\ DOMAIN sock[s].down = {} /\ sock[s].client # "open"
  BY <1>1, Emptied
<1>3. LineInv
  BY <1>2 DEF LineInv, SocketLines, InLine, Carries
<1>4. MintedInv /\ WindowInv
  BY <1>2 DEF MintedInv, WindowInv, WindowOrder, Rising
<1>5. AppliedOnce /\ SubmissionOrder
  BY <1>2 DEF AppliedOnce, SubmissionOrder
<1> QED BY <1>3, <1>4, <1>5 DEF OrderInv

LEMMA OrderNext == WebInv /\ OrderInv /\ [Next]_vars => OrderInv'
<1> SUFFICES ASSUME WebInv, OrderInv, [Next]_vars
             PROVE  OrderInv'
  OBVIOUS
<1>1. CASE Quiet
  BY <1>1, QuietOrder
<1>2. CASE \E op \in SyncOp : Submit(op) \/ SubmitOp(op)
  BY <1>2, SubmitOrder, OtherOrder
<1>3. CASE \E s \in Socket : OnOpen(s) \/ OnMessage(s)
  BY <1>3, OpenOrder, MessageOrder
<1>4. CASE \E s \in Socket : HandleClientText(s) /\ Head(sock[s].up).type = "op"
  BY <1>4, DecidedOrder
<1>5. CASE GatewayRestarts
  BY <1>5, RestartOrder
<1> QED BY <1>1, <1>2, <1>3, <1>4, <1>5, Steps

LEMMA OrderHolds == Spec => []OrderInv
BY OrderInit, OrderNext, WebType, PTL DEF Spec

(***************************************************************************)
(* SeenOps absorbs the resends: on however many sockets an op arrives, a   *)
(* room's log holds it a second time only when SeenOpIds other ops of the  *)
(* client lie between the two.                                             *)
(***************************************************************************)
THEOREM ResendsApplyOnce == Spec => []AppliedOnce
<1>1. OrderInv => AppliedOnce
  BY DEF OrderInv
<1> QED BY <1>1, OrderHolds, PTL

(***************************************************************************)
(* The ops that no later one replaces land for the first time in the order *)
(* they were submitted, whichever of the client's sockets each of them     *)
(* came in on, and whatever the window has forgotten.                      *)
(***************************************************************************)
THEOREM ResendsKeepOrder == Spec => []SubmissionOrder
<1>1. OrderInv => SubmissionOrder
  BY DEF OrderInv
<1> QED BY <1>1, OrderHolds, PTL
=============================================================================
