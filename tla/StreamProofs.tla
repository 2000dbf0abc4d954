----------------------------- MODULE StreamProofs -----------------------------
(***************************************************************************)
(* What runs between a browser, the control plane and an agent, for any    *)
(* number of browsers, sockets, requests and messages: the output that a   *)
(* reattached browser is shown (OutputReplay), the sockets a page opens    *)
(* (BrowserBridge), and the commands that an agent polls for (LongPoll).   *)
(***************************************************************************)
EXTENDS OutputReplay, BrowserBridge, LongPoll, SequenceTheorems, TLAPS

-----------------------------------------------------------------------------
(* OutputReplay *)

Message == Nat \cup {Exit, Error}
View == [pc : {"away", "replaying", "live", "gone"}, queue : Seq(Nat), pos : Nat,
         got : Seq(Message), replayed : Nat, lagged : BOOLEAN]

(* The replay buffer ends with the message that was recorded last, and the  *)
(* channel has had every message but one that is still to be broadcast,     *)
(* and then perhaps how the output ended.                                   *)
ReplayOK ==
    /\ next \in 0 .. MaxOutputs
    /\ replay \in Seq(Nat) /\ Len(replay) <= ReplayCap
    /\ \A i \in DOMAIN replay : replay[i] = next - Len(replay) + i - 1

SentOK ==
    /\ present \in BOOLEAN
    /\ reader \in {"none", "reading", "waiting", "done"}
    /\ held \in Nat \cup {None}
    /\ sent \in Seq(Message)
    /\ \A i \in DOMAIN sent : IF i <= next THEN sent[i] = i - 1 ELSE sent[i] \in {Exit, Error}
    /\ held # None => held = next - 1 /\ reader = "reading" /\ Len(sent) = next - 1
    /\ held = None => Len(sent) >= next
    /\ reader \in {"none", "reading"} => Len(sent) <= next
    /\ reader = "none" => next = 0 /\ ~present

\* From position p on, a channel with n messages and reader r has no more output.
Over(p, n, r) == n <= p /\ r \in {"waiting", "done"}

(* A replay under way: what was sent and what is left of it follow one      *)
(* another, and the receiver stands before or behind the last of it.        *)
Replays(s, n, r) ==
    /\ s.replayed = Len(s.got) /\ ~s.lagged
    /\ \E b \in Nat :
        /\ \A i \in DOMAIN s.got : s.got[i] = b + i - 1
        /\ \A i \in DOMAIN s.queue : s.queue[i] = b + Len(s.got) + i - 1
        /\ LET g == b + Len(s.got) + Len(s.queue) - 1 IN
           Len(s.got) + Len(s.queue) > 0 =>
              s.pos = g \/ s.pos = g + 1 \/ (s.pos > g /\ Over(s.pos, n, r))

(* A live connection: where its receiver stands after what it last sent.    *)
Follows(s, n, r) ==
    /\ s.queue = <<>>
    /\ s.got # <<>> =>
        LET g == s.got[Len(s.got)] IN
        IF g < 0 THEN Over(s.pos, n, r)
        ELSE \/ s.pos = g + 1
             \/ s.pos = g /\ Len(s.got) = s.replayed
             \/ s.pos > g /\ (s.lagged \/ Over(s.pos, n, r))

\* ReplayJoinsLive, of one connection.
Joins(s) ==
    \A i \in 1 .. Len(s.got) - 1 :
        s.got[i] >= 0 /\ s.got[i + 1] >= 0 =>
            \/ s.got[i + 1] = s.got[i] + 1
            \/ s.got[i + 1] = s.got[i] /\ i = s.replayed
            \/ s.got[i + 1] > s.got[i] /\ s.lagged

ViewOK(s, n, r, top) ==
    /\ s \in View /\ s.pos <= top
    /\ s.pc = "away" => s = Away
    /\ s.pc = "replaying" => Replays(s, n, r)
    /\ s.pc = "live" => Follows(s, n, r)
    /\ Joins(s)
    /\ r = "none" => s = Away

OutputInv ==
    /\ ReplayOK /\ SentOK
    /\ view \in [Viewer -> View]
    /\ \A v \in Viewer : ViewOK(view[v], next, reader, Len(sent))

LEMMA OutputTypes == OutputInv => OutputTypeOK
<1> SUFFICES ASSUME OutputInv PROVE OutputTypeOK
  OBVIOUS
<1>1. view \in [Viewer -> [pc : {"away", "replaying", "live", "gone"}, queue : Seq(Nat), pos : 0 .. Len(sent),
                           got : Seq(Nat \cup {Exit, Error}), replayed : Nat, lagged : BOOLEAN]]
  <2>1. ASSUME NEW v \in Viewer
        PROVE  view[v] \in [pc : {"away", "replaying", "live", "gone"}, queue : Seq(Nat), pos : 0 .. Len(sent),
                            got : Seq(Nat \cup {Exit, Error}), replayed : Nat, lagged : BOOLEAN]
    BY DEF OutputInv, ViewOK, View, Message, SentOK
  <2>2. QED
    BY <2>1 DEF OutputInv
<1>2. QED
  BY <1>1 DEF OutputInv, OutputTypeOK, ReplayOK, SentOK, Message

LEMMA AwayView ==
    /\ Away \in View /\ Away.pc = "away" /\ Away.pos = 0 /\ Away.queue = <<>> /\ Away.got = <<>>
    /\ Away.replayed = 0 /\ ~Away.lagged
<1>1. 0 \in Nat /\ <<>> \in Seq(Nat) /\ <<>> \in Seq(Message) /\ FALSE \in BOOLEAN
  OBVIOUS
<1>2. QED
  BY <1>1 DEF Away, View

LEMMA OutputInitially == OutputInit => OutputInv
<1> SUFFICES ASSUME OutputInit PROVE OutputInv
  OBVIOUS
<1>1. Away \in View /\ Away.pos = 0 /\ Away.pc = "away" /\ Away.got = <<>>
  BY AwayView
<1>2. MaxOutputs \in Nat /\ ReplayCap \in Nat
  BY ReplayAssumption DEF ReplayAssumption
<1>3. ReplayOK /\ SentOK
  <2>1. ReplayOK
    BY <1>2 DEF OutputInit, ReplayOK
  <2>2. SentOK
    <3>1. sent \in Seq(Message) /\ Len(sent) = 0 /\ DOMAIN sent = {}
      BY DEF OutputInit
    <3>2. next = 0 /\ present = FALSE /\ reader = "none" /\ held = None
      BY DEF OutputInit
    <3>3. QED
      <4>1. present \in BOOLEAN /\ ~present
        BY <3>2
      <4>2. held \in Nat \cup {None} /\ next = 0 /\ Len(sent) >= next /\ Len(sent) <= next
        BY <3>1, <3>2
      <4>3. QED
        BY <3>1, <3>2, <4>1, <4>2 DEF SentOK
  <2>3. QED
    BY <2>1, <2>2
<1>4. ViewOK(Away, 0, "none", 0)
  BY <1>1 DEF ViewOK, Joins
<1>5. QED
  BY <1>1, <1>3, <1>4 DEF OutputInit, OutputInv

\* Steps of the reader: the connections stay as they are, and more may come.
LEMMA ViewsKept ==
    ASSUME OutputInv, view' = view, Len(sent') \in Nat, Len(sent) <= Len(sent'),
           reader # "none",
           next' = next \/ reader = "reading",
           reader' = reader \/ (reader \in {"reading", "waiting"} /\ reader' \in {"waiting", "done"})
    PROVE  \A v \in Viewer : ViewOK(view'[v], next', reader', Len(sent'))
<1> SUFFICES ASSUME NEW v \in Viewer
             PROVE  ViewOK(view[v], next', reader', Len(sent'))
  OBVIOUS
<1> DEFINE s == view[v]
<1>1. ViewOK(s, next, reader, Len(sent)) /\ s.pos \in Nat /\ Len(sent) \in Nat
  BY DEF OutputInv, ViewOK, View, SentOK
<1>2. Over(s.pos, next, reader) => Over(s.pos, next', reader')
  BY DEF Over
<1> HIDE DEF s
<1>3. Replays(s, next, reader) => Replays(s, next', reader')
  BY <1>2 DEF Replays
<1>4. Follows(s, next, reader) => Follows(s, next', reader')
  BY <1>2 DEF Follows
<1>5. ViewOK(s, next', reader', Len(sent'))
  BY <1>1, <1>3, <1>4 DEF ViewOK
<1>6. QED
  BY <1>5 DEF s

LEMMA RecordOutputStep == OutputInv /\ RecordOutput => OutputInv'
<1> SUFFICES ASSUME OutputInv, RecordOutput PROVE OutputInv'
  OBVIOUS
<1>1. /\ reader = "reading" /\ held = None /\ next < MaxOutputs
      /\ next' = next + 1 /\ replay' = Pushed(next) /\ held' = next
      /\ UNCHANGED <<present, reader, sent, view>>
  BY DEF RecordOutput
<1>2. next \in Nat /\ MaxOutputs \in Nat /\ ReplayCap \in Nat \ {0} /\ Len(sent) = next
  BY <1>1, ReplayAssumption DEF ReplayAssumption, OutputInv, ReplayOK, SentOK
<1> DEFINE kept == IF Len(replay) = ReplayCap THEN Tail(replay) ELSE replay
<1>3. /\ kept \in Seq(Nat) /\ Len(kept) < ReplayCap
      /\ replay' = Append(kept, next)
      /\ \A i \in 1 .. Len(kept) : kept[i] = next - Len(kept) + i - 1
  <2>1. replay' = Append(kept, next)
    BY <1>1 DEF Pushed
  <2>2. replay \in Seq(Nat) /\ Len(replay) <= ReplayCap
        /\ \A i \in 1 .. Len(replay) : replay[i] = next - Len(replay) + i - 1
    BY DEF OutputInv, ReplayOK
  <2>3. CASE Len(replay) = ReplayCap
    <3>1. replay # <<>>
      BY <1>2, <2>3
    <3>2. /\ Tail(replay) \in Seq(Nat) /\ Len(Tail(replay)) = Len(replay) - 1
          /\ \A i \in 1 .. Len(Tail(replay)) : Tail(replay)[i] = replay[i + 1]
      BY <2>2, <3>1, HeadTailProperties
    <3>3. \A i \in 1 .. Len(Tail(replay)) : Tail(replay)[i] = next - Len(Tail(replay)) + i - 1
      BY <1>2, <2>2, <2>3, <3>2
    <3>4. kept = Tail(replay)
      BY <2>3
    <3> HIDE DEF kept
    <3>5. QED
      BY <1>2, <2>1, <2>3, <3>2, <3>3, <3>4
  <2>4. CASE Len(replay) # ReplayCap
    <3>1. kept = replay
      BY <2>4
    <3> HIDE DEF kept
    <3>2. QED
      BY <1>2, <2>1, <2>2, <2>4, <3>1
  <2>5. QED
    BY <2>3, <2>4
<1> HIDE DEF kept
<1>4. /\ replay' \in Seq(Nat) /\ Len(replay') = Len(kept) + 1
      /\ \A i \in 1 .. Len(kept) : replay'[i] = kept[i]
      /\ replay'[Len(kept) + 1] = next
  BY <1>2, <1>3, AppendProperties
<1>5. \A i \in DOMAIN replay' : replay'[i] = next' - Len(replay') + i - 1
  BY <1>1, <1>2, <1>3, <1>4
<1>6. ReplayOK'
  BY <1>1, <1>2, <1>3, <1>4, <1>5 DEF ReplayOK
<1>7. SentOK'
  BY <1>1, <1>2 DEF OutputInv, SentOK, None
<1>8. \A v \in Viewer : ViewOK(view'[v], next', reader', Len(sent'))
  <2>1. view' = view /\ Len(sent') \in Nat /\ Len(sent) <= Len(sent') /\ reader # "none" /\ reader' = reader
    BY <1>1, <1>2
  <2>2. QED
    BY <1>1, <2>1, ViewsKept
<1>9. QED
  BY <1>1, <1>6, <1>7, <1>8 DEF OutputInv

\* What the reader broadcasts: the message it holds, or how the output ended.
LEMMA SentGrows ==
    ASSUME OutputInv, NEW m \in Message, sent' = Append(sent, m),
           reader \in {"reading", "waiting"},
           UNCHANGED <<present, next, replay, view>>, held' = None,
           \/ m = held /\ held # None /\ reader' = reader
           \/ m \in {Exit, Error} /\ held = None /\ reader' \in {"waiting", "done"}
    PROVE  OutputInv'
<1> DEFINE n == Len(sent)
<1>1. n \in Nat /\ next \in Nat /\ sent \in Seq(Message)
  BY DEF OutputInv, SentOK, ReplayOK
<1>2. /\ sent' \in Seq(Message) /\ Len(sent') = n + 1 /\ sent'[n + 1] = m
      /\ \A i \in 1 .. n : sent'[i] = sent[i]
  BY <1>1, AppendProperties
<1>3. \A i \in DOMAIN sent' : IF i <= next THEN sent'[i] = i - 1 ELSE sent'[i] \in {Exit, Error}
  <2>1. IF n + 1 <= next THEN m = n ELSE m \in {Exit, Error}
    BY <1>1 DEF OutputInv, SentOK, None, Exit, Error
  <2>2. QED
    BY <1>1, <1>2, <2>1 DEF OutputInv, SentOK
<1>4. SentOK'
  BY <1>1, <1>2, <1>3 DEF OutputInv, SentOK
<1>5. ReplayOK'
  BY DEF OutputInv, ReplayOK
<1>6. \A v \in Viewer : ViewOK(view'[v], next', reader', Len(sent'))
  <2>1. view' = view /\ Len(sent') \in Nat /\ Len(sent) <= Len(sent') /\ reader # "none"
    BY <1>1, <1>2
  <2>2. reader' = reader \/ (reader \in {"reading", "waiting"} /\ reader' \in {"waiting", "done"})
    OBVIOUS
  <2>3. QED
    BY <2>1, <2>2, ViewsKept
<1>7. QED
  BY <1>4, <1>5, <1>6 DEF OutputInv

LEMMA ReaderSteps ==
    ASSUME OutputInv, BroadcastOutput \/ ReadFails \/ ReaderEnds \/ EntryGoes
    PROVE  OutputInv'
<1>1. CASE BroadcastOutput
  BY <1>1, SentGrows DEF BroadcastOutput, OutputInv, SentOK, Message
<1>2. CASE ReadFails
  <2>1. PICK m \in {Exit, Error} : sent' = Append(sent, m)
    BY <1>2 DEF ReadFails
  <2>2. QED
    BY <1>2, <2>1, SentGrows DEF ReadFails, Message
<1>3. CASE ReaderEnds
  <2>1. CASE sent' = Append(sent, Exit)
    BY <1>3, <2>1, SentGrows DEF ReaderEnds, Message
  <2>2. CASE sent' = sent
    <3>1. SentOK' /\ ReplayOK' /\ Len(sent') \in Nat
      BY <1>3, <2>2 DEF ReaderEnds, OutputInv, SentOK, ReplayOK
    <3>2. \A v \in Viewer : ViewOK(view'[v], next', reader', Len(sent'))
      BY <1>3, <2>2, <3>1, ViewsKept DEF ReaderEnds
    <3>3. QED
      BY <1>3, <3>1, <3>2 DEF OutputInv, ReaderEnds
  <2>3. QED
    BY <1>3, <2>1, <2>2 DEF ReaderEnds
<1>4. CASE EntryGoes
  BY <1>4 DEF EntryGoes, OutputInv, SentOK, ReplayOK
<1>5. QED
  BY <1>1, <1>2, <1>3, <1>4

\* Steps of one connection.
LEMMA ViewChanges ==
    ASSUME OutputInv, NEW v \in Viewer, NEW s, view' = [view EXCEPT ![v] = s],
           UNCHANGED <<next, replay, held, sent>>,
           present' \in BOOLEAN, reader' = "none" => ~present',
           reader' = reader \/ (reader = "none" /\ reader' = "reading"),
           ViewOK(s, next, reader', Len(sent))
    PROVE  OutputInv'
<1>1. view' \in [Viewer -> View] /\ \A w \in Viewer : view'[w] = IF w = v THEN s ELSE view[w]
  BY DEF OutputInv, ViewOK
<1>2. SentOK' /\ ReplayOK'
  BY DEF OutputInv, SentOK, ReplayOK
<1>3. ASSUME NEW w \in Viewer PROVE ViewOK(view'[w], next, reader', Len(sent))
  <2>1. CASE w = v
    BY <1>1, <2>1
  <2>2. CASE w # v /\ reader' = reader
    BY <1>1, <2>2 DEF OutputInv
  <2>3. CASE w # v /\ reader = "none" /\ reader' = "reading"
    <3>1. view'[w] = Away /\ ViewOK(Away, next, reader, Len(sent))
      BY <1>1, <2>3 DEF OutputInv, ViewOK
    <3>2. Away.pc = "away"
      BY DEF Away
    <3>3. QED
      BY <2>3, <3>1, <3>2 DEF ViewOK
  <2>4. QED
    BY <2>1, <2>2, <2>3
<1>4. QED
  BY <1>1, <1>2, <1>3 DEF OutputInv

LEMMA OpenOutputStep ==
    ASSUME OutputInv, NEW v \in Viewer, OpenOutput(v)
    PROVE  OutputInv'
<1>1. /\ reader = "none" /\ present' = TRUE /\ reader' = "reading"
      /\ view' = [view EXCEPT ![v].pc = "live"]
      /\ UNCHANGED <<next, replay, held, sent>>
  BY DEF OpenOutput
<1> DEFINE s == [Away EXCEPT !.pc = "live"]
<1>2. view[v] = Away /\ view \in [Viewer -> View] /\ Len(sent) \in Nat
  BY <1>1 DEF OutputInv, ViewOK, SentOK
<1>3. view' = [view EXCEPT ![v] = s]
  BY <1>1, <1>2
<1>5. s \in View /\ s.pc = "live" /\ s.pos = 0 /\ s.queue = <<>> /\ s.got = <<>>
  BY AwayView DEF View
<1> HIDE DEF s
<1>6. ViewOK(s, next, reader', Len(sent))
  BY <1>1, <1>2, <1>5 DEF ViewOK, Follows, Joins
<1>7. QED
  BY <1>1, <1>3, <1>6, ViewChanges

LEMMA ReattachStep ==
    ASSUME OutputInv, NEW v \in Viewer, ReattachOutput(v)
    PROVE  OutputInv'
<1> DEFINE s == [Away EXCEPT !.pc = "replaying", !.queue = replay, !.pos = Len(sent)]
           n == Len(replay)
<1>1. /\ present /\ view' = [view EXCEPT ![v] = s]
      /\ UNCHANGED <<present, next, replay, reader, held, sent>>
  BY DEF ReattachOutput
<1>2. /\ reader # "none" /\ Len(sent) \in Nat /\ next \in Nat /\ present \in BOOLEAN
      /\ replay \in Seq(Nat) /\ n \in Nat
      /\ \A i \in 1 .. n : replay[i] = next - n + i - 1
  BY <1>1 DEF OutputInv, SentOK, ReplayOK
<1>4. /\ s \in View /\ s.pc = "replaying" /\ s.pos = Len(sent) /\ s.queue = replay /\ s.got = <<>>
      /\ s.replayed = 0 /\ s.lagged = FALSE
  <2> DEFINE s1 == [Away EXCEPT !.pc = "replaying"]
             s2 == [s1 EXCEPT !.queue = replay]
  <2>1. s1 \in View /\ s1.pc = "replaying" /\ s1.got = <<>> /\ s1.replayed = 0 /\ ~s1.lagged
    BY AwayView DEF View
  <2>2. s = [s2 EXCEPT !.pos = Len(sent)]
    OBVIOUS
  <2> HIDE DEF s1
  <2>3. s2 \in View /\ s2.pc = "replaying" /\ s2.got = <<>> /\ s2.replayed = 0 /\ ~s2.lagged /\ s2.queue = replay
    BY <1>2, <2>1 DEF View
  <2> HIDE DEF s2, s
  <2>4. QED
    BY <1>2, <2>2, <2>3 DEF View
<1> HIDE DEF s
<1>5. Replays(s, next, reader)
  <2>1. CASE n = 0
    <3>1. s.queue = <<>> /\ Len(s.got) = 0 /\ Len(s.queue) = 0 /\ DOMAIN s.got = {} /\ DOMAIN s.queue = {}
      BY <1>2, <1>4, <2>1
    <3>2. QED
      BY <1>4, <3>1 DEF Replays
  <2>2. CASE n > 0
    <3> DEFINE b == next - n
    <3>1. b \in Nat
      <4>1. 1 \in 1 .. n /\ replay[1] \in Nat
        BY <1>2, <2>2
      <4>2. QED
        BY <1>2, <4>1
    <3>2. Len(s.got) = 0 /\ DOMAIN s.got = {} /\ DOMAIN s.queue = 1 .. n
      BY <1>2, <1>4
    <3>3. \A i \in DOMAIN s.queue : s.queue[i] = b + Len(s.got) + i - 1
      BY <1>2, <1>4, <3>2
    <3>4. b + Len(s.got) + Len(s.queue) - 1 = next - 1
      BY <1>2, <1>4, <3>2
    <3>5. s.pos = next - 1 \/ s.pos = next - 1 + 1 \/ (s.pos > next - 1 /\ Over(s.pos, next, reader))
      BY <1>2, <1>4 DEF OutputInv, SentOK, Over, None
    <3> HIDE DEF b
    <3>6. QED
      BY <1>4, <3>1, <3>2, <3>3, <3>4, <3>5 DEF Replays
  <2>3. QED
    BY <1>2, <2>1, <2>2
<1>6. ViewOK(s, next, reader', Len(sent))
  BY <1>1, <1>2, <1>4, <1>5 DEF ViewOK, Joins
<1>7. QED
  BY <1>1, <1>2, <1>6, ViewChanges

LEMMA SendReplayStep ==
    ASSUME OutputInv, NEW v \in Viewer, SendReplay(v)
    PROVE  OutputInv'
<1> DEFINE s == view[v]
           t1 == [s EXCEPT !.queue = Tail(s.queue)]
           t2 == [t1 EXCEPT !.got = Append(s.got, Head(s.queue))]
           t == [t2 EXCEPT !.replayed = s.replayed + 1]
<1>1. /\ s.pc = "replaying" /\ s.queue # <<>>
      /\ view' = [view EXCEPT ![v].queue = Tail(@), ![v].got = Append(@, Head(view[v].queue)),
                              ![v].replayed = @ + 1]
      /\ UNCHANGED <<present, next, replay, reader, held, sent>>
  BY DEF SendReplay
<1>2. s \in View /\ ViewOK(s, next, reader, Len(sent)) /\ view \in [Viewer -> View]
  BY DEF OutputInv, ViewOK
<1>3. view' = [view EXCEPT ![v] = t]
  BY <1>1, <1>2
<1>4. /\ s.queue \in Seq(Nat) /\ s.got \in Seq(Message) /\ s.replayed \in Nat /\ s.pos \in Nat
      /\ s.lagged \in BOOLEAN /\ s.pos <= Len(sent) /\ Replays(s, next, reader) /\ reader # "none"
      /\ Len(sent) \in Nat /\ next \in Nat
  BY <1>1, <1>2 DEF View, ViewOK, Away, OutputInv, SentOK, ReplayOK
<1> DEFINE h == Head(s.queue)
           m == Len(s.got)
           k == Len(s.queue)
<1>5. /\ h \in Nat /\ h \in Message /\ h = s.queue[1] /\ Tail(s.queue) \in Seq(Nat)
      /\ Len(Tail(s.queue)) = k - 1 /\ k \in Nat \ {0}
      /\ \A i \in 1 .. k - 1 : Tail(s.queue)[i] = s.queue[i + 1]
  <2>1. s.queue \in Seq(Nat) /\ s.queue # <<>>
    BY <1>1, <1>4
  <2>2. /\ Head(s.queue) \in Nat /\ Tail(s.queue) \in Seq(Nat) /\ Len(Tail(s.queue)) = Len(s.queue) - 1
        /\ \A i \in 1 .. Len(Tail(s.queue)) : Tail(s.queue)[i] = s.queue[i + 1]
    BY <2>1, HeadTailProperties
  <2>3. k \in Nat \ {0} /\ h = s.queue[1] /\ h \in Message
    BY <2>1, <2>2 DEF Message
  <2>4. QED
    BY <2>2, <2>3
<1>6. /\ Append(s.got, h) \in Seq(Message) /\ Len(Append(s.got, h)) = m + 1 /\ m \in Nat
      /\ \A i \in 1 .. m : Append(s.got, h)[i] = s.got[i]
      /\ Append(s.got, h)[m + 1] = h
  <2>1. s.got \in Seq(Message) /\ h \in Message
    BY <1>4, <1>5
  <2> HIDE DEF s, h, t
  <2>2. QED
    BY <2>1, AppendProperties
<1>7. /\ t.pc = "replaying" /\ t.queue = Tail(s.queue) /\ t.pos = s.pos /\ t.got = Append(s.got, h)
      /\ t.replayed = s.replayed + 1 /\ t.lagged = s.lagged
      /\ t \in View
  <2> HIDE DEF s
  <2>1. /\ t1 \in View /\ t1.pc = s.pc /\ t1.queue = Tail(s.queue) /\ t1.pos = s.pos /\ t1.got = s.got
        /\ t1.replayed = s.replayed /\ t1.lagged = s.lagged
    BY <1>2, <1>5 DEF View
  <2> HIDE DEF t1
  <2>2. /\ t2 \in View /\ t2.pc = s.pc /\ t2.queue = Tail(s.queue) /\ t2.pos = s.pos
        /\ t2.got = Append(s.got, h) /\ t2.replayed = s.replayed /\ t2.lagged = s.lagged
    BY <1>6, <2>1 DEF View
  <2> HIDE DEF t2
  <2>3. QED
    <3>1. s.replayed + 1 \in Nat
      BY <1>4
    <3>2. t = [t2 EXCEPT !.replayed = s.replayed + 1]
      OBVIOUS
    <3> HIDE DEF t
    <3>3. t \in View /\ t.replayed = s.replayed + 1
      BY <2>2, <3>1, <3>2 DEF View
    <3>4. t.pc = t2.pc /\ t.queue = t2.queue /\ t.pos = t2.pos /\ t.got = t2.got /\ t.lagged = t2.lagged
      BY <2>2, <3>2 DEF View
    <3>5. QED
      BY <1>1, <2>2, <3>3, <3>4
<1>8. t \in View
  BY <1>7
<1> HIDE DEF t, h
<1>9. PICK b \in Nat :
        /\ \A i \in DOMAIN s.got : s.got[i] = b + i - 1
        /\ \A i \in DOMAIN s.queue : s.queue[i] = b + m + i - 1
        /\ LET g == b + m + k - 1 IN
           m + k > 0 => s.pos = g \/ s.pos = g + 1 \/ (s.pos > g /\ Over(s.pos, next, reader))
  BY <1>4 DEF Replays
<1>10. s.replayed = m /\ ~s.lagged
  BY <1>4 DEF Replays
<1>11. h = b + m
  <2>1. 1 \in DOMAIN s.queue
    BY <1>4, <1>5
  <2>2. s.queue[1] = b + m + 1 - 1
    BY <1>9, <2>1
  <2>3. QED
    BY <1>5, <1>6, <2>2
<1>12. \A i \in 1 .. m + 1 : t.got[i] = b + i - 1
  <2>1. \A i \in 1 .. m : s.got[i] = b + i - 1
    BY <1>4, <1>9
  <2>2. QED
    <3> TAKE i \in 1 .. m + 1
    <3>1. CASE i \in 1 .. m
      BY <1>6, <1>7, <2>1, <3>1
    <3>2. CASE i = m + 1
      BY <1>6, <1>7, <1>11, <3>2
    <3>3. QED
      BY <1>6, <3>1, <3>2
<1>13. \A i \in 1 .. k - 1 : t.queue[i] = b + (m + 1) + i - 1
  <2>1. \A i \in 1 .. k : s.queue[i] = b + m + i - 1
    <3>1. DOMAIN s.queue = 1 .. k
      BY <1>4
    <3> HIDE DEF s, m, k
    <3>2. QED
      BY <1>9, <3>1
  <2>2. QED
    BY <1>5, <1>6, <1>7, <2>1
<1>14. /\ Len(t.got) = m + 1 /\ DOMAIN t.got = 1 .. m + 1
       /\ Len(t.queue) = k - 1 /\ DOMAIN t.queue = 1 .. k - 1
  BY <1>5, <1>6, <1>7
<1>15. Replays(t, next, reader)
  <2>1. b + (m + 1) + (k - 1) - 1 = b + m + k - 1 /\ m + k > 0
    <3>1. m \in Nat /\ k \in Nat \ {0} /\ b \in Nat
      BY <1>5, <1>6
    <3> HIDE DEF m, k
    <3>2. QED
      BY <3>1
  <2>2. QED
    BY <1>7, <1>9, <1>10, <1>12, <1>13, <1>14, <2>1 DEF Replays
<1>16. Joins(t)
  <2> SUFFICES ASSUME NEW i \in 1 .. m PROVE t.got[i + 1] = t.got[i] + 1
    BY <1>6, <1>14 DEF Joins
  <2>1. i \in 1 .. m + 1 /\ i + 1 \in 1 .. m + 1
    BY <1>6
  <2>2. QED
    BY <1>12, <2>1
<1>17. ViewOK(t, next, reader', Len(sent))
  BY <1>1, <1>4, <1>7, <1>8, <1>15, <1>16 DEF ViewOK
<1>18. QED
  BY <1>1, <1>3, <1>4, <1>17, ViewChanges DEF OutputInv, SentOK

LEMMA GoLiveStep ==
    ASSUME OutputInv, NEW v \in Viewer, GoLive(v)
    PROVE  OutputInv'
<1> DEFINE s == view[v]
           t == [s EXCEPT !.pc = "live"]
           m == Len(s.got)
<1>1. /\ s.pc = "replaying" /\ s.queue = <<>> /\ view' = [view EXCEPT ![v].pc = "live"]
      /\ UNCHANGED <<present, next, replay, reader, held, sent>>
  BY DEF GoLive
<1>2. s \in View /\ ViewOK(s, next, reader, Len(sent)) /\ view \in [Viewer -> View]
  BY DEF OutputInv, ViewOK
<1>3. view' = [view EXCEPT ![v] = t]
  BY <1>1, <1>2
<1>4. /\ t \in View /\ t.pc = "live" /\ t.queue = s.queue /\ t.pos = s.pos /\ t.got = s.got
      /\ t.replayed = s.replayed /\ t.lagged = s.lagged
  BY <1>2 DEF View
<1>5. /\ Replays(s, next, reader) /\ reader # "none" /\ s.pos <= Len(sent) /\ Joins(s)
      /\ s.got \in Seq(Message) /\ m \in Nat /\ DOMAIN s.got = 1 .. m
  BY <1>1, <1>2 DEF ViewOK, Away, View
<1> HIDE DEF t
<1>6. Follows(t, next, reader)
  <2> SUFFICES ASSUME s.got # <<>>
               PROVE  LET g == s.got[m] IN
                      IF g < 0 THEN Over(s.pos, next, reader)
                      ELSE \/ s.pos = g + 1
                           \/ s.pos = g /\ m = s.replayed
                           \/ s.pos > g /\ (s.lagged \/ Over(s.pos, next, reader))
    BY <1>1, <1>4 DEF Follows
  <2>1. m \in 1 .. m /\ Len(s.queue) = 0
    BY <1>1, <1>5
  <2>2. PICK b \in Nat :
          /\ \A i \in DOMAIN s.got : s.got[i] = b + i - 1
          /\ LET g == b + m + Len(s.queue) - 1 IN
             m + Len(s.queue) > 0 =>
                s.pos = g \/ s.pos = g + 1 \/ (s.pos > g /\ Over(s.pos, next, reader))
    BY <1>5 DEF Replays
  <2>3. s.got[m] = b + m - 1 /\ s.replayed = m
    BY <1>5, <2>1, <2>2 DEF Replays
  <2>4. QED
    BY <1>5, <2>1, <2>2, <2>3
<1>7. Joins(t)
  BY <1>4, <1>5 DEF Joins
<1>8. ViewOK(t, next, reader', Len(sent))
  BY <1>1, <1>4, <1>5, <1>6, <1>7 DEF ViewOK
<1>9. QED
  BY <1>1, <1>3, <1>5, <1>8, ViewChanges DEF OutputInv, SentOK

LEMMA LeaveStep ==
    ASSUME OutputInv, NEW v \in Viewer, HandlerLeaves(v)
    PROVE  OutputInv'
<1> DEFINE s == view[v]
           t == [s EXCEPT !.pc = "gone"]
<1>1. /\ s.pc \in {"replaying", "live"} /\ view' = [view EXCEPT ![v].pc = "gone"]
      /\ UNCHANGED <<present, next, replay, reader, held, sent>>
  BY DEF HandlerLeaves
<1>2. s \in View /\ ViewOK(s, next, reader, Len(sent)) /\ view \in [Viewer -> View]
  BY DEF OutputInv, ViewOK
<1>3. view' = [view EXCEPT ![v] = t]
  BY <1>1, <1>2
<1>4. /\ t \in View /\ t.pc = "gone" /\ t.pos = s.pos /\ t.got = s.got
      /\ t.replayed = s.replayed /\ t.lagged = s.lagged
  BY <1>2 DEF View
<1>5. reader # "none" /\ s.pos <= Len(sent) /\ Joins(s)
  BY <1>1, <1>2 DEF ViewOK, Away
<1> HIDE DEF t
<1>6. ViewOK(t, next, reader', Len(sent))
  BY <1>1, <1>4, <1>5 DEF ViewOK, Joins
<1>7. QED
  BY <1>1, <1>3, <1>5, <1>6, ViewChanges DEF OutputInv, SentOK

\* recv says that messages were lost.
LEMMA LaggedStep ==
    ASSUME OutputInv, NEW v \in Viewer, Receive(v), view[v].pos < Len(sent) - ChannelCap
    PROVE  OutputInv'
<1> DEFINE s == view[v]
           o == Len(sent) - ChannelCap
           t1 == [s EXCEPT !.pos = o]
           t == [t1 EXCEPT !.lagged = TRUE]
<1>1. /\ s.pc = "live" /\ s.pos < o /\ view' = [view EXCEPT ![v].pos = o, ![v].lagged = TRUE]
      /\ UNCHANGED <<present, next, replay, reader, held, sent>>
  BY DEF Receive
<1>2. s \in View /\ ViewOK(s, next, reader, Len(sent)) /\ view \in [Viewer -> View]
  BY DEF OutputInv, ViewOK
<1>3. view' = [view EXCEPT ![v] = t]
  BY <1>1, <1>2
<1>4. /\ s.pos \in Nat /\ Len(sent) \in Nat /\ ChannelCap \in Nat \ {0} /\ next \in Nat
      /\ s.got \in Seq(Message) /\ Follows(s, next, reader) /\ Joins(s) /\ reader # "none"
  BY <1>1, <1>2, ReplayAssumption, AwayView
     DEF View, OutputInv, SentOK, ReplayOK, ReplayAssumption, ViewOK
<1>5. o \in Nat /\ o <= Len(sent)
  BY <1>1, <1>4
<1>6. /\ t \in View /\ t.pc = "live" /\ t.queue = s.queue /\ t.pos = o /\ t.got = s.got
      /\ t.replayed = s.replayed /\ t.lagged
  <2> HIDE DEF s, o
  <2>1. /\ t1 \in View /\ t1.pc = "live" /\ t1.queue = s.queue /\ t1.pos = o /\ t1.got = s.got
        /\ t1.replayed = s.replayed
    BY <1>1, <1>2, <1>5 DEF View
  <2> HIDE DEF t1
  <2>2. QED
    BY <2>1 DEF View
<1> HIDE DEF t
<1>7. Follows(t, next, reader)
  <2>1. s.got # <<>> => s.got[Len(s.got)] \in Message
    BY <1>4
  <2>2. s.got # <<>> => s.got[Len(s.got)] \in Int
    BY <2>1 DEF Message, Exit, Error
  <2> DEFINE g == s.got[Len(s.got)]
             p == s.pos
  <2>3. p \in Nat /\ o \in Nat /\ next \in Nat /\ p < o /\ s.queue = <<>>
    BY <1>1, <1>4, <1>5 DEF Follows
  <2>4. CASE s.got = <<>>
    BY <1>6, <2>3, <2>4 DEF Follows
  <2>5. CASE s.got # <<>>
    <3>1. IF g < 0 THEN Over(p, next, reader)
          ELSE p = g + 1 \/ p = g \/ p > g
      BY <1>4, <2>5 DEF Follows
    <3>2. t.queue = <<>> /\ t.got[Len(t.got)] = g /\ t.pos = o /\ t.lagged
      BY <1>6, <2>3
    <3>3. g \in Int
      BY <2>2, <2>5
    <3> HIDE DEF s, o, g, p
    <3>4. IF g < 0 THEN Over(o, next, reader) ELSE o > g
      BY <2>3, <3>1, <3>3 DEF Over
    <3>5. QED
      BY <3>2, <3>4 DEF Follows
  <2>6. QED
    BY <2>4, <2>5
<1>8. Joins(t)
  BY <1>4, <1>6 DEF Joins
<1>9. ViewOK(t, next, reader', Len(sent))
  BY <1>1, <1>4, <1>5, <1>6, <1>7, <1>8 DEF ViewOK
<1>10. QED
  BY <1>1, <1>3, <1>4, <1>9, ViewChanges DEF OutputInv, SentOK

\* recv returns a message.
LEMMA ReceiveStep ==
    ASSUME OutputInv, NEW v \in Viewer, Receive(v), ~(view[v].pos < Len(sent) - ChannelCap)
    PROVE  OutputInv'
<1> DEFINE s == view[v]
           m == sent[s.pos + 1]
           k == Len(s.got)
           pc == IF m = Exit THEN "gone" ELSE s.pc
           t1 == [s EXCEPT !.pos = s.pos + 1]
           t2 == [t1 EXCEPT !.got = Append(s.got, m)]
           t == [t2 EXCEPT !.pc = pc]
<1>1. /\ s.pc = "live" /\ s.pos < Len(sent)
      /\ view' = [view EXCEPT ![v].pos = @ + 1, ![v].got = Append(@, m), ![v].pc = IF m = Exit THEN "gone" ELSE @]
      /\ present' = (present /\ m # Exit)
      /\ UNCHANGED <<next, replay, reader, held, sent>>
  BY DEF Receive
<1>2. s \in View /\ ViewOK(s, next, reader, Len(sent)) /\ view \in [Viewer -> View]
  BY DEF OutputInv, ViewOK
<1>3. view' = [view EXCEPT ![v] = t]
  BY <1>1, <1>2
<1>4. /\ s.pos \in Nat /\ Len(sent) \in Nat /\ next \in Nat /\ sent \in Seq(Message)
      /\ s.got \in Seq(Message) /\ Follows(s, next, reader) /\ Joins(s) /\ reader # "none"
  BY <1>1, <1>2, AwayView DEF View, OutputInv, SentOK, ReplayOK, ViewOK
<1>5. /\ s.pos + 1 \in 1 .. Len(sent) /\ m \in Message /\ m \in Int
      /\ IF s.pos + 1 <= next THEN m = s.pos ELSE m < 0 /\ Over(s.pos + 1, next, reader)
  <2>1. s.pos + 1 \in 1 .. Len(sent)
    BY <1>1, <1>4
  <2>2. m \in Message /\ m \in Int
    BY <1>4, <2>1 DEF Message, Exit, Error
  <2>3. IF s.pos + 1 <= next THEN m = s.pos + 1 - 1 ELSE m \in {Exit, Error}
    BY <1>4, <2>1 DEF OutputInv, SentOK
  <2>4. s.pos + 1 > next => Over(s.pos + 1, next, reader)
    BY <1>4, <2>1 DEF OutputInv, SentOK, Over
  <2>5. QED
    BY <1>4, <2>1, <2>2, <2>3, <2>4 DEF Exit, Error
<1>6. /\ Append(s.got, m) \in Seq(Message) /\ Len(Append(s.got, m)) = k + 1 /\ k \in Nat
      /\ \A i \in 1 .. k : Append(s.got, m)[i] = s.got[i]
      /\ Append(s.got, m)[k + 1] = m
  BY <1>4, <1>5, AppendProperties
<1> HIDE DEF m
<1>7. /\ t \in View /\ t.pc = pc /\ t.queue = s.queue /\ t.pos = s.pos + 1 /\ t.got = Append(s.got, m)
      /\ t.replayed = s.replayed /\ t.lagged = s.lagged
  <2>1. pc \in {"live", "gone"}
    BY <1>1
  <2> HIDE DEF s, pc
  <2>2. /\ t1 \in View /\ t1.queue = s.queue /\ t1.pos = s.pos + 1
        /\ t1.replayed = s.replayed /\ t1.lagged = s.lagged
    <3>1. s.pos + 1 \in Nat
      BY <1>4
    <3>2. t1 \in View /\ t1.pos = s.pos + 1
      BY <1>2, <3>1 DEF View
    <3>3. t1.queue = s.queue /\ t1.replayed = s.replayed /\ t1.lagged = s.lagged
      BY <1>2 DEF View
    <3>4. QED
      BY <3>2, <3>3
  <2> HIDE DEF t1
  <2>3. /\ t2 \in View /\ t2.queue = s.queue /\ t2.pos = s.pos + 1
        /\ t2.got = Append(s.got, m) /\ t2.replayed = s.replayed /\ t2.lagged = s.lagged
    BY <1>6, <2>2 DEF View
  <2> HIDE DEF t2
  <2>4. QED
    BY <2>1, <2>3 DEF View
<1> HIDE DEF t
<1>8. /\ Len(t.got) = k + 1 /\ t.got # <<>> /\ t.got[k + 1] = m
      /\ \A i \in 1 .. k : t.got[i] = s.got[i]
  BY <1>6, <1>7
<1>9. Follows(t, next, reader)
  BY <1>4, <1>5, <1>7, <1>8 DEF Follows
<1>10. Joins(t)
  <2> SUFFICES ASSUME NEW i \in 1 .. k, t.got[i] >= 0, t.got[i + 1] >= 0
               PROVE  \/ t.got[i + 1] = t.got[i] + 1
                      \/ t.got[i + 1] = t.got[i] /\ i = t.replayed
                      \/ t.got[i + 1] > t.got[i] /\ t.lagged
    BY <1>6, <1>8 DEF Joins
  <2>1. CASE i < k
    <3>1. i \in 1 .. k - 1 /\ t.got[i] = s.got[i] /\ t.got[i + 1] = s.got[i + 1]
      BY <1>6, <1>8, <2>1
    <3>2. QED
      BY <1>4, <1>7, <3>1 DEF Joins
  <2>2. CASE i = k
    <3>1. s.got # <<>> /\ k \in 1 .. k /\ s.got[k] \in Message
      BY <1>4, <1>6, <2>2
    <3>2. s.got[k] \in Int /\ s.got[k] >= 0
      BY <1>8, <2>2, <3>1 DEF Message, Exit, Error
    <3>3. \/ s.pos = s.got[k] + 1
          \/ s.pos = s.got[k] /\ k = s.replayed
          \/ s.pos > s.got[k] /\ (s.lagged \/ Over(s.pos, next, reader))
      BY <1>4, <3>1, <3>2 DEF Follows
    <3>4. t.got[k + 1] = m /\ m >= 0 /\ t.got[k] = s.got[k]
      BY <1>8, <2>2, <3>1
    <3>5. m = s.pos /\ ~Over(s.pos, next, reader)
      BY <1>4, <1>5, <3>4 DEF Over
    <3>6. QED
      BY <1>7, <2>2, <3>2, <3>3, <3>4, <3>5
  <2>3. QED
    BY <1>6, <2>1, <2>2
<1>11. ViewOK(t, next, reader', Len(sent))
  BY <1>1, <1>4, <1>5, <1>7, <1>9, <1>10 DEF ViewOK
<1>12. present' \in BOOLEAN
  BY <1>1
<1>13. QED
  BY <1>1, <1>3, <1>4, <1>11, <1>12, ViewChanges

LEMMA OutputInvariant == OutputSpec => []OutputInv
<1>1. OutputInv /\ [OutputNext]_outputVars => OutputInv'
  <2> SUFFICES ASSUME OutputInv, [OutputNext]_outputVars PROVE OutputInv'
    OBVIOUS
  <2>1. CASE UNCHANGED outputVars
    BY <2>1 DEF outputVars, OutputInv, SentOK, ReplayOK
  <2>2. CASE RecordOutput
    BY <2>2, RecordOutputStep
  <2>3. CASE BroadcastOutput \/ ReadFails \/ ReaderEnds \/ EntryGoes
    BY <2>3, ReaderSteps
  <2>4. ASSUME NEW v \in Viewer,
               \/ OpenOutput(v) \/ ReattachOutput(v) \/ SendReplay(v) \/ GoLive(v) \/ Receive(v)
               \/ HandlerLeaves(v)
        PROVE OutputInv'
    BY <2>4, OpenOutputStep, ReattachStep, SendReplayStep, GoLiveStep, LaggedStep, ReceiveStep, LeaveStep
  <2>5. QED
    BY <2>1, <2>2, <2>3, <2>4 DEF OutputNext
<1>2. QED
  BY <1>1, OutputInitially, PTL DEF OutputSpec

(* The registry's buffer, the channel and its receivers keep their types,   *)
(* the buffer never holds more than its capacity.                           *)
THEOREM OutputTypeCorrect == OutputSpec => []OutputTypeOK
BY OutputInvariant, OutputTypes, PTL

(* reattach: what a browser is shown is one stretch of the output, with one *)
(* message twice at most where the replay ends and a gap only where recv    *)
(* said so, for every capacity and whatever the reader does meanwhile.      *)
THEOREM ReplayAlwaysJoins == OutputSpec => []ReplayJoinsLive
<1>1. OutputInv => ReplayJoinsLive
  BY DEF OutputInv, ViewOK, Joins, ReplayJoinsLive
<1>2. QED
  BY <1>1, OutputInvariant, PTL

-----------------------------------------------------------------------------
(* BrowserBridge *)

Live == {"connecting", "open"}

\* A sequence of sockets, of which at most the last is live.
IsList(socks) == Len(socks) \in Nat /\ socks = [c \in 1 .. Len(socks) |-> socks[c]]

SocketsOK(socks) ==
    /\ IsList(socks)
    /\ \A c \in 1 .. Len(socks) : "ready" \in DOMAIN socks[c]
    /\ \A c \in 1 .. Len(socks) : socks[c].ready \in Live => c = Len(socks)

LEMMA ListOf ==
    ASSUME NEW n \in Nat, NEW t, t = [c \in 1 .. n |-> t[c]]
    PROVE  IsList(t) /\ Len(t) = n /\ \E S : t \in Seq(S)
<1> DEFINE S == {t[c] : c \in 1 .. n}
<1>1. [c \in 1 .. n |-> t[c]] \in Seq(S)
  BY IsASeq
<1>2. t \in Seq(S) /\ DOMAIN t = 1 .. n
  BY <1>1
<1>3. Len(t) = n
  BY <1>2
<1>4. QED
  BY <1>2, <1>3 DEF IsList

\* A step after which no socket is live that was not.
LEMMA NoneOpened ==
    ASSUME NEW s, SocketsOK(s), NEW t, t = [c \in 1 .. Len(s) |-> t[c]],
           \A c \in 1 .. Len(s) : "ready" \in DOMAIN t[c] /\ (t[c].ready \in Live => s[c].ready \in Live)
    PROVE  SocketsOK(t) /\ Len(t) = Len(s)
BY ListOf DEF SocketsOK, IsList

LEMMA SendingOpensNone ==
    ASSUME NEW s, SocketsOK(s), NEW msgs
    PROVE  SocketsOK(Sending(s, msgs)) /\ Len(Sending(s, msgs)) = Len(s)
<1> DEFINE n == Len(s)
           t == [s EXCEPT ![n].up = @ \o msgs]
<1>1. Sending(s, msgs) \in {s, t}
  BY DEF Sending
<1>2. n \in Nat /\ s = [c \in 1 .. n |-> s[c]] /\ DOMAIN s = 1 .. n
  BY DEF SocketsOK, IsList
<1>3. t = [c \in 1 .. n |-> t[c]]
  BY <1>2
<1>4. \A c \in 1 .. n : "ready" \in DOMAIN t[c] /\ (t[c].ready \in Live => s[c].ready \in Live)
  <2> TAKE c \in 1 .. n
  <2>1. "ready" \in DOMAIN s[c]
    BY DEF SocketsOK
  <2>2. t[c] = IF c = n THEN [s[c] EXCEPT !.up = @ \o msgs] ELSE s[c]
    BY <1>2
  <2> HIDE DEF t
  <2>3. "ready" \in DOMAIN t[c] /\ t[c].ready = s[c].ready
    BY <2>1, <2>2
  <2>4. QED
    BY <2>3
<1> HIDE DEF t
<1>5. SocketsOK(t) /\ Len(t) = n
  BY <1>3, <1>4, NoneOpened
<1>6. QED
  BY <1>1, <1>5

\* After close() no socket is live.
LEMMA ClosingLeavesNone ==
    ASSUME NEW s, SocketsOK(s)
    PROVE  /\ SocketsOK(Closing(s)) /\ Len(Closing(s)) = Len(s)
           /\ \A c \in 1 .. Len(s) : Closing(s)[c].ready \notin Live
<1> DEFINE n == Len(s)
           t == [s EXCEPT ![n].ready = "closing", ![n].re = FALSE, ![n].down = <<>>]
<1>1. n \in Nat /\ s = [c \in 1 .. n |-> s[c]] /\ DOMAIN s = 1 .. n
  BY DEF SocketsOK, IsList
<1>2. CASE n > 0 /\ s[n].ready \in Live
  <2>1. Closing(s) = t
    BY <1>2 DEF Closing, Live
  <2>2. t = [c \in 1 .. n |-> t[c]]
    BY <1>1
  <2>3. \A c \in 1 .. n : "ready" \in DOMAIN t[c] /\ t[c].ready \notin Live
    <3> TAKE c \in 1 .. n
    <3>1. "ready" \in DOMAIN s[c] /\ (s[c].ready \in Live => c = n)
      BY DEF SocketsOK
    <3>2. t[c] = IF c = n THEN [[[s[c] EXCEPT !.ready = "closing"] EXCEPT !.re = FALSE] EXCEPT !.down = <<>>]
                 ELSE s[c]
      BY <1>1
    <3> HIDE DEF t
    <3>3. QED
      BY <3>1, <3>2 DEF Live
  <2> HIDE DEF t
  <2>4. QED
    BY <2>1, <2>2, <2>3, NoneOpened
<1>3. CASE ~(n > 0 /\ s[n].ready \in Live)
  <2>1. Closing(s) = s
    BY <1>3 DEF Closing, Live
  <2>2. \A c \in 1 .. n : s[c].ready \notin Live
    BY <1>1, <1>3 DEF SocketsOK
  <2>3. QED
    BY <2>1, <2>2
<1>4. QED
  BY <1>2, <1>3

LEMMA ReplacedHasOne ==
    ASSUME SocketsOK(sockets), NEW re
    PROVE  SocketsOK(Replaced(re))
<1> DEFINE s == Closing(sockets)
           k == NewSocket(re)
           n == Len(s)
           t == Append(s, k)
<1>1. SocketsOK(s) /\ n \in Nat /\ \A c \in 1 .. n : s[c].ready \notin Live
  BY ClosingLeavesNone DEF SocketsOK, IsList
<1>2. "ready" \in DOMAIN k
  BY DEF NewSocket
<1> HIDE DEF s, k
<1>3. PICK S : s \in Seq(S)
  <2>1. s = [c \in 1 .. n |-> s[c]]
    BY <1>1 DEF SocketsOK, IsList
  <2>2. QED
    BY <1>1, <2>1, ListOf
<1>4. s \in Seq(S \cup {k}) /\ k \in S \cup {k}
  BY <1>3
<1>5. /\ t \in Seq(S \cup {k}) /\ Len(t) = n + 1 /\ \A c \in 1 .. n : t[c] = s[c]
      /\ t[n + 1] = k
  BY <1>4, AppendProperties
<1>6. IsList(t)
  <2> HIDE DEF t
  <2>1. Len(t) \in Nat /\ t = [c \in 1 .. Len(t) |-> t[c]]
    BY <1>5
  <2>2. QED
    BY <2>1 DEF IsList
<1>7. \A c \in 1 .. n + 1 : "ready" \in DOMAIN t[c] /\ (t[c].ready \in Live => c = n + 1)
  <2> TAKE c \in 1 .. n + 1
  <2>1. CASE c = n + 1
    BY <1>2, <1>5, <2>1
  <2>2. CASE c \in 1 .. n
    BY <1>1, <1>5, <2>2 DEF SocketsOK
  <2>3. QED
    BY <1>1, <2>1, <2>2
<1>8. Replaced(re) = t
  BY DEF Replaced, s, k
<1> HIDE DEF t
<1>9. QED
  BY <1>5, <1>6, <1>7, <1>8 DEF SocketsOK

\* A step in which one socket is changed, and not to a live one if it was not.
LEMMA OneChanges ==
    ASSUME SocketsOK(sockets), NEW c \in 1 .. Len(sockets), NEW k, sockets' = [sockets EXCEPT ![c] = k],
           "ready" \in DOMAIN k, k.ready \in Live => sockets[c].ready \in Live
    PROVE  SocketsOK(sockets')
<1>1. /\ sockets' = [d \in 1 .. Len(sockets) |-> sockets'[d]]
      /\ \A d \in 1 .. Len(sockets) : sockets'[d] = IF d = c THEN k ELSE sockets[d]
  BY DEF SocketsOK, IsList
<1>2. \A d \in 1 .. Len(sockets) : "ready" \in DOMAIN sockets'[d]
                                  /\ (sockets'[d].ready \in Live => sockets[d].ready \in Live)
  BY <1>1 DEF SocketsOK
<1>3. QED
  BY <1>1, <1>2, NoneOpened

LEMMA AfterReady ==
    ASSUME NEW k, "ready" \in DOMAIN k, NEW m, NEW far
    PROVE  "ready" \in DOMAIN After(k, m, far) /\ After(k, m, far).ready = k.ready
BY DEF After

LEMMA ToldOpensNone ==
    ASSUME NEW s, SocketsOK(s), NEW x, NEW m
    PROVE  SocketsOK(Told(s, x, m))
<1> DEFINE t == Told(s, x, m)
<1>1. t = [c \in 1 .. Len(s) |-> t[c]]
  BY DEF Told
<1>2. \A c \in 1 .. Len(s) : "ready" \in DOMAIN t[c] /\ t[c].ready = s[c].ready
  <2> TAKE c \in 1 .. Len(s)
  <2>1. "ready" \in DOMAIN s[c]
    BY DEF SocketsOK
  <2>2. t[c] = IF s[c].far = x THEN After(s[c], m, "over") ELSE s[c]
    BY DEF Told
  <2>3. QED
    BY <2>1, <2>2, AfterReady
<1> HIDE DEF t
<1>3. QED
  BY <1>1, <1>2, NoneOpened DEF t

LEMMA SocketEvents ==
    ASSUME SocketsOK(sockets), NEW c \in 1 .. Len(sockets),
           OpenEvent(c) \/ CloseEvent(c) \/ MessageEvent(c) \/ ServerLeaves(c)
    PROVE  SocketsOK(sockets')
<1> DEFINE k == sockets[c]
<1>1. "ready" \in DOMAIN k /\ c \in DOMAIN sockets
  BY DEF SocketsOK, IsList
<1>2. CASE OpenEvent(c)
  <2> DEFINE t == [[[k EXCEPT !.ready = "open"] EXCEPT !.re = FALSE] EXCEPT !.up = Resized \o <<Opening(c)>>]
  <2>1. sockets' = [sockets EXCEPT ![c] = t] /\ k.ready \in Live
    BY <1>1, <1>2 DEF OpenEvent, Live
  <2>2. "ready" \in DOMAIN t
    BY <1>1
  <2> HIDE DEF t
  <2>3. QED
    BY <2>1, <2>2, OneChanges
<1>3. CASE CloseEvent(c)
  <2>1. PICK n \in 0 .. Len(k.up) :
          sockets' = [sockets EXCEPT ![c].ready = "closed", ![c].re = FALSE,
                                     ![c].up = SubSeq(@, 1, n), ![c].down = <<>>]
    BY <1>3 DEF CloseEvent
  <2> DEFINE t == [k EXCEPT !.ready = "closed", !.re = FALSE, !.up = SubSeq(@, 1, n), !.down = <<>>]
  <2>3. sockets' = [sockets EXCEPT ![c] = t]
    BY <1>1, <2>1
  <2>2. "ready" \in DOMAIN t /\ t.ready \notin Live
    BY <1>1 DEF Live
  <2> HIDE DEF t
  <2>4. QED
    BY <2>2, <2>3, OneChanges
<1>4. CASE MessageEvent(c)
  <2> DEFINE t == [k EXCEPT !.down = Tail(@)]
  <2>1. sockets' = [sockets EXCEPT ![c] = t]
    BY <1>1, <1>4 DEF MessageEvent
  <2>2. "ready" \in DOMAIN t /\ t.ready = k.ready
    BY <1>1
  <2> HIDE DEF t
  <2>3. QED
    BY <2>1, <2>2, OneChanges
<1>5. CASE ServerLeaves(c)
  <2> DEFINE t == [k EXCEPT !.far = "over"]
  <2>1. sockets' = [sockets EXCEPT ![c] = t]
    BY <1>1, <1>5 DEF ServerLeaves
  <2>2. "ready" \in DOMAIN t /\ t.ready = k.ready
    BY <1>1
  <2> HIDE DEF t
  <2>3. QED
    BY <2>1, <2>2, OneChanges
<1>6. QED
  BY <1>2, <1>3, <1>4, <1>5

LEMMA ServerSteps ==
    ASSUME SocketsOK(sockets), NEW c \in 1 .. Len(sockets), ServerBegins(c) \/ ServerReads(c)
    PROVE  SocketsOK(sockets')
<1> DEFINE k == sockets[c]
           read == [k EXCEPT !.up = Tail(@)]
<1>1. "ready" \in DOMAIN k /\ c \in DOMAIN sockets
  BY DEF SocketsOK, IsList
<1>2. "ready" \in DOMAIN read /\ read.ready = k.ready
  BY <1>1
<1>3. ASSUME NEW m, NEW far, sockets' = [sockets EXCEPT ![c] = After(read, m, far)]
      PROVE  SocketsOK(sockets')
  BY <1>2, <1>3, AfterReady, OneChanges
<1>4. CASE ServerBegins(c)
  BY <1>3, <1>4 DEF ServerBegins
<1>5. CASE ServerReads(c)
  <2>1. CASE sockets' = [sockets EXCEPT ![c] = read]
    BY <1>2, <2>1, OneChanges
  <2>2. CASE \E x, m : sockets' = Told(sockets, x, m)
    BY <2>2, ToldOpensNone
  <2>3. CASE \E m, far : sockets' = [sockets EXCEPT ![c] = After(read, m, far)]
    BY <1>3, <2>3
  <2>4. QED
    BY <1>5, <2>1, <2>2, <2>3 DEF ServerReads
<1>6. QED
  BY <1>4, <1>5

LEMMA ReloadStep ==
    ASSUME SocketsOK(sockets), Reload
    PROVE  SocketsOK(sockets')
<1> DEFINE left == Closing(IF sid = NoSession THEN sockets
                           ELSE Sending(sockets, <<Msg("detach", sid, NoToken)>>))
           t == [c \in 1 .. Len(left) |-> [left[c] EXCEPT !.ready = "closed", !.re = FALSE, !.down = <<>>]]
<1>1. sockets' = t
  BY DEF Reload
<1>2. SocketsOK(left)
  <2>1. SocketsOK(IF sid = NoSession THEN sockets ELSE Sending(sockets, <<Msg("detach", sid, NoToken)>>))
    BY SendingOpensNone
  <2>2. QED
    BY <2>1, ClosingLeavesNone
<1> HIDE DEF left
<1>3. t = [c \in 1 .. Len(left) |-> t[c]]
  OBVIOUS
<1>4. \A c \in 1 .. Len(left) : "ready" \in DOMAIN t[c] /\ t[c].ready \notin Live
  <2> TAKE c \in 1 .. Len(left)
  <2>1. t[c] = [[[left[c] EXCEPT !.ready = "closed"] EXCEPT !.re = FALSE] EXCEPT !.down = <<>>]
    OBVIOUS
  <2>2. "ready" \in DOMAIN left[c]
    BY <1>2 DEF SocketsOK
  <2> HIDE DEF t
  <2>3. QED
    BY <2>1, <2>2 DEF Live
<1> HIDE DEF t
<1>5. QED
  BY <1>1, <1>2, <1>3, <1>4, NoneOpened

LEMMA SocketsInvariant == BridgeSpec => []SocketsOK(sockets)
<1>1. BridgeInit => SocketsOK(sockets)
  <2> SUFFICES ASSUME BridgeInit PROVE SocketsOK(sockets)
    OBVIOUS
  <2>1. sockets = <<>> /\ Len(sockets) = 0
    BY DEF BridgeInit
  <2>2. <<>> = [c \in 1 .. 0 |-> <<>>[c]]
    OBVIOUS
  <2>3. QED
    BY <2>1, <2>2 DEF SocketsOK, IsList
<1>2. SocketsOK(sockets) /\ [BridgeNext]_bridgeVars => SocketsOK(sockets)'
  <2> SUFFICES ASSUME SocketsOK(sockets), [BridgeNext]_bridgeVars PROVE SocketsOK(sockets')
    BY DEF SocketsOK, IsList
  <2>1. CASE UNCHANGED sockets
    BY <2>1
  <2>2. ASSUME NEW c \in 1 .. Len(sockets),
               \/ OpenEvent(c) \/ CloseEvent(c) \/ MessageEvent(c)
               \/ ServerBegins(c) \/ ServerReads(c) \/ ServerLeaves(c)
        PROVE SocketsOK(sockets')
    BY <2>2, SocketEvents, ServerSteps
  <2>3. ASSUME NEW i \in 1 .. Len(calls), AccessAnswers(i) PROVE SocketsOK(sockets')
    BY <2>1, <2>3, ReplacedHasOne DEF AccessAnswers
  <2>4. ASSUME NEW s \in Session, ServerEnds(s) PROVE SocketsOK(sockets')
    BY <2>4, ToldOpensNone DEF ServerEnds
  <2>5. CASE ClickNew
    BY <2>5, ClosingLeavesNone DEF ClickNew
  <2>6. CASE Type
    BY <2>6, SendingOpensNone DEF Type
  <2>7. CASE ClickTerminate
    BY <2>7, SendingOpensNone, ClosingLeavesNone DEF ClickTerminate
  <2>8. CASE ClickDetach(TRUE) \/ ClickDetach(FALSE)
    BY <2>8, SendingOpensNone, ClosingLeavesNone DEF ClickDetach
  <2>9. CASE Reload
    BY <2>9, ReloadStep
  <2>10. CASE \/ \E i \in 1 .. Len(calls) : MeAnswers(i) \/ LoginAnswers(i) \/ MfaAnswers(i)
              \/ \E s \in Session : ClickTab(s) \/ ClickRow(s)
              \/ ListsArrive \/ ClickLogin \/ ClickMfa \/ ClickReconnect \/ ClickRetry
    BY <2>1, <2>10 DEF MeAnswers, LoginAnswers, MfaAnswers, ClickTab, ClickRow, ListsArrive,
           ClickLogin, ClickMfa, ClickReconnect, ClickRetry
  <2>11. QED
    BY <2>1, <2>2, <2>3, <2>4, <2>5, <2>6, <2>7, <2>8, <2>9, <2>10 DEF BridgeNext, bridgeVars
<1>3. QED
  BY <1>1, <1>2, PTL DEF BridgeSpec

(* connect() closes the socket there is before it opens another, so that    *)
(* the page never has two that are live, however many calls overlap.        *)
THEOREM OneSocketIsOpen == BridgeSpec => []OneOpenSocket
<1>1. SocketsOK(sockets) => OneOpenSocket
  BY DEF SocketsOK, OneOpenSocket, Live, Current
<1>2. QED
  BY <1>1, SocketsInvariant, PTL

\* What the page sends: only a session that it shows is reattached.
FromPage == {m \in ToServer : m.type = "reattach" => m.session \in Session}

Ends == Session \cup {"waiting", "refused", "over"}

PageSocket == [ready : {"connecting", "open", "closing", "closed"}, re : BOOLEAN,
               up : Seq(FromPage), down : Seq(ToPage), far : Ends]

\* BridgeTypeOK in parts: what the page shows and stores, its calls, and its sockets.
PageOK ==
    /\ sid \in Session \cup {NoSession} /\ tok \in PageToken
    /\ tabs \in [Session -> PageToken \cup {NoTab}]
    /\ rows \subseteq Session
    /\ authed \in BOOLEAN /\ panel \in BOOLEAN /\ lists \in BOOLEAN
    /\ status \in Status
    /\ storage \in (Session \cup {NoSession}) \X [Session -> PageToken \cup {NoTab}]
    /\ clicks \in 0 .. MaxClicks
    /\ tokens \in [Session -> Nat \cup {Ended}] /\ onNode \subseteq Session

PageCallsOK   == calls \in Seq(Calls) /\ Len(calls) <= MaxCalls
SocketsIn == sockets \in Seq(PageSocket) /\ Len(sockets) <= MaxSockets

BridgeOK == PageOK /\ PageCallsOK /\ SocketsIn

LEMMA SocketParts ==
    ASSUME NEW k \in PageSocket
    PROVE  /\ k.up \in Seq(FromPage) /\ k.down \in Seq(ToPage)
           /\ k.far \in Ends /\ k.re \in BOOLEAN
           /\ k.ready \in {"connecting", "open", "closing", "closed"}
BY DEF PageSocket

LEMMA MessageParts ==
    ASSUME NEW m \in ToPage
    PROVE  m.session \in Session \cup {NoSession} /\ m.token \in PageToken
BY DEF ToPage

LEMMA NoTokenIsOne == NoToken \in PageToken
BY DEF PageToken

LEMMA FromThePage ==
    ASSUME NEW type \in {"start", "input", "detach", "terminate"}, NEW s \in Session \cup {NoSession}
    PROVE  Msg(type, s, NoToken) \in FromPage
BY NoTokenIsOne DEF Msg, FromPage, ToServer

LEMMA ToThePage ==
    ASSUME NEW type \in {"started", "reattached", "detached", "exited", "error"},
           NEW s \in Session \cup {NoSession}, NEW t \in PageToken
    PROVE  Msg(type, s, t) \in ToPage
BY DEF Msg, ToPage

LEMMA SendingTyped ==
    ASSUME NEW socks \in Seq(PageSocket), NEW msgs \in Seq(FromPage)
    PROVE  Sending(socks, msgs) \in Seq(PageSocket) /\ Len(Sending(socks, msgs)) = Len(socks)
<1> DEFINE c == Len(socks)
           k == [socks[c] EXCEPT !.up = @ \o msgs]
<1>1. CASE Sending(socks, msgs) = socks
  BY <1>1
<1>2. CASE c > 0 /\ Sending(socks, msgs) = [socks EXCEPT ![c].up = @ \o msgs]
  <2>1. c \in 1 .. Len(socks) /\ socks[c] \in PageSocket
    BY <1>2
  <2>2. socks[c].up \o msgs \in Seq(FromPage)
    BY <2>1, SocketParts
  <2>3. k \in PageSocket
    BY <2>1, <2>2 DEF PageSocket
  <2>4. Sending(socks, msgs) = [socks EXCEPT ![c] = k]
    BY <1>2
  <2> HIDE DEF k
  <2>5. QED
    BY <2>1, <2>3, <2>4
<1>3. QED
  BY <1>1, <1>2 DEF Sending

LEMMA ClosingTyped ==
    ASSUME NEW socks \in Seq(PageSocket)
    PROVE  Closing(socks) \in Seq(PageSocket) /\ Len(Closing(socks)) = Len(socks)
<1> DEFINE c == Len(socks)
           k == [socks[c] EXCEPT !.ready = "closing", !.re = FALSE, !.down = <<>>]
<1>1. CASE Closing(socks) = socks
  BY <1>1
<1>2. CASE c > 0 /\ Closing(socks) = [socks EXCEPT ![c].ready = "closing", ![c].re = FALSE, ![c].down = <<>>]
  <2>1. c \in 1 .. Len(socks) /\ socks[c] \in PageSocket
    BY <1>2
  <2>2. k \in PageSocket
    <3>1. <<>> \in Seq(ToPage)
      OBVIOUS
    <3>2. QED
      BY <2>1, <3>1 DEF PageSocket
  <2>3. Closing(socks) = [socks EXCEPT ![c] = k]
    BY <1>2
  <2> HIDE DEF k
  <2>4. QED
    BY <2>1, <2>2, <2>3
<1>3. QED
  BY <1>1, <1>2 DEF Closing

LEMMA ReplacedTyped ==
    ASSUME SocketsIn, NEW re \in BOOLEAN, Len(sockets) < MaxSockets
    PROVE  Replaced(re) \in Seq(PageSocket) /\ Len(Replaced(re)) <= MaxSockets
<1>1. NewSocket(re) \in PageSocket
  BY DEF NewSocket, PageSocket, Ends
<1>2. Closing(sockets) \in Seq(PageSocket) /\ Len(Closing(sockets)) = Len(sockets)
  BY ClosingTyped DEF SocketsIn
<1>3. Len(Append(Closing(sockets), NewSocket(re))) = Len(sockets) + 1
  BY <1>1, <1>2
<1>4. QED
  BY <1>1, <1>2, <1>3, BridgeAssumption DEF Replaced, SocketsIn

LEMMA AfterTyped ==
    ASSUME NEW k \in PageSocket, NEW m \in ToPage, NEW far \in Ends
    PROVE  After(k, m, far) \in PageSocket
<1>1. Append(k.down, m) \in Seq(ToPage) /\ <<>> \in Seq(FromPage)
  BY SocketParts
<1>2. QED
  BY <1>1, SocketParts DEF After, PageSocket

LEMMA ToldTyped ==
    ASSUME NEW socks \in Seq(PageSocket), NEW s, NEW m \in ToPage
    PROVE  Told(socks, s, m) \in Seq(PageSocket) /\ Len(Told(socks, s, m)) = Len(socks)
<1>1. \A c \in 1 .. Len(socks) :
        (IF socks[c].far = s THEN After(socks[c], m, "over") ELSE socks[c]) \in PageSocket
  BY AfterTyped DEF Ends
<1>2. QED
  BY <1>1, IsASeq DEF Told

\* A step in which one socket is changed.
LEMMA OneTyped ==
    ASSUME SocketsIn, NEW c \in 1 .. Len(sockets), NEW k \in PageSocket,
           sockets' = [sockets EXCEPT ![c] = k]
    PROVE  SocketsIn'
BY DEF SocketsIn

LEMMA SameLength ==
    ASSUME SocketsIn, sockets' \in Seq(PageSocket), Len(sockets') = Len(sockets)
    PROVE  SocketsIn'
BY DEF SocketsIn

LEMMA RememberedTyped ==
    ASSUME PageOK, sid' \in Session \cup {NoSession}, tabs' \in [Session -> PageToken \cup {NoTab}], Persisted
    PROVE  storage' \in (Session \cup {NoSession}) \X [Session -> PageToken \cup {NoTab}]
BY DEF Persisted

LEMMA ForgetTyped ==
    ASSUME PageOK, NEW s, Forget(s)
    PROVE  /\ sid' \in Session \cup {NoSession} /\ tok' \in PageToken
           /\ tabs' \in [Session -> PageToken \cup {NoTab}]
           /\ storage' \in (Session \cup {NoSession}) \X [Session -> PageToken \cup {NoTab}]
<1>1. sid' \in Session \cup {NoSession} /\ tok' \in PageToken
  BY NoTokenIsOne DEF PageOK, Forget
<1>2. tabs' \in [Session -> PageToken \cup {NoTab}]
  BY DEF PageOK, Forget
<1>3. QED
  BY <1>1, <1>2, RememberedTyped DEF Forget

LEMMA OpenTyped ==
    ASSUME BridgeOK, NEW c \in 1 .. Len(sockets), OpenEvent(c)
    PROVE  BridgeOK'
<1> DEFINE k == [sockets[c] EXCEPT !.ready = "open", !.re = FALSE, !.up = Resized \o <<Opening(c)>>]
<1>1. sockets[c] \in PageSocket
  BY DEF BridgeOK, SocketsIn
<1>2. Opening(c) \in FromPage
  <2>1. CASE sockets[c].re /\ sid # NoSession /\ tok # NoToken
    BY <2>1 DEF Opening, BridgeOK, PageOK, Msg, FromPage, ToServer
  <2>2. CASE ~(sockets[c].re /\ sid # NoSession /\ tok # NoToken)
    BY <2>2, FromThePage DEF Opening
  <2>3. QED
    BY <2>1, <2>2
<1>3. Resized \in Seq(FromPage)
  <2>1. CASE sid = NoSession
    BY <2>1 DEF Resized
  <2>2. CASE sid # NoSession
    BY <2>2, FromThePage DEF Resized, BridgeOK, PageOK
  <2>3. QED
    BY <2>1, <2>2
<1>4. Resized \o <<Opening(c)>> \in Seq(FromPage)
  BY <1>2, <1>3
<1>5. k \in PageSocket
  BY <1>1, <1>4 DEF PageSocket
<1>6. sockets' = [sockets EXCEPT ![c] = k]
  BY DEF OpenEvent
<1> HIDE DEF k
<1>7. SocketsIn'
  BY <1>5, <1>6, OneTyped DEF BridgeOK
<1>8. PageOK' /\ PageCallsOK'
  BY DEF BridgeOK, PageOK, PageCallsOK, OpenEvent, farOnly, Status
<1>9. QED
  BY <1>7, <1>8 DEF BridgeOK

LEMMA CloseTyped ==
    ASSUME BridgeOK, NEW c \in 1 .. Len(sockets), CloseEvent(c)
    PROVE  BridgeOK'
<1>1. sockets[c] \in PageSocket
  BY DEF BridgeOK, SocketsIn
<1>7. PICK n \in 0 .. Len(sockets[c].up) :
        sockets' = [sockets EXCEPT ![c].ready = "closed", ![c].re = FALSE,
                                   ![c].up = SubSeq(@, 1, n), ![c].down = <<>>]
  BY DEF CloseEvent
<1> DEFINE k == [sockets[c] EXCEPT !.ready = "closed", !.re = FALSE, !.up = SubSeq(@, 1, n), !.down = <<>>]
<1>2. k \in PageSocket
  <2>1. SubSeq(sockets[c].up, 1, n) \in Seq(FromPage) /\ <<>> \in Seq(ToPage)
    BY <1>1, SocketParts
  <2>2. QED
    BY <1>1, <2>1 DEF PageSocket
<1>3. sockets' = [sockets EXCEPT ![c] = k]
  BY <1>7
<1> HIDE DEF k
<1>4. SocketsIn'
  BY <1>2, <1>3, OneTyped DEF BridgeOK
<1>5. PageOK' /\ PageCallsOK'
  BY DEF BridgeOK, PageOK, PageCallsOK, CloseEvent, farOnly, Status
<1>6. QED
  BY <1>4, <1>5 DEF BridgeOK

LEMMA MessageTyped ==
    ASSUME BridgeOK, NEW c \in 1 .. Len(sockets), MessageEvent(c)
    PROVE  BridgeOK'
<1> DEFINE m == Head(sockets[c].down)
           k == [sockets[c] EXCEPT !.down = Tail(@)]
<1>1. sockets[c] \in PageSocket
  BY DEF BridgeOK, SocketsIn
<1>2. sockets[c].down \in Seq(ToPage) /\ sockets[c].down # <<>>
  BY <1>1, SocketParts DEF MessageEvent
<1>3. m \in ToPage /\ Tail(sockets[c].down) \in Seq(ToPage)
  BY <1>2
<1>4. k \in PageSocket
  BY <1>1, <1>3 DEF PageSocket
<1>5. sockets' = [sockets EXCEPT ![c] = k]
  BY DEF MessageEvent
<1> HIDE DEF k
<1>6. SocketsIn'
  BY <1>4, <1>5, OneTyped DEF BridgeOK
<1>7. /\ sid' \in Session \cup {NoSession} /\ tok' \in PageToken
      /\ tabs' \in [Session -> PageToken \cup {NoTab}]
      /\ storage' \in (Session \cup {NoSession}) \X [Session -> PageToken \cup {NoTab}]
      /\ status' \in Status /\ lists' \in BOOLEAN
  <2>1. m.session \in Session \cup {NoSession} /\ m.token \in PageToken
    BY <1>3, MessageParts
  <2> HIDE DEF m
  <2>2. CASE Learn(m)
    <3>1. tabs' \in [Session -> PageToken \cup {NoTab}] /\ sid' = m.session
      BY <2>1, <2>2 DEF Learn, BridgeOK, PageOK
    <3>2. QED
      BY <2>1, <2>2, <3>1, RememberedTyped DEF Learn, BridgeOK, PageOK, Status
  <2>3. CASE /\ tabs' = [tabs EXCEPT ![m.session] = tok]
             /\ status' = "disconnected"
             /\ AskLists /\ UNCHANGED <<sid, tok>> /\ Persisted
    <3>1. tabs' \in [Session -> PageToken \cup {NoTab}]
      BY <2>3 DEF BridgeOK, PageOK
    <3>2. QED
      BY <2>3, <3>1, RememberedTyped DEF BridgeOK, PageOK, Status, AskLists
  <2>4. CASE status' = "error" /\ UNCHANGED <<sid, tok, tabs, storage, lists>>
    BY <2>4 DEF BridgeOK, PageOK, Status
  <2>5. CASE Forget(m.session) /\ status' = "closed" /\ UNCHANGED lists
    BY <2>5, ForgetTyped DEF BridgeOK, PageOK, Status
  <2>6. QED
    BY <2>2, <2>3, <2>4, <2>5 DEF MessageEvent, m
<1>8. PageOK' /\ PageCallsOK'
  BY <1>7 DEF BridgeOK, PageOK, PageCallsOK, MessageEvent, farOnly
<1>9. QED
  BY <1>6, <1>8 DEF BridgeOK

LEMMA CallParts ==
    ASSUME PageCallsOK, NEW i \in 1 .. Len(calls)
    PROVE  calls[i] \in Calls /\ calls[i].re \in BOOLEAN
<1>1. calls[i] \in Calls
  BY DEF PageCallsOK
<1>2. QED
  BY <1>1 DEF Calls

LEMMA WaitingTyped ==
    ASSUME PageCallsOK, Len(calls) < MaxCalls, NEW kind \in {"connect", "login", "mfa"},
           NEW at \in {"login", "me", "mfa", "access"}, NEW re \in BOOLEAN,
           calls' = Waiting(kind, at, re)
    PROVE  PageCallsOK'
<1>1. [kind |-> kind, at |-> at, re |-> re] \in Calls
  BY DEF Calls
<1>2. QED
  BY <1>1, BridgeAssumption DEF PageCallsOK, Waiting

LEMMA ConnectTyped ==
    ASSUME PageCallsOK, NEW re \in BOOLEAN, NEW st \in Status, Connect(re, st)
    PROVE  PageCallsOK' /\ status' \in Status
BY WaitingTyped DEF Connect, Status

LEMMA WithoutTyped ==
    ASSUME PageCallsOK, NEW i \in 1 .. Len(calls), calls' = Without(i)
    PROVE  PageCallsOK'
<1> DEFINE n == Len(calls) - 1
<1>1. n \in Nat /\ n <= MaxCalls
  BY BridgeAssumption DEF PageCallsOK
<1>2. \A j \in 1 .. n : (IF j < i THEN calls[j] ELSE calls[j + 1]) \in Calls
  BY <1>1 DEF PageCallsOK
<1> HIDE DEF n
<1>3. calls' = [j \in 1 .. n |-> IF j < i THEN calls[j] ELSE calls[j + 1]]
  BY DEF Without, n
<1>4. calls' \in Seq(Calls)
  BY <1>1, <1>2, <1>3, IsASeq
<1>5. Len(calls') = n
  BY <1>1, <1>3, <1>4
<1>6. QED
  BY <1>1, <1>4, <1>5 DEF PageCallsOK

\* A step in which one call goes on.
LEMMA CallTyped ==
    ASSUME PageCallsOK, NEW i \in 1 .. Len(calls), NEW k \in Calls, calls' = [calls EXCEPT ![i] = k]
    PROVE  PageCallsOK'
BY DEF PageCallsOK

LEMMA AnswersTyped ==
    ASSUME BridgeOK, NEW i \in 1 .. Len(calls), MeAnswers(i) \/ LoginAnswers(i) \/ MfaAnswers(i)
    PROVE  BridgeOK'
<1>1. calls[i] \in Calls /\ PageCallsOK
  BY CallParts DEF BridgeOK
<1>2. ASSUME NEW at \in {"login", "me", "mfa", "access"}, calls' = [calls EXCEPT ![i].at = at]
      PROVE  PageCallsOK'
  <2>1. [calls[i] EXCEPT !.at = at] \in Calls
    BY <1>1 DEF Calls
  <2>2. calls' = [calls EXCEPT ![i] = [calls[i] EXCEPT !.at = at]]
    BY <1>2
  <2>3. QED
    BY <1>1, <2>1, <2>2, CallTyped
<1>3. CASE MeAnswers(i)
  <2>1. PageCallsOK'
    <3>1. CASE calls' = [calls EXCEPT ![i].at = "access", ![i].kind = "connect"]
      <4> DEFINE k == [calls[i] EXCEPT !.at = "access", !.kind = "connect"]
      <4>1. k \in Calls
        BY <1>1 DEF Calls
      <4>2. calls' = [calls EXCEPT ![i] = k]
        BY <3>1
      <4> HIDE DEF k
      <4>3. QED
        BY <1>1, <4>1, <4>2, CallTyped
    <3>2. QED
      BY <1>1, <1>2, <1>3, <3>1, WithoutTyped DEF MeAnswers
  <2>2. PageOK'
    BY <1>3 DEF BridgeOK, PageOK, MeAnswers, AskLists, farOnly, Status
  <2>3. SocketsIn'
    BY <1>3 DEF BridgeOK, SocketsIn, MeAnswers
  <2>4. QED
    BY <2>1, <2>2, <2>3 DEF BridgeOK
<1>4. CASE LoginAnswers(i)
  <2>1. PageCallsOK'
    BY <1>1, <1>2, <1>4, WithoutTyped DEF LoginAnswers
  <2>2. PageOK'
    BY <1>4 DEF BridgeOK, PageOK, LoginAnswers, farOnly, Status
  <2>3. SocketsIn'
    BY <1>4 DEF BridgeOK, SocketsIn, LoginAnswers
  <2>4. QED
    BY <2>1, <2>2, <2>3 DEF BridgeOK
<1>5. CASE MfaAnswers(i)
  <2>1. PageCallsOK'
    <3>1. [kind |-> "connect", at |-> IF authed THEN "access" ELSE "me", re |-> FALSE] \in Calls
      BY DEF Calls
    <3>2. QED
      BY <1>1, <1>5, <3>1, CallTyped, WithoutTyped DEF MfaAnswers
  <2>2. PageOK'
    BY <1>5 DEF BridgeOK, PageOK, MfaAnswers, farOnly, Status
  <2>3. SocketsIn'
    BY <1>5 DEF BridgeOK, SocketsIn, MfaAnswers
  <2>4. QED
    BY <2>1, <2>2, <2>3 DEF BridgeOK
<1>6. QED
  BY <1>3, <1>4, <1>5

LEMMA AccessTyped ==
    ASSUME BridgeOK, NEW i \in 1 .. Len(calls), AccessAnswers(i)
    PROVE  BridgeOK'
<1>1. PageCallsOK'
  BY WithoutTyped DEF BridgeOK, AccessAnswers
<1>2. PageOK'
  BY DEF BridgeOK, PageOK, AccessAnswers, farOnly, Status
<1>3. SocketsIn'
  <2>1. CASE Len(sockets) < MaxSockets /\ sockets' = Replaced(calls[i].re)
    BY <2>1, CallParts, ReplacedTyped DEF BridgeOK, SocketsIn
  <2>2. QED
    BY <2>1 DEF BridgeOK, SocketsIn, AccessAnswers
<1>4. QED
  BY <1>1, <1>2, <1>3 DEF BridgeOK

LEMMA ListsTyped ==
    ASSUME BridgeOK, ListsArrive
    PROVE  BridgeOK'
<1>1. tabs' \in [Session -> PageToken \cup {NoTab}] /\ rows' \subseteq Session
  BY NoTokenIsOne DEF BridgeOK, PageOK, ListsArrive
<1>2. PageOK'
  BY <1>1, RememberedTyped DEF BridgeOK, PageOK, ListsArrive, farOnly
<1>3. QED
  BY <1>2 DEF BridgeOK, PageCallsOK, SocketsIn, ListsArrive

LEMMA ClickTyped ==
    ASSUME clicks \in 0 .. MaxClicks, Click
    PROVE  clicks' \in 0 .. MaxClicks
BY BridgeAssumption DEF Click

\* A message about the session that is shown.
LEMMA AboutShown ==
    ASSUME PageOK, NEW type \in {"input", "detach", "terminate"}
    PROVE  <<Msg(type, sid, NoToken)>> \in Seq(FromPage)
BY FromThePage DEF PageOK

LEMMA ConnectClicksTyped ==
    ASSUME BridgeOK,
           \/ ClickLogin \/ ClickMfa \/ ClickReconnect \/ ClickRetry \/ ClickNew
           \/ \E s \in Session : ClickTab(s) \/ ClickRow(s)
    PROVE  BridgeOK'
<1>1. clicks' \in 0 .. MaxClicks /\ PageCallsOK
  BY ClickTyped DEF BridgeOK, PageOK, ClickLogin, ClickMfa, ClickReconnect, ClickRetry, ClickNew,
     ClickTab, ClickRow
<1>2. CASE ClickLogin \/ ClickMfa
  <2>1. PageCallsOK'
    BY <1>1, <1>2, WaitingTyped DEF ClickLogin, ClickMfa
  <2>2. PageOK' /\ SocketsIn'
    BY <1>1, <1>2 DEF sessions, BridgeOK, PageOK, SocketsIn, ClickLogin, ClickMfa, Status
  <2>3. QED
    BY <2>1, <2>2 DEF BridgeOK
<1>3. CASE ClickReconnect \/ ClickRetry
  <2>1. PageCallsOK' /\ status' \in Status
    BY <1>1, <1>3, ConnectTyped DEF ClickReconnect, ClickRetry, BridgeOK, PageOK, Status
  <2>2. PageOK' /\ SocketsIn'
    BY <1>1, <1>3, <2>1 DEF sessions, BridgeOK, PageOK, SocketsIn, ClickReconnect, ClickRetry
  <2>3. QED
    BY <2>1, <2>2 DEF BridgeOK
<1>4. CASE ClickNew
  <2>1. PageCallsOK' /\ status' \in Status
    BY <1>1, <1>4, ConnectTyped DEF ClickNew, BridgeOK, PageOK
  <2>2. PageOK'
    BY <1>1, <1>4, <2>1, NoTokenIsOne DEF sessions, BridgeOK, PageOK, ClickNew
  <2>3. SocketsIn'
    BY <1>4, ClosingTyped DEF BridgeOK, SocketsIn, ClickNew
  <2>4. QED
    BY <2>1, <2>2, <2>3 DEF BridgeOK
<1>5. ASSUME NEW s \in Session, ClickTab(s) PROVE BridgeOK'
  <2>1. PageCallsOK' /\ status' \in Status
    BY <1>1, <1>5, ConnectTyped DEF ClickTab, Status
  <2>2. tok' \in PageToken /\ sid' = s
    BY <1>5 DEF ClickTab, BridgeOK, PageOK
  <2>3. PageOK' /\ SocketsIn'
    BY <1>1, <1>5, <2>1, <2>2 DEF sessions, BridgeOK, PageOK, SocketsIn, ClickTab
  <2>4. QED
    BY <2>1, <2>3 DEF BridgeOK
<1>6. ASSUME NEW s \in Session, ClickRow(s) PROVE BridgeOK'
  <2>1. PageCallsOK' /\ status' \in Status
    BY <1>1, <1>6, ConnectTyped DEF ClickRow, BridgeOK, PageOK, PageCallsOK
  <2>2. tok' \in PageToken /\ sid' = s
    BY <1>6 DEF ClickRow, BridgeOK, PageOK
  <2>3. PageOK' /\ SocketsIn'
    BY <1>1, <1>6, <2>1, <2>2 DEF sessions, BridgeOK, PageOK, SocketsIn, ClickRow
  <2>4. QED
    BY <2>1, <2>3 DEF BridgeOK
<1>7. QED
  BY <1>2, <1>3, <1>4, <1>5, <1>6

LEMMA SocketClicksTyped ==
    ASSUME BridgeOK, Type \/ ClickTerminate \/ ClickDetach(TRUE) \/ ClickDetach(FALSE)
    PROVE  BridgeOK'
<1>1. clicks' \in 0 .. MaxClicks /\ PageOK /\ SocketsIn
  BY ClickTyped DEF BridgeOK, PageOK, Type, ClickTerminate, ClickDetach
<1>2. PageCallsOK'
  BY DEF BridgeOK, PageCallsOK, Type, ClickTerminate, ClickDetach, pageOnly
<1>3. ASSUME NEW msgs \in Seq(FromPage)
      PROVE  LET t == Sending(sockets, msgs) IN
             /\ t \in Seq(PageSocket) /\ Len(t) = Len(sockets)
             /\ Closing(t) \in Seq(PageSocket) /\ Len(Closing(t)) = Len(sockets)
  BY <1>1, SendingTyped, ClosingTyped DEF SocketsIn
<1>4. CASE Type
  <2>1. SocketsIn'
    BY <1>1, <1>3, <1>4, AboutShown, SameLength DEF Type
  <2>2. PageOK'
    BY <1>1, <1>4 DEF sessions, PageOK, Type, pageOnly
  <2>3. QED
    BY <1>2, <2>1, <2>2 DEF BridgeOK
<1>5. CASE ClickTerminate
  <2>1. SocketsIn'
    BY <1>1, <1>3, <1>5, AboutShown, SameLength, ClosingTyped DEF ClickTerminate, SocketsIn
  <2>2. /\ sid' \in Session \cup {NoSession} /\ tok' \in PageToken
        /\ tabs' \in [Session -> PageToken \cup {NoTab}]
        /\ storage' \in (Session \cup {NoSession}) \X [Session -> PageToken \cup {NoTab}]
    BY <1>1, <1>5, ForgetTyped, NoTokenIsOne DEF ClickTerminate, PageOK
  <2>3. PageOK'
    BY <1>1, <1>5, <2>2 DEF sessions, PageOK, ClickTerminate, Status
  <2>4. QED
    BY <1>2, <2>1, <2>3 DEF BridgeOK
<1>6. ASSUME NEW forgets \in BOOLEAN, ClickDetach(forgets) PROVE BridgeOK'
  <2>1. SocketsIn'
    BY <1>1, <1>3, <1>6, AboutShown, SameLength DEF ClickDetach
  <2>2. /\ sid' \in Session \cup {NoSession} /\ tok' \in PageToken
        /\ tabs' \in [Session -> PageToken \cup {NoTab}]
        /\ storage' \in (Session \cup {NoSession}) \X [Session -> PageToken \cup {NoTab}]
    <3>1. CASE Forget(sid)
      BY <1>1, <3>1, ForgetTyped
    <3>2. CASE tabs' = [tabs EXCEPT ![sid] = tok] /\ UNCHANGED <<sid, tok>> /\ Persisted
      <4>1. tabs' \in [Session -> PageToken \cup {NoTab}]
        BY <1>1, <3>2 DEF PageOK
      <4>2. QED
        BY <1>1, <3>2, <4>1, RememberedTyped DEF PageOK
    <3>3. QED
      BY <1>6, <3>1, <3>2 DEF ClickDetach
  <2>3. PageOK'
    BY <1>1, <1>6, <2>2 DEF sessions, PageOK, ClickDetach, Status
  <2>4. QED
    BY <1>2, <2>1, <2>3 DEF BridgeOK
<1>7. QED
  BY <1>4, <1>5, <1>6

LEMMA ReloadTyped ==
    ASSUME BridgeOK, Reload
    PROVE  BridgeOK'
<1> DEFINE told == IF sid = NoSession THEN sockets ELSE Sending(sockets, <<Msg("detach", sid, NoToken)>>)
           left == Closing(told)
<1>1. left \in Seq(PageSocket) /\ Len(left) = Len(sockets)
  <2>1. told \in Seq(PageSocket) /\ Len(told) = Len(sockets)
    BY AboutShown, SendingTyped DEF BridgeOK, SocketsIn
  <2> HIDE DEF told
  <2>2. QED
    BY <2>1, ClosingTyped
<1> HIDE DEF left
<1> DEFINE shut(c) == [left[c] EXCEPT !.ready = "closed", !.re = FALSE, !.down = <<>>]
<1>2. sockets' = [c \in 1 .. Len(left) |-> shut(c)]
  BY DEF Reload, left
<1>3. \A c \in 1 .. Len(left) : shut(c) \in PageSocket
  <2> TAKE c \in 1 .. Len(left)
  <2>1. left[c] \in PageSocket /\ <<>> \in Seq(ToPage)
    BY <1>1
  <2>2. QED
    BY <2>1 DEF PageSocket
<1>4. SocketsIn'
  <2> HIDE DEF shut
  <2>1. sockets' \in Seq(PageSocket)
    BY <1>1, <1>2, <1>3, IsASeq
  <2>2. Len(sockets') = Len(left)
    BY <1>1, <1>2, <2>1
  <2>3. QED
    BY <1>1, <2>1, <2>2, SameLength DEF BridgeOK
<1>5. PageCallsOK'
  <2> DEFINE k == [kind |-> "connect", at |-> "me", re |-> Loaded \notin {NoTab, NoToken}]
  <2>1. k \in Calls
    BY DEF Calls
  <2>2. calls' = <<k>>
    BY DEF Reload
  <2> HIDE DEF k
  <2>3. calls' \in Seq(Calls) /\ Len(calls') = 1
    BY <2>1, <2>2
  <2>4. QED
    BY <2>3, BridgeAssumption DEF PageCallsOK
<1>6. sid' \in Session \cup {NoSession} /\ tok' \in PageToken /\ tabs' \in [Session -> PageToken \cup {NoTab}]
  <2>1. storage[1] \in Session \cup {NoSession} /\ storage[2] \in [Session -> PageToken \cup {NoTab}]
    BY DEF BridgeOK, PageOK
  <2>2. Loaded # NoTab => Loaded \in PageToken
    BY <2>1 DEF Loaded
  <2>3. QED
    BY <2>1, <2>2, NoTokenIsOne DEF Reload
<1>7. PageOK'
  <2>1. clicks' \in 0 .. MaxClicks
    BY ClickTyped DEF BridgeOK, PageOK, Reload
  <2>2. QED
    BY <1>6, <2>1 DEF sessions, BridgeOK, PageOK, Reload, Status
<1>8. QED
  BY <1>4, <1>5, <1>7 DEF BridgeOK

LEMMA BeginsTyped ==
    ASSUME BridgeOK, NEW c \in 1 .. Len(sockets), ServerBegins(c)
    PROVE  BridgeOK'
<1> DEFINE k == sockets[c]
           m == Head(k.up)
           rest == [k EXCEPT !.up = Tail(@)]
<1>1. k \in PageSocket /\ k.up \in Seq(FromPage) /\ k.up # <<>>
  BY SocketParts DEF BridgeOK, SocketsIn, ServerBegins
<1>2. m \in FromPage /\ rest \in PageSocket
  <2>1. m \in FromPage /\ Tail(k.up) \in Seq(FromPage)
    BY <1>1
  <2>2. rest \in PageSocket
    BY <1>1, <2>1 DEF PageSocket
  <2>3. QED
    BY <2>1, <2>2
<1>3. ASSUME NEW far \in Ends, NEW reply \in ToPage,
             sockets' = [sockets EXCEPT ![c] = After(rest, reply, far)]
      PROVE  SocketsIn'
  BY <1>2, <1>3, AfterTyped, OneTyped DEF BridgeOK
<1>4. PageOK /\ tokens \in [Session -> Nat \cup {Ended}] /\ PageCallsOK'
      /\ UNCHANGED <<sid, tok, tabs, rows, authed, panel, status, lists, storage, clicks>>
      /\ onNode \subseteq Session
  BY DEF BridgeOK, PageOK, PageCallsOK, ServerBegins, pageOnly
<1>5. ASSUME NEW far \in {"refused", "over"}, NEW s \in Session \cup {NoSession},
             sockets' = [sockets EXCEPT ![c] = After(rest, Msg("error", s, NoToken), far)]
      PROVE  SocketsIn'
  BY <1>3, <1>5, ToThePage, NoTokenIsOne DEF Ends
<1>6. ASSUME NEW type \in {"started", "reattached"}, NEW s \in Session, NEW t \in PageToken,
             sockets' = [sockets EXCEPT ![c] = After(rest, Msg(type, s, t), s)]
      PROVE  SocketsIn'
  <2>1. Msg(type, s, t) \in ToPage /\ s \in Ends
    BY ToThePage DEF Ends
  <2>2. QED
    BY <1>3, <1>6, <2>1
<1>11. \A s \in Session, n \in Nat : <<s, n>> \in PageToken
  BY DEF PageToken
<1> HIDE DEF rest
<1>7. m.session \in Session \cup {NoSession} /\ m.token \in PageToken
      /\ (m.type = "reattach" => m.session \in Session)
  BY <1>2 DEF FromPage, ToServer
<1> HIDE DEF m
<1>8. SocketsIn' /\ tokens' \in [Session -> Nat \cup {Ended}] /\ onNode' \subseteq Session
  <2>1. ASSUME NEW s \in Session, NEW t \in {<<s, 1>>, NoToken}, tokens' = [tokens EXCEPT ![s] = 1],
               onNode' \in {onNode, onNode \cup {s}},
               sockets' = [sockets EXCEPT ![c] = After(rest, Msg("started", s, t), s)]
        PROVE  SocketsIn' /\ tokens' \in [Session -> Nat \cup {Ended}] /\ onNode' \subseteq Session
    BY <1>4, <1>6, <1>11, <2>1, NoTokenIsOne
  <2>2. ASSUME NEW s \in Session \cup {NoSession}, NEW far \in {"refused", "over"}, UNCHANGED sessions,
               sockets' = [sockets EXCEPT ![c] = After(rest, Msg("error", s, NoToken), far)]
        PROVE  SocketsIn' /\ tokens' \in [Session -> Nat \cup {Ended}] /\ onNode' \subseteq Session
    BY <1>4, <1>5, <2>2 DEF sessions
  <2>3. ASSUME m.type = "reattach", m.token = <<m.session, tokens[m.session]>>, UNCHANGED onNode,
               tokens' = [tokens EXCEPT ![m.session] = tokens[m.session] + 1],
               sockets' = [sockets EXCEPT ![c] =
                   After(rest, Msg("reattached", m.session, <<m.session, tokens[m.session] + 1>>), m.session)]
        PROVE  SocketsIn' /\ tokens' \in [Session -> Nat \cup {Ended}] /\ onNode' \subseteq Session
    <3>1. m.session \in Session /\ tokens[m.session] + 1 \in Nat
      BY <1>7, <2>3 DEF PageToken, NoToken
    <3>2. QED
      BY <1>4, <1>6, <1>11, <2>3, <3>1
  <2>4. CASE m.type = "start"
    BY <2>1, <2>2, <2>4 DEF ServerBegins, m, rest
  <2>5. CASE m.type = "reattach"
    BY <1>7, <2>2, <2>3, <2>5 DEF ServerBegins, m, rest, sessions
  <2>6. CASE m.type \notin {"start", "reattach"}
    BY <2>2, <2>6 DEF ServerBegins, m, rest
  <2>7. QED
    BY <2>4, <2>5, <2>6
<1>9. PageOK'
  BY <1>4, <1>8 DEF PageOK
<1>10. QED
  BY <1>4, <1>8, <1>9 DEF BridgeOK

LEMMA EndsTold ==
    ASSUME BridgeOK, NEW s \in Session, sockets' = Told(sockets, s, Msg("exited", s, NoToken)),
           tokens' = [tokens EXCEPT ![s] = Ended]
    PROVE  SocketsIn' /\ tokens' \in [Session -> Nat \cup {Ended}]
<1>1. Msg("exited", s, NoToken) \in ToPage
  BY ToThePage, NoTokenIsOne
<1>2. QED
  BY <1>1, ToldTyped, SameLength DEF BridgeOK, SocketsIn, PageOK

LEMMA ReadsTyped ==
    ASSUME BridgeOK, NEW c \in 1 .. Len(sockets), ServerReads(c)
    PROVE  BridgeOK'
<1> DEFINE k == sockets[c]
           m == Head(k.up)
           s == k.far
           read == [k EXCEPT !.up = Tail(@)]
<1>1. k \in PageSocket /\ k.up \in Seq(FromPage) /\ k.up # <<>> /\ s \in Session
  BY SocketParts DEF BridgeOK, SocketsIn, ServerReads
<1>2. read \in PageSocket
  <2>1. Tail(k.up) \in Seq(FromPage)
    BY <1>1
  <2>2. QED
    BY <1>1, <2>1 DEF PageSocket
<1> HIDE DEF read
<1>3. ASSUME NEW type \in {"error", "detached"}, NEW far \in Session \cup {"over"},
             sockets' = [sockets EXCEPT ![c] = After(read, Msg(type, s, NoToken), far)]
      PROVE  SocketsIn'
  <2>1. Msg(type, s, NoToken) \in ToPage /\ far \in Ends
    BY <1>1, ToThePage, NoTokenIsOne DEF Ends
  <2>2. QED
    BY <1>2, <1>3, <2>1, AfterTyped, OneTyped DEF BridgeOK
<1>4. PageOK /\ tokens \in [Session -> Nat \cup {Ended}] /\ PageCallsOK'
      /\ UNCHANGED <<sid, tok, tabs, rows, authed, panel, status, lists, storage, clicks>>
  BY DEF BridgeOK, PageOK, PageCallsOK, ServerReads, pageOnly
<1>5. SocketsIn' /\ tokens' \in [Session -> Nat \cup {Ended}]
  <2>1. CASE sockets' = [sockets EXCEPT ![c] = read] /\ UNCHANGED tokens
    BY <1>2, <1>4, <2>1, OneTyped DEF BridgeOK
  <2>2. CASE tokens' = [tokens EXCEPT ![s] = Ended] /\ sockets' = Told(sockets, s, Msg("exited", s, NoToken))
    BY <1>1, <2>2, EndsTold
  <2>3. CASE UNCHANGED tokens /\ sockets' = [sockets EXCEPT ![c] = After(read, Msg("error", s, NoToken), s)]
    BY <1>1, <1>3, <1>4, <2>3
  <2>4. CASE UNCHANGED tokens /\ sockets' = [sockets EXCEPT ![c] = After(read, Msg("detached", s, NoToken), "over")]
    BY <1>1, <1>3, <1>4, <2>4
  <2>5. QED
    BY <2>1, <2>2, <2>3, <2>4 DEF ServerReads, read
<1>6. onNode' \subseteq Session
  BY <1>4 DEF ServerReads, PageOK
<1>7. PageOK'
  BY <1>4, <1>5, <1>6 DEF PageOK
<1>8. QED
  BY <1>4, <1>5, <1>7 DEF BridgeOK

LEMMA LeavesTyped ==
    ASSUME BridgeOK, NEW c \in 1 .. Len(sockets), ServerLeaves(c)
    PROVE  BridgeOK'
<1> DEFINE k == [sockets[c] EXCEPT !.far = "over"]
<1>1. sockets[c] \in PageSocket
  BY DEF BridgeOK, SocketsIn
<1>2. k \in PageSocket
  BY <1>1 DEF PageSocket, Ends
<1>3. sockets' = [sockets EXCEPT ![c] = k]
  BY DEF ServerLeaves
<1> HIDE DEF k
<1>4. SocketsIn'
  BY <1>2, <1>3, OneTyped DEF BridgeOK
<1>5. PageOK' /\ PageCallsOK'
  BY DEF BridgeOK, PageOK, PageCallsOK, ServerLeaves, pageOnly, farOnly
<1>6. QED
  BY <1>4, <1>5 DEF BridgeOK

LEMMA BridgeOKIsEnough == BridgeOK => BridgeTypeOK
<1> SUFFICES ASSUME BridgeOK PROVE BridgeTypeOK
  OBVIOUS
<1> DEFINE Socket == [ready : {"connecting", "open", "closing", "closed"}, re : BOOLEAN,
                      up : Seq(ToServer), down : Seq(ToPage), far : Ends]
<1>1. PageSocket \subseteq Socket
  <2> SUFFICES ASSUME NEW k \in PageSocket PROVE k \in Socket
    OBVIOUS
  <2>1. k.up \in Seq(ToServer)
    <3>1. FromPage \subseteq ToServer
      BY DEF FromPage
    <3>2. k.up \in Seq(FromPage)
      BY SocketParts
    <3>3. QED
      BY <3>1, <3>2
  <2>2. QED
    BY <2>1 DEF PageSocket
<1>2. sockets \in Seq(Socket)
  <2> HIDE DEF Socket
  <2>1. QED
    BY <1>1 DEF BridgeOK, SocketsIn
<1>3. QED
  BY <1>2 DEF BridgeOK, PageOK, PageCallsOK, SocketsIn, BridgeTypeOK, Ends

LEMMA BridgeInvariant == BridgeSpec => []BridgeOK
<1>1. BridgeInit => BridgeOK
  <2> SUFFICES ASSUME BridgeInit PROVE BridgeOK
    OBVIOUS
  <2>1. PageOK
    <3>1. tabs \in [Session -> PageToken \cup {NoTab}] /\ tokens \in [Session -> Nat \cup {Ended}]
      BY DEF BridgeInit, PageBegins
    <3>2. clicks \in 0 .. MaxClicks
      BY BridgeAssumption DEF BridgeInit
    <3>3. storage \in (Session \cup {NoSession}) \X [Session -> PageToken \cup {NoTab}]
      BY <3>1 DEF BridgeInit
    <3>4. QED
      BY <3>1, <3>2, <3>3, NoTokenIsOne DEF BridgeInit, PageBegins, PageOK, Status
  <2>2. PageCallsOK
    <3> DEFINE k == [kind |-> "connect", at |-> "me", re |-> FALSE]
    <3>1. k \in Calls
      BY DEF Calls
    <3>2. calls = <<k>>
      BY DEF BridgeInit
    <3> HIDE DEF k
    <3>3. QED
      BY <3>1, <3>2, BridgeAssumption DEF PageCallsOK
  <2>3. SocketsIn
    BY BridgeAssumption DEF BridgeInit, SocketsIn
  <2>4. QED
    BY <2>1, <2>2, <2>3 DEF BridgeOK
<1>2. BridgeOK /\ [BridgeNext]_bridgeVars => BridgeOK'
  <2> SUFFICES ASSUME BridgeOK, [BridgeNext]_bridgeVars PROVE BridgeOK'
    OBVIOUS
  <2>1. CASE UNCHANGED bridgeVars
    BY <2>1 DEF BridgeOK, PageOK, PageCallsOK, SocketsIn, bridgeVars
  <2>2. ASSUME NEW s \in Session, ServerEnds(s) PROVE BridgeOK'
    <3>1. SocketsIn' /\ tokens' \in [Session -> Nat \cup {Ended}]
      BY <2>2, EndsTold DEF ServerEnds
    <3>2. PageOK' /\ PageCallsOK'
      BY <2>2, <3>1 DEF BridgeOK, PageOK, PageCallsOK, ServerEnds, pageOnly
    <3>3. QED
      BY <3>1, <3>2 DEF BridgeOK
  <2>3. QED
    BY <2>1, <2>2, OpenTyped, CloseTyped, MessageTyped, BeginsTyped, ReadsTyped, LeavesTyped,
       AnswersTyped, AccessTyped, ListsTyped, ConnectClicksTyped, SocketClicksTyped, ReloadTyped
       DEF BridgeNext
<1>3. QED
  BY <1>1, <1>2, PTL DEF BridgeSpec

(* What the page keeps and what is under way between it and the control     *)
(* plane have the types of their fields.                                    *)
THEOREM BridgeTypeCorrect == BridgeSpec => []BridgeTypeOK
BY BridgeInvariant, BridgeOKIsEnough, PTL

\* What a page comes back with. A token was given out if it is not newer than the registry's.
KnownTo(t, toks) ==
    \/ t \in {NoToken, NoTab}
    \/ /\ t[1] \in Session /\ t[2] \in Nat \ {0}
       /\ t[2] <= toks[t[1]] \/ toks[t[1]] = Ended

Sane(k, toks) ==
    /\ \A i \in DOMAIN k.up :
        KnownTo(k.up[i].token, toks) /\ (k.up[i].type = "reattach" => k.up[i].token # NoToken)
    /\ \A i \in DOMAIN k.down : KnownTo(k.down[i].token, toks)
    /\ k.far = "waiting" => k.down = <<>>
    /\ k.ready = "connecting" => k.far = "waiting" /\ k.up = <<>>

OnHost(k, on) == k.ready = "open" /\ k.far \in Session \ on

Begun == {"started", "reattached"}

\* The registry's token is in the page's entry, or in the answer that is under way to it.
MayReturn(k, tb, toks, on) ==
    OnHost(k, on) =>
        /\ \A i \in DOMAIN k.down :
            \/ k.down[i].type = "error"
            \/ /\ k.down[i].type \in Begun /\ k.down[i].session = k.far
               /\ k.down[i].token = <<k.far, toks[k.far]>>
        /\ \/ tb[k.far] = <<k.far, toks[k.far]>>
           \/ \E i \in DOMAIN k.down : k.down[i].type \in Begun

\* What a socket asks for again is not what another has got.
Old(k, s, toks) ==
    \A i \in DOMAIN k.up :
        k.up[i].type = "reattach" /\ k.up[i].session = s => k.up[i].token # <<s, toks[s]>>

ReturnInv ==
    /\ storage[2] = tabs
    /\ KnownTo(tok, tokens) /\ \A s \in Session : KnownTo(tabs[s], tokens)
    /\ \A c \in 1 .. Len(sockets) : Sane(sockets[c], tokens) /\ MayReturn(sockets[c], tabs, tokens, onNode)
    /\ \A c, d \in 1 .. Len(sockets) :
        c # d /\ OnHost(sockets[c], onNode) => Old(sockets[d], sockets[c].far, tokens)

ReturnOK == ReturnInv /\ BridgeOK /\ SocketsOK(sockets)

\* A step of a socket in which it is asked nothing and told nothing but that it is refused.
Quieter(n, k) ==
    /\ \A i \in DOMAIN n.up :
        \/ \E j \in DOMAIN k.up : n.up[i] = k.up[j]
        \/ n.up[i].type # "reattach" /\ n.up[i].token = NoToken
    /\ \A i \in DOMAIN n.down :
        (\E j \in DOMAIN k.down : n.down[i] = k.down[j]) \/ n.down[i].token = NoToken
    /\ n.far = k.far \/ n.far \in {"over", "refused"}
    /\ n.far = "waiting" => n.down = k.down \/ n.down = <<>>
    /\ n.ready = k.ready \/ n.ready \in {"closing", "closed"}
    /\ n.ready = "connecting" => n = k
    /\ n.ready = "open" /\ n.far \in Session =>
        /\ \A i \in DOMAIN n.down :
            (\E j \in DOMAIN k.down : n.down[i] = k.down[j]) \/ n.down[i].type = "error"
        /\ \A j \in DOMAIN k.down : \E i \in DOMAIN n.down : n.down[i] = k.down[j]

LEMMA FarEnds ==
    /\ \A s \in Session : s \notin {"waiting", "over", "refused"}
BY BridgeAssumption

LEMMA QuietSame == \A k : Quieter(k, k)
BY DEF Quieter

LEMMA QuietAgain ==
    ASSUME NEW k, NEW n, NEW m, Quieter(n, k), Quieter(m, n)
    PROVE  Quieter(m, k)
<1>1. m.far = k.far \/ m.far \in {"over", "refused"}
  BY DEF Quieter
<1>2. m.far = "waiting" => m.down = k.down \/ m.down = <<>>
  BY DEF Quieter
<1>3. m.ready = k.ready \/ m.ready \in {"closing", "closed"}
  BY DEF Quieter
<1>4. m.ready = "connecting" => m = k
  BY DEF Quieter
<1>5. m.ready = "open" /\ m.far \in Session =>
        /\ n.ready = "open" /\ n.far \in Session
        /\ \A i \in DOMAIN m.down :
            (\E j \in DOMAIN k.down : m.down[i] = k.down[j]) \/ m.down[i].type = "error"
        /\ \A j \in DOMAIN k.down : \E i \in DOMAIN m.down : m.down[i] = k.down[j]
  BY FarEnds DEF Quieter
<1>6. \A i \in DOMAIN m.up :
        \/ \E j \in DOMAIN k.up : m.up[i] = k.up[j]
        \/ m.up[i].type # "reattach" /\ m.up[i].token = NoToken
  BY DEF Quieter
<1>7. \A i \in DOMAIN m.down :
        (\E j \in DOMAIN k.down : m.down[i] = k.down[j]) \/ m.down[i].token = NoToken
  BY DEF Quieter
<1>8. QED
  BY <1>1, <1>2, <1>3, <1>4, <1>5, <1>6, <1>7 DEF Quieter

\* What was given out stays so, when a session ends or the page comes back to it.
LEMMA StaysKnown ==
    ASSUME NEW toks, NEW more, NEW t, KnownTo(t, toks), toks \in [Session -> Nat \cup {Ended}],
           \A s \in Session : more[s] = toks[s] \/ more[s] = Ended \/ (more[s] \in Nat /\ toks[s] \in Nat /\ toks[s] <= more[s])
    PROVE  KnownTo(t, more)
<1>1. CASE t \in {NoToken, NoTab}
  BY <1>1 DEF KnownTo
<1>2. CASE t \notin {NoToken, NoTab}
  <2>1. t[1] \in Session /\ t[2] \in Nat \ {0} /\ (t[2] <= toks[t[1]] \/ toks[t[1]] = Ended)
    BY <1>2 DEF KnownTo
  <2>2. toks[t[1]] = Ended => more[t[1]] = Ended
    BY <2>1 DEF Ended
  <2>3. QED
    BY <2>1, <2>2 DEF KnownTo, Ended
<1>3. QED
  BY <1>1, <1>2

LEMMA QuietStep ==
    ASSUME ReturnOK,
           Len(sockets') \in Nat,
           \A c \in 1 .. Len(sockets') :
              \/ c \in 1 .. Len(sockets) /\ Quieter(sockets'[c], sockets[c])
              \/ \E re : sockets'[c] = NewSocket(re),
           \A s \in Session :
              \/ tokens'[s] = tokens[s]
              \/ tokens'[s] = Ended /\ \A c \in 1 .. Len(sockets') : sockets'[c].far # s,
           onNode' = onNode,
           storage'[2] = tabs',
           KnownTo(tok', tokens), \A s \in Session : KnownTo(tabs'[s], tokens),
           \A c \in 1 .. Len(sockets') :
              OnHost(sockets'[c], onNode) => LET s == sockets'[c].far IN
                  tabs[s] = <<s, tokens[s]>> => tabs'[s] = <<s, tokens[s]>>
    PROVE  ReturnInv'
<1>1. tokens \in [Session -> Nat \cup {Ended}]
  BY DEF ReturnOK, BridgeOK, PageOK
<1>2. \A t : KnownTo(t, tokens) => KnownTo(t, tokens')
  BY <1>1, StaysKnown
<1>3. KnownTo(NoToken, tokens)
  BY DEF KnownTo
<1>4. ASSUME NEW c \in 1 .. Len(sockets'), NEW re, sockets'[c] = NewSocket(re)
      PROVE  /\ Sane(sockets'[c], tokens') /\ ~OnHost(sockets'[c], onNode)
             /\ \A s : Old(sockets'[c], s, tokens')
  BY <1>4 DEF NewSocket, Sane, OnHost, Old
<1>5. ASSUME NEW c \in 1 .. Len(sockets), c \in 1 .. Len(sockets'), Quieter(sockets'[c], sockets[c])
      PROVE  /\ Sane(sockets'[c], tokens')
             /\ OnHost(sockets'[c], onNode) =>
                  /\ OnHost(sockets[c], onNode) /\ sockets'[c].far = sockets[c].far
                  /\ tokens'[sockets[c].far] = tokens[sockets[c].far]
             /\ MayReturn(sockets'[c], tabs', tokens', onNode)
             /\ \A s : Old(sockets[c], s, tokens) /\ tokens'[s] = tokens[s] => Old(sockets'[c], s, tokens')
  <2> DEFINE n == sockets'[c]
             k == sockets[c]
  <2>1. Sane(k, tokens) /\ MayReturn(k, tabs, tokens, onNode)
    BY DEF ReturnOK, ReturnInv
  <2>2. Quieter(n, k)
    BY <1>5
  <2>9. \A s \in Session :
          \/ tokens'[s] = tokens[s]
          \/ tokens'[s] = Ended /\ n.far # s
    BY <1>5
  <2>10. OnHost(n, onNode) => (tabs[n.far] = <<n.far, tokens[n.far]>> => tabs'[n.far] = <<n.far, tokens[n.far]>>)
    BY <1>5
  <2> HIDE DEF n, k
  <2>3. \A i \in DOMAIN n.up :
          KnownTo(n.up[i].token, tokens') /\ (n.up[i].type = "reattach" => n.up[i].token # NoToken)
    BY <1>2, <1>3, <2>1, <2>2 DEF Quieter, Sane
  <2>4. \A i \in DOMAIN n.down : KnownTo(n.down[i].token, tokens')
    BY <1>2, <1>3, <2>1, <2>2 DEF Quieter, Sane
  <2>5. n.far = "waiting" => n.down = <<>>
    BY <2>1, <2>2 DEF Quieter, Sane
  <2>6. n.ready = "connecting" => n.far = "waiting" /\ n.up = <<>>
    BY <2>1, <2>2 DEF Quieter, Sane
  <2>7. OnHost(n, onNode) =>
          /\ OnHost(k, onNode) /\ n.far = k.far /\ tokens'[k.far] = tokens[k.far]
    BY <2>2, <2>9, FarEnds DEF OnHost, Quieter
  <2>8. MayReturn(n, tabs', tokens', onNode)
    <3> SUFFICES ASSUME OnHost(n, onNode)
                 PROVE  /\ \A i \in DOMAIN n.down :
                            \/ n.down[i].type = "error"
                            \/ /\ n.down[i].type \in Begun /\ n.down[i].session = n.far
                               /\ n.down[i].token = <<n.far, tokens'[n.far]>>
                        /\ \/ tabs'[n.far] = <<n.far, tokens'[n.far]>>
                           \/ \E i \in DOMAIN n.down : n.down[i].type \in Begun
      BY DEF MayReturn
    <3>1. /\ \A i \in DOMAIN k.down :
                \/ k.down[i].type = "error"
                \/ /\ k.down[i].type \in Begun /\ k.down[i].session = k.far
                   /\ k.down[i].token = <<k.far, tokens[k.far]>>
          /\ tabs[k.far] = <<k.far, tokens[k.far]>> \/ \E i \in DOMAIN k.down : k.down[i].type \in Begun
      BY <2>1, <2>7 DEF MayReturn
    <3>2. /\ \A i \in DOMAIN n.down :
              (\E j \in DOMAIN k.down : n.down[i] = k.down[j]) \/ n.down[i].type = "error"
          /\ \A j \in DOMAIN k.down : \E i \in DOMAIN n.down : n.down[i] = k.down[j]
      BY <2>2 DEF Quieter, OnHost
    <3>3. QED
      BY <2>7, <2>10, <3>1, <3>2
  <2>11. \A s : Old(k, s, tokens) /\ tokens'[s] = tokens[s] => Old(n, s, tokens')
    BY <2>2 DEF Old, Quieter
  <2>12. QED
    BY <2>3, <2>4, <2>5, <2>6, <2>7, <2>8, <2>11 DEF Sane, n, k
<1>6. \A c \in 1 .. Len(sockets') : Sane(sockets'[c], tokens') /\ MayReturn(sockets'[c], tabs', tokens', onNode)
  BY <1>4, <1>5 DEF MayReturn
<1>7. ASSUME NEW c \in 1 .. Len(sockets'), NEW d \in 1 .. Len(sockets'), c # d, OnHost(sockets'[c], onNode)
      PROVE  Old(sockets'[d], sockets'[c].far, tokens')
  <2>1. /\ c \in 1 .. Len(sockets) /\ OnHost(sockets[c], onNode) /\ sockets'[c].far = sockets[c].far
        /\ tokens'[sockets[c].far] = tokens[sockets[c].far]
    BY <1>4, <1>5, <1>7
  <2>2. CASE d \in 1 .. Len(sockets) /\ Quieter(sockets'[d], sockets[d])
    <3>1. Old(sockets[d], sockets[c].far, tokens)
      BY <1>7, <2>1, <2>2 DEF ReturnOK, ReturnInv
    <3>2. QED
      BY <1>5, <2>1, <2>2, <3>1
  <2>3. QED
    BY <1>4, <2>1, <2>2
<1>8. QED
  BY <1>2, <1>6, <1>7 DEF ReturnInv

LEMMA QuietSending ==
    ASSUME NEW socks \in Seq(PageSocket), NEW m, m \in FromPage, m.type # "reattach", m.token = NoToken
    PROVE  \A d \in 1 .. Len(socks) : Quieter(Sending(socks, <<m>>)[d], socks[d])
<1> SUFFICES ASSUME NEW d \in 1 .. Len(socks) PROVE Quieter(Sending(socks, <<m>>)[d], socks[d])
  OBVIOUS
<1> DEFINE c == Len(socks)
           k == socks[d]
           n == [k EXCEPT !.up = @ \o <<m>>]
<1>1. CASE Sending(socks, <<m>>)[d] = k
  BY <1>1, QuietSame
<1>2. CASE /\ d = c /\ k.ready = "open" /\ Sending(socks, <<m>>) = [socks EXCEPT ![c].up = @ \o <<m>>]
  <2>1. k \in PageSocket /\ k.up \in Seq(FromPage)
    BY SocketParts
  <2>2. Sending(socks, <<m>>)[d] = n
    <3>1. DOMAIN socks = 1 .. c /\ d \in DOMAIN socks
      OBVIOUS
    <3>2. Sending(socks, <<m>>) = [socks EXCEPT ![d] = n]
      BY <1>2
    <3> HIDE DEF n, k
    <3>3. QED
      BY <3>1, <3>2
  <2>3. /\ n.up = k.up \o <<m>> /\ n.down = k.down /\ n.far = k.far /\ n.ready = k.ready
    BY <2>1 DEF PageSocket
  <2> HIDE DEF n, k
  <2>4. \A i \in DOMAIN n.up : (\E j \in DOMAIN k.up : n.up[i] = k.up[j]) \/ n.up[i] = m
    <3>1. n.up = Append(k.up, m)
      BY <2>1, <2>3
    <3>2. \A i \in DOMAIN n.up : i \in DOMAIN k.up \/ i = Len(k.up) + 1
      BY <2>1, <3>1
    <3>3. \A i \in DOMAIN k.up : n.up[i] = k.up[i]
      BY <2>1, <3>1
    <3>4. n.up[Len(k.up) + 1] = m
      BY <2>1, <3>1
    <3>5. QED
      BY <3>2, <3>3, <3>4
  <2>5. n.ready = "open"
    BY <1>2, <2>3
  <2>6. Quieter(n, k)
    BY <2>3, <2>4, <2>5 DEF Quieter
  <2>7. QED
    BY <2>2, <2>6 DEF k
<1>3. QED
  BY <1>1, <1>2 DEF Sending

LEMMA QuietClosing ==
    ASSUME NEW socks \in Seq(PageSocket)
    PROVE  \A d \in 1 .. Len(socks) : Quieter(Closing(socks)[d], socks[d])
<1> SUFFICES ASSUME NEW d \in 1 .. Len(socks) PROVE Quieter(Closing(socks)[d], socks[d])
  OBVIOUS
<1> DEFINE c == Len(socks)
           k == socks[d]
           n == [k EXCEPT !.ready = "closing", !.re = FALSE, !.down = <<>>]
<1>1. CASE Closing(socks)[d] = k
  BY <1>1, QuietSame
<1>2. CASE /\ d = c
           /\ Closing(socks) = [socks EXCEPT ![c].ready = "closing", ![c].re = FALSE, ![c].down = <<>>]
  <2>1. k \in PageSocket
    OBVIOUS
  <2>2. Closing(socks)[d] = n
    <3>1. DOMAIN socks = 1 .. c /\ d \in DOMAIN socks
      OBVIOUS
    <3>2. Closing(socks) = [socks EXCEPT ![d] = n]
      BY <1>2
    <3> HIDE DEF n, k
    <3>3. QED
      BY <3>1, <3>2
  <2>3. n.up = k.up /\ n.down = <<>> /\ n.far = k.far /\ n.ready = "closing"
    BY <2>1 DEF PageSocket
  <2> HIDE DEF n, k
  <2>4. QED
    BY <2>2, <2>3 DEF Quieter, k
<1>3. QED
  BY <1>1, <1>2 DEF Closing

\* The handler of a socket, having read i messages of k, says m and goes on as `far`.
LEMMA QuietAfter ==
    ASSUME NEW k \in PageSocket, NEW r \in PageSocket, NEW m \in ToPage, NEW far,
           r.up = k.up \/ (k.up # <<>> /\ r.up = Tail(k.up)),
           r.down = k.down, r.far = k.far, r.ready = k.ready, k.ready # "connecting",
           m.token = NoToken,
           far \in {"over", "refused"} \/ (far = k.far /\ far \in Session /\ m.type = "error")
    PROVE  Quieter(After(r, m, far), k)
<1> DEFINE n == After(r, m, far)
<1>1. /\ n.far = far /\ n.ready = k.ready
      /\ n.down = IF k.ready = "open" THEN Append(k.down, m) ELSE k.down
      /\ n.up = r.up \/ n.up = <<>>
  BY DEF After, PageSocket
<1>2. k.up \in Seq(FromPage) /\ k.down \in Seq(ToPage)
  BY SocketParts
<1>3. \A i \in DOMAIN n.up : \E j \in DOMAIN k.up : n.up[i] = k.up[j]
  <2>1. CASE n.up = k.up
    BY <2>1
  <2>2. CASE n.up = <<>>
    BY <2>2
  <2>3. CASE n.up = Tail(k.up) /\ k.up # <<>>
    <3>1. \A i \in DOMAIN Tail(k.up) : i + 1 \in DOMAIN k.up /\ Tail(k.up)[i] = k.up[i + 1]
      BY <1>2, <2>3
    <3>2. QED
      BY <2>3, <3>1
  <2>4. QED
    BY <1>1, <2>1, <2>2, <2>3
<1>4. /\ \A i \in DOMAIN n.down : (\E j \in DOMAIN k.down : n.down[i] = k.down[j]) \/ n.down[i] = m
      /\ \A j \in DOMAIN k.down : \E i \in DOMAIN n.down : n.down[i] = k.down[j]
  <2>1. CASE n.down = k.down
    BY <2>1
  <2>2. CASE n.down = Append(k.down, m)
    <3>1. \A i \in DOMAIN n.down : i \in DOMAIN k.down \/ i = Len(k.down) + 1
      BY <1>2, <2>2
    <3>2. \A i \in DOMAIN k.down : i \in DOMAIN n.down /\ n.down[i] = k.down[i]
      BY <1>2, <2>2
    <3>3. n.down[Len(k.down) + 1] = m
      BY <1>2, <2>2
    <3>4. QED
      BY <3>1, <3>2, <3>3
  <2>3. QED
    BY <1>1, <2>1, <2>2
<1>5. n.ready = "connecting" => n = k
  BY <1>1
<1> HIDE DEF n
<1>6. far # "waiting"
  BY FarEnds
<1>7. (n.ready = "open" /\ n.far \in Session) => m.type = "error"
  BY <1>1, FarEnds
<1>8. QED
  BY <1>1, <1>3, <1>4, <1>5, <1>6, <1>7 DEF Quieter, n

\* It answers what it has read.
LEMMA AnswersQuietly ==
    ASSUME NEW k \in PageSocket, k.up # <<>>, k.ready # "connecting",
           NEW m \in ToPage, m.token = NoToken, NEW far,
           far \in {"over", "refused"} \/ (far = k.far /\ far \in Session /\ m.type = "error")
    PROVE  Quieter(After([k EXCEPT !.up = Tail(@)], m, far), k)
<1> DEFINE r == [k EXCEPT !.up = Tail(@)]
<1>1. r.up = Tail(k.up) /\ r.down = k.down /\ r.far = k.far /\ r.ready = k.ready
  BY DEF PageSocket
<1>2. r \in PageSocket
  <2>1. Tail(k.up) \in Seq(FromPage)
    BY SocketParts
  <2>2. QED
    BY <2>1 DEF PageSocket
<1> HIDE DEF r
<1>3. Quieter(After(r, m, far), k)
  BY <1>1, <1>2, QuietAfter
<1>4. QED
  BY <1>3 DEF r

\* A step in which one socket grows quieter, and nothing else changes.
LEMMA QuietOne ==
    ASSUME ReturnOK, NEW c \in 1 .. Len(sockets), NEW n, sockets' = [sockets EXCEPT ![c] = n],
           Quieter(n, sockets[c]), UNCHANGED <<tok, tabs, storage, tokens, onNode>>
    PROVE  ReturnInv'
<1>1. /\ Len(sockets') = Len(sockets) /\ Len(sockets) \in Nat
      /\ \A d \in 1 .. Len(sockets) : sockets'[d] = IF d = c THEN n ELSE sockets[d]
  BY DEF ReturnOK, BridgeOK, SocketsIn
<1>2. \A d \in 1 .. Len(sockets) : Quieter(sockets'[d], sockets[d])
  BY <1>1, QuietSame
<1>3. /\ storage[2] = tabs /\ KnownTo(tok, tokens) /\ \A s \in Session : KnownTo(tabs[s], tokens)
  BY DEF ReturnOK, ReturnInv
<1>4. QED
  BY <1>1, <1>2, <1>3, QuietStep

LEMMA QuietFacts ==
    ASSUME ReturnOK
    PROVE  /\ storage[2] = tabs /\ KnownTo(tok, tokens) /\ \A s \in Session : KnownTo(tabs[s], tokens)
           /\ KnownTo(NoToken, tokens) /\ KnownTo(NoTab, tokens)
           /\ sockets \in Seq(PageSocket) /\ Len(sockets) \in Nat /\ DOMAIN sockets = 1 .. Len(sockets)
           /\ tabs \in [Session -> PageToken \cup {NoTab}] /\ tokens \in [Session -> Nat \cup {Ended}]
           /\ sid \in Session \cup {NoSession}
<1>1. KnownTo(NoToken, tokens) /\ KnownTo(NoTab, tokens)
  BY DEF KnownTo
<1>2. sockets \in Seq(PageSocket) /\ Len(sockets) \in Nat /\ DOMAIN sockets = 1 .. Len(sockets)
  BY DEF ReturnOK, BridgeOK, SocketsIn
<1>3. QED
  BY <1>1, <1>2 DEF ReturnOK, ReturnInv, BridgeOK, PageOK

\* The page remembers something, and no socket changes.
LEMMA RemembersStep ==
    ASSUME ReturnOK, UNCHANGED <<sockets, tokens, onNode>>, storage'[2] = tabs',
           KnownTo(tok', tokens), \A s \in Session : KnownTo(tabs'[s], tokens),
           \A s \in Session : tabs[s] = <<s, tokens[s]>> => tabs'[s] = <<s, tokens[s]>>
    PROVE  ReturnInv'
<1>1. \A c \in 1 .. Len(sockets') : c \in 1 .. Len(sockets) /\ Quieter(sockets'[c], sockets[c])
  BY QuietSame
<1>2. Len(sockets') \in Nat
  BY QuietFacts
<1>3. QED
  BY <1>1, <1>2, QuietStep DEF OnHost

LEMMA WaitingCallsKeep ==
    ASSUME ReturnOK,
           \/ \E i \in 1 .. Len(calls) : MeAnswers(i) \/ LoginAnswers(i) \/ MfaAnswers(i)
           \/ \E s \in Session : ClickTab(s) \/ ClickRow(s)
           \/ ListsArrive \/ ClickLogin \/ ClickMfa \/ ClickReconnect \/ ClickRetry
    PROVE  ReturnInv'
<1>1. CASE UNCHANGED <<tok, tabs, storage, sockets, tokens, onNode>>
  BY <1>1, RemembersStep, QuietFacts
<1>2. ASSUME NEW s \in Session, ClickTab(s) \/ ClickRow(s) PROVE ReturnInv'
  <2>1. UNCHANGED <<tabs, storage, sockets, tokens, onNode>> /\ (tok' = tok \/ tok' = tabs[s])
    BY <1>2 DEF ClickTab, ClickRow, sessions
  <2>2. QED
    BY <2>1, RemembersStep, QuietFacts
<1>3. CASE ListsArrive
  <2>1. UNCHANGED <<sockets, tokens, onNode, tok>> /\ storage'[2] = tabs'
    BY <1>3 DEF ListsArrive, Persisted, farOnly
  <2>2. \A s \in Session :
          tabs'[s] = tabs[s] \/ (tabs'[s] = NoToken /\ tabs[s] = NoTab /\ tokens[s] > 0)
    BY <1>3 DEF ListsArrive
  <2>3. \A s \in Session : KnownTo(tabs'[s], tokens)
    BY <2>2, QuietFacts
  <2>4. \A s \in Session : tabs[s] = <<s, tokens[s]>> => tabs'[s] = <<s, tokens[s]>>
    BY <2>2, QuietFacts DEF NoTab
  <2>5. QED
    BY <2>1, <2>3, <2>4, RemembersStep, QuietFacts
<1>4. QED
  BY <1>1, <1>2, <1>3 DEF MeAnswers, LoginAnswers, MfaAnswers, AskLists, ClickLogin, ClickMfa, ClickReconnect,
     ClickRetry, sessions, farOnly

\* What the page sends about the session it shows changes nothing that is given out.
LEMMA QuietTold ==
    ASSUME ReturnOK, NEW type \in {"input", "detach", "terminate"}, NEW t,
           t \in {sockets, Sending(sockets, <<Msg(type, sid, NoToken)>>)}
    PROVE  /\ t \in Seq(PageSocket) /\ Len(t) = Len(sockets) /\ SocketsOK(t)
           /\ \A d \in 1 .. Len(sockets) : Quieter(t[d], sockets[d])
<1> DEFINE m == Msg(type, sid, NoToken)
<1>1. m \in FromPage /\ m.type # "reattach" /\ m.token = NoToken
  <2>1. m.type = type /\ m.token = NoToken
    BY DEF Msg
  <2>2. m \in FromPage
    BY FromThePage, QuietFacts
  <2>3. QED
    BY <2>1, <2>2
<1> HIDE DEF m
<1>2. sockets \in Seq(PageSocket) /\ SocketsOK(sockets)
  BY QuietFacts DEF ReturnOK
<1>3. CASE t = sockets
  BY <1>2, <1>3, QuietSame
<1>4. CASE t = Sending(sockets, <<m>>)
  <2>1. <<m>> \in Seq(FromPage)
    BY <1>1
  <2>2. \A d \in 1 .. Len(sockets) : Quieter(Sending(sockets, <<m>>)[d], sockets[d])
    BY <1>1, <1>2, QuietSending
  <2>3. QED
    BY <1>2, <1>4, <2>1, <2>2, SendingTyped, SendingOpensNone
<1>5. QED
  BY <1>3, <1>4 DEF m

\* The page closes its socket, having said what it had to.
LEMMA ShutsStep ==
    ASSUME ReturnOK, NEW type \in {"input", "detach", "terminate"}, NEW t,
           t \in {sockets, Sending(sockets, <<Msg(type, sid, NoToken)>>)},
           sockets' = Closing(t), UNCHANGED <<tokens, onNode>>, storage'[2] = tabs',
           KnownTo(tok', tokens), \A s \in Session : KnownTo(tabs'[s], tokens)
    PROVE  ReturnInv'
<1>1. /\ t \in Seq(PageSocket) /\ Len(t) = Len(sockets) /\ SocketsOK(t)
      /\ \A d \in 1 .. Len(sockets) : Quieter(t[d], sockets[d])
  BY QuietTold
<1>2. Len(sockets') = Len(sockets) /\ Len(sockets) \in Nat
  BY <1>1, ClosingTyped, QuietFacts
<1>3. \A d \in 1 .. Len(sockets') : sockets'[d].ready # "open"
  BY <1>1, <1>2, ClosingLeavesNone DEF Live
<1>4. \A d \in 1 .. Len(sockets') : d \in 1 .. Len(sockets) /\ Quieter(sockets'[d], sockets[d])
  BY <1>1, <1>2, QuietClosing, QuietAgain
<1>5. QED
  BY <1>2, <1>3, <1>4, QuietStep DEF OnHost

LEMMA PageShuts ==
    ASSUME ReturnOK, ClickNew \/ ClickTerminate \/ ClickDetach(TRUE) \/ ClickDetach(FALSE)
    PROVE  ReturnInv'
<1>1. CASE ClickNew
  BY <1>1, ShutsStep, QuietFacts DEF ClickNew, sessions
<1>2. ASSUME Forget(sid)
      PROVE  storage'[2] = tabs' /\ KnownTo(tok', tokens) /\ \A s \in Session : KnownTo(tabs'[s], tokens)
  BY <1>2, QuietFacts DEF Forget, Persisted
<1>3. CASE ClickTerminate
  <2>1. CASE sid = NoSession
    BY <1>3, <2>1, ShutsStep, QuietFacts DEF ClickTerminate, sessions
  <2>2. CASE sid # NoSession
    BY <1>2, <1>3, <2>2, ShutsStep DEF ClickTerminate, sessions
  <2>3. QED
    BY <2>1, <2>2
<1>4. ASSUME NEW forgets \in BOOLEAN, ClickDetach(forgets) PROVE ReturnInv'
  <2>1. /\ sockets' = Closing(Sending(sockets, <<Msg("detach", sid, NoToken)>>))
        /\ UNCHANGED <<tokens, onNode>>
    BY <1>4 DEF ClickDetach, sessions
  <2>2. storage'[2] = tabs' /\ KnownTo(tok', tokens) /\ \A s \in Session : KnownTo(tabs'[s], tokens)
    <3>1. CASE forgets
      BY <1>2, <1>4, <3>1 DEF ClickDetach
    <3>2. CASE ~forgets
      BY <1>4, <3>2, QuietFacts DEF ClickDetach, Persisted
    <3>3. QED
      BY <3>1, <3>2
  <2>3. QED
    BY <2>1, <2>2, ShutsStep
<1>5. QED
  BY <1>1, <1>3, <1>4

LEMMA PageReturns ==
    ASSUME ReturnOK, Reload
    PROVE  ReturnInv'
<1> DEFINE told == IF sid = NoSession THEN sockets ELSE Sending(sockets, <<Msg("detach", sid, NoToken)>>)
           left == Closing(told)
           shut(c) == [left[c] EXCEPT !.ready = "closed", !.re = FALSE, !.down = <<>>]
<1>1. /\ told \in Seq(PageSocket) /\ Len(told) = Len(sockets)
      /\ \A d \in 1 .. Len(sockets) : Quieter(told[d], sockets[d])
  BY QuietTold
<1>2. sockets' = [c \in 1 .. Len(left) |-> shut(c)] /\ UNCHANGED <<tokens, onNode, storage>> /\ tabs' = storage[2]
  BY DEF Reload, sessions
<1> HIDE DEF told
<1>3. left \in Seq(PageSocket) /\ Len(left) = Len(sockets)
      /\ \A d \in 1 .. Len(sockets) : Quieter(left[d], sockets[d])
  BY <1>1, ClosingTyped, QuietClosing, QuietAgain
<1> HIDE DEF left
<1>4. ASSUME NEW d \in 1 .. Len(sockets) PROVE Quieter(shut(d), left[d]) /\ shut(d).ready # "open"
  <2>1. left[d] \in PageSocket
    BY <1>3
  <2>2. shut(d).up = left[d].up /\ shut(d).down = <<>> /\ shut(d).far = left[d].far /\ shut(d).ready = "closed"
    BY <2>1 DEF PageSocket
  <2> HIDE DEF shut
  <2>3. QED
    BY <2>2 DEF Quieter
<1>5. Len(sockets') = Len(sockets) /\ Len(sockets) \in Nat /\ \A d \in 1 .. Len(sockets) : sockets'[d] = shut(d)
  <2> HIDE DEF shut
  <2>1. \E S : sockets' \in Seq(S)
    <3>1. sockets' \in Seq({shut(c) : c \in 1 .. Len(left)})
      BY <1>2, <1>3, QuietFacts, IsASeq
    <3>2. QED
      BY <3>1
  <2>2. QED
    BY <1>2, <1>3, <2>1, QuietFacts
<1> HIDE DEF shut
<1>6. \A d \in 1 .. Len(sockets') : d \in 1 .. Len(sockets) /\ Quieter(sockets'[d], sockets[d]) /\ sockets'[d].ready # "open"
  BY <1>3, <1>4, <1>5, QuietAgain
<1>7. tabs' = tabs /\ storage'[2] = tabs' /\ KnownTo(tok', tokens)
  <2>1. tabs' = tabs /\ storage'[2] = tabs'
    BY <1>2, QuietFacts
  <2>2. storage[1] \in Session \cup {NoSession}
    BY DEF ReturnOK, BridgeOK, PageOK
  <2>3. KnownTo(Loaded, tokens)
    BY <2>2, QuietFacts DEF Loaded
  <2>4. QED
    BY <2>1, <2>3, QuietFacts DEF Reload
<1>8. QED
  BY <1>2, <1>5, <1>6, <1>7, QuietStep, QuietFacts DEF OnHost

LEMMA SocketsShut ==
    ASSUME ReturnOK, NEW c \in 1 .. Len(sockets), CloseEvent(c) \/ ServerLeaves(c)
    PROVE  ReturnInv'
<1> DEFINE k == sockets[c]
<1>1. k \in PageSocket /\ k.up \in Seq(FromPage)
  BY QuietFacts, SocketParts
<1>2. CASE CloseEvent(c)
  <2>1. PICK i \in 0 .. Len(k.up) :
          sockets' = [sockets EXCEPT ![c].ready = "closed", ![c].re = FALSE,
                                     ![c].up = SubSeq(@, 1, i), ![c].down = <<>>]
    BY <1>2 DEF CloseEvent
  <2> DEFINE n == [k EXCEPT !.ready = "closed", !.re = FALSE, !.up = SubSeq(@, 1, i), !.down = <<>>]
  <2>2. sockets' = [sockets EXCEPT ![c] = n]
    BY <2>1
  <2>3. n.up = SubSeq(k.up, 1, i) /\ n.down = <<>> /\ n.far = k.far /\ n.ready = "closed"
    BY <1>1 DEF PageSocket
  <2> HIDE DEF n, k
  <2>4. \A j \in DOMAIN n.up : j \in DOMAIN k.up /\ n.up[j] = k.up[j]
    BY <1>1, <2>3
  <2>5. Quieter(n, k)
    BY <2>3, <2>4 DEF Quieter
  <2>6. QED
    BY <1>2, <2>2, <2>5, QuietOne DEF k, CloseEvent, farOnly
<1>3. CASE ServerLeaves(c)
  <2> DEFINE n == [k EXCEPT !.far = "over"]
  <2>1. sockets' = [sockets EXCEPT ![c] = n] /\ k.ready \in {"closing", "closed"}
    BY <1>3 DEF ServerLeaves
  <2>2. n.up = k.up /\ n.down = k.down /\ n.far = "over" /\ n.ready = k.ready
    BY <1>1 DEF PageSocket
  <2>3. UNCHANGED <<tok, tabs, storage, tokens, onNode>>
    BY <1>3 DEF ServerLeaves, pageOnly, farOnly
  <2> HIDE DEF n, k
  <2>4. Quieter(n, k)
    BY <2>1, <2>2, FarEnds DEF Quieter
  <2>5. QED
    BY <2>1, <2>3, <2>4, QuietOne DEF k
<1>4. QED
  BY <1>2, <1>3

LEMMA TypesQuietly ==
    ASSUME ReturnOK, Type
    PROVE  ReturnInv'
<1>1. sockets' = Sending(sockets, <<Msg("input", sid, NoToken)>>) /\ UNCHANGED <<tok, tabs, storage, tokens, onNode>>
  BY DEF Type, pageOnly, sessions
<1>2. /\ sockets' \in Seq(PageSocket) /\ Len(sockets') = Len(sockets)
      /\ \A d \in 1 .. Len(sockets) : Quieter(sockets'[d], sockets[d])
  BY <1>1, QuietTold
<1>3. QED
  BY <1>1, <1>2, QuietStep, QuietFacts

LEMMA ReplacesQuietly ==
    ASSUME ReturnOK, NEW i \in 1 .. Len(calls), AccessAnswers(i)
    PROVE  ReturnInv'
<1>1. UNCHANGED <<tok, tabs, storage, tokens, onNode>>
  BY DEF AccessAnswers, farOnly
<1>2. CASE UNCHANGED sockets
  BY <1>1, <1>2, RemembersStep, QuietFacts
<1>3. CASE \E re : sockets' = Replaced(re)
  <2> DEFINE s == Closing(sockets)
  <2>1. PICK re : sockets' = Append(s, NewSocket(re))
    BY <1>3 DEF Replaced
  <2>2. s \in Seq(PageSocket) /\ Len(s) = Len(sockets) /\ \A d \in 1 .. Len(sockets) : Quieter(s[d], sockets[d])
    BY QuietFacts, ClosingTyped, QuietClosing
  <2> DEFINE k == NewSocket(re)
  <2> HIDE DEF s, k
  <2>3. s \in Seq(PageSocket \cup {k}) /\ k \in PageSocket \cup {k}
    BY <2>2
  <2>4. Len(sockets') = Len(sockets) + 1 /\ sockets'[Len(sockets) + 1] = k
        /\ \A d \in 1 .. Len(sockets) : sockets'[d] = s[d]
    BY <2>1, <2>2, <2>3, AppendProperties DEF k
  <2>5. \A d \in 1 .. Len(sockets') : d \in 1 .. Len(sockets) \/ d = Len(sockets) + 1
    BY <2>4, QuietFacts
  <2>6. \A d \in 1 .. Len(sockets') :
          (d \in 1 .. Len(sockets) /\ Quieter(sockets'[d], sockets[d])) \/ \E r : sockets'[d] = NewSocket(r)
    BY <2>2, <2>4, <2>5 DEF k
  <2>7. Len(sockets') \in Nat
    BY <2>4, QuietFacts
  <2>8. QED
    BY <1>1, <2>6, <2>7, QuietStep, QuietFacts
<1>4. QED
  BY <1>2, <1>3 DEF AccessAnswers

\* Every connection to a session is told that it has ended.
LEMMA EndsQuietly ==
    ASSUME ReturnOK, NEW s \in Session, sockets' = Told(sockets, s, Msg("exited", s, NoToken)),
           tokens' = [tokens EXCEPT ![s] = Ended], UNCHANGED <<tok, tabs, storage, onNode>>
    PROVE  ReturnInv'
<1> DEFINE m == Msg("exited", s, NoToken)
<1>1. m \in ToPage /\ m.token = NoToken
  BY ToThePage, NoTokenIsOne DEF Msg
<1> HIDE DEF m
<1>2. /\ sockets' \in Seq(PageSocket) /\ Len(sockets') = Len(sockets)
      /\ \A d \in 1 .. Len(sockets) :
            sockets'[d] = IF sockets[d].far = s THEN After(sockets[d], m, "over") ELSE sockets[d]
  <2>1. Told(sockets, s, m) = [d \in 1 .. Len(sockets) |->
            IF sockets[d].far = s THEN After(sockets[d], m, "over") ELSE sockets[d]]
    BY DEF Told
  <2>2. QED
    BY <1>1, <2>1, ToldTyped, QuietFacts DEF m
<1>3. ASSUME NEW d \in 1 .. Len(sockets) PROVE Quieter(sockets'[d], sockets[d]) /\ sockets'[d].far # s
  <2>1. sockets[d] \in PageSocket /\ Sane(sockets[d], tokens)
    BY QuietFacts DEF ReturnOK, ReturnInv
  <2>2. CASE sockets[d].far # s
    BY <1>2, <2>2, QuietSame
  <2>3. CASE sockets[d].far = s
    <3>1. sockets[d].ready # "connecting"
      BY <2>1, <2>3, FarEnds DEF Sane
    <3>2. Quieter(After(sockets[d], m, "over"), sockets[d])
      BY <1>1, <2>1, <3>1, QuietAfter
    <3>3. After(sockets[d], m, "over").far = "over"
      BY <2>1 DEF After, PageSocket
    <3>4. QED
      BY <1>2, <2>3, <3>2, <3>3, FarEnds
  <2>4. QED
    BY <2>2, <2>3
<1>4. \A x \in Session : tokens'[x] = tokens[x] \/ (tokens'[x] = Ended /\ \A c \in 1 .. Len(sockets') : sockets'[c].far # x)
  BY <1>2, <1>3, QuietFacts
<1>5. QED
  BY <1>2, <1>3, <1>4, QuietStep, QuietFacts

LEMMA ReadsQuietly ==
    ASSUME ReturnOK, NEW c \in 1 .. Len(sockets), ServerReads(c)
    PROVE  ReturnInv'
<1> DEFINE k == sockets[c]
           s == k.far
           read == [k EXCEPT !.up = Tail(@)]
<1>1. k \in PageSocket /\ k.up \in Seq(FromPage) /\ k.up # <<>> /\ s \in Session /\ Sane(k, tokens)
  BY QuietFacts, SocketParts DEF ServerReads, ReturnOK, ReturnInv
<1>2. read.up = Tail(k.up) /\ read.down = k.down /\ read.far = k.far /\ read.ready = k.ready /\ read \in PageSocket
  <2>1. Tail(k.up) \in Seq(FromPage)
    BY <1>1
  <2>2. QED
    BY <1>1, <2>1 DEF PageSocket
<1>3. k.ready # "connecting"
  BY <1>1 DEF Sane
<1>4. UNCHANGED <<tok, tabs, storage, onNode>>
  BY DEF ServerReads, pageOnly
<1> HIDE DEF read
<1>5. CASE sockets' = [sockets EXCEPT ![c] = read] /\ UNCHANGED tokens
  <2>1. \A i \in DOMAIN Tail(k.up) : i + 1 \in DOMAIN k.up /\ Tail(k.up)[i] = k.up[i + 1]
    BY <1>1
  <2>2. Quieter(read, k)
    BY <1>2, <1>3, <2>1 DEF Quieter
  <2>3. QED
    BY <1>4, <1>5, <2>2, QuietOne
<1>6. ASSUME NEW type \in {"error", "detached"}, NEW far,
             (type = "error" /\ far = s) \/ far = "over",
             sockets' = [sockets EXCEPT ![c] = After(read, Msg(type, s, NoToken), far)], UNCHANGED tokens
      PROVE  ReturnInv'
  <2> DEFINE m == Msg(type, s, NoToken)
  <2>1. m \in ToPage /\ m.token = NoToken /\ m.type = type
    BY <1>1, ToThePage, NoTokenIsOne DEF Msg
  <2> HIDE DEF m
  <2>2. Quieter(After(read, m, far), k)
    BY <1>1, <1>3, <1>6, <2>1, AnswersQuietly DEF read
  <2>3. QED
    BY <1>4, <1>6, <2>2, QuietOne DEF m
<1>7. CASE tokens' = [tokens EXCEPT ![s] = Ended] /\ sockets' = Told(sockets, s, Msg("exited", s, NoToken))
  BY <1>1, <1>4, <1>7, EndsQuietly
<1>8. QED
  BY <1>5, <1>6, <1>7 DEF ServerReads, read

\* Only the current socket is open, and an event of it leaves the others shut.
LEMMA OnlyOneOpen ==
    ASSUME ReturnOK, NEW c \in 1 .. Len(sockets), sockets[c].ready \in Live, NEW n,
           sockets' = [sockets EXCEPT ![c] = n]
    PROVE  /\ Len(sockets') = Len(sockets)
           /\ \A d \in 1 .. Len(sockets) : sockets'[d] = IF d = c THEN n ELSE sockets[d]
           /\ \A d \in 1 .. Len(sockets) : d # c => ~OnHost(sockets[d], onNode)
BY QuietFacts DEF ReturnOK, SocketsOK, OnHost, Live

LEMMA OpensNoneYet ==
    ASSUME ReturnOK, NEW c \in 1 .. Len(sockets), OpenEvent(c)
    PROVE  ReturnInv'
<1> DEFINE k == sockets[c]
           n == [k EXCEPT !.ready = "open", !.re = FALSE, !.up = Resized \o <<Opening(c)>>]
<1>1. k \in PageSocket /\ Sane(k, tokens)
  BY QuietFacts DEF ReturnOK, ReturnInv
<1>2. /\ k.ready = "connecting" /\ k.far = "waiting" /\ k.down = <<>>
      /\ sockets' = [sockets EXCEPT ![c] = n]
      /\ UNCHANGED <<tok, tabs, storage, tokens, onNode>>
  BY <1>1 DEF OpenEvent, Sane, farOnly
<1>3. n.up = Resized \o <<Opening(c)>> /\ n.down = <<>> /\ n.far = "waiting" /\ n.ready = "open"
  BY <1>1, <1>2 DEF PageSocket
<1>4. /\ KnownTo(Opening(c).token, tokens)
      /\ Opening(c).type = "reattach" => Opening(c).token # NoToken
  BY QuietFacts DEF Opening, Msg
<1>5. \A i \in DOMAIN n.up :
        KnownTo(n.up[i].token, tokens) /\ (n.up[i].type = "reattach" => n.up[i].token # NoToken)
  <2>1. CASE Resized = <<>>
    <3>1. DOMAIN n.up = {1} /\ n.up[1] = Opening(c)
      BY <1>3, <2>1
    <3>2. QED
      BY <1>4, <3>1
  <2>2. CASE Resized = <<Msg("input", sid, NoToken)>>
    <3>1. DOMAIN n.up = {1, 2} /\ n.up[1] = Msg("input", sid, NoToken) /\ n.up[2] = Opening(c)
      BY <1>3, <2>2
    <3>2. KnownTo(n.up[1].token, tokens) /\ n.up[1].type = "input"
      BY <3>1, QuietFacts DEF Msg
    <3>3. QED
      BY <1>4, <3>1, <3>2
  <2>3. QED
    BY <2>1, <2>2 DEF Resized
<1> HIDE DEF n
<1>6. Sane(n, tokens) /\ ~OnHost(n, onNode)
  BY <1>3, <1>5, FarEnds DEF Sane, OnHost
<1>7. /\ Len(sockets') = Len(sockets)
      /\ \A d \in 1 .. Len(sockets) : sockets'[d] = IF d = c THEN n ELSE sockets[d]
      /\ \A d \in 1 .. Len(sockets) : d # c => ~OnHost(sockets[d], onNode)
  BY <1>2, OnlyOneOpen DEF Live
<1>8. \A d \in 1 .. Len(sockets) : Sane(sockets'[d], tokens) /\ ~OnHost(sockets'[d], onNode)
  BY <1>6, <1>7 DEF ReturnOK, ReturnInv
<1>9. QED
  BY <1>2, <1>7, <1>8, QuietFacts DEF ReturnInv, MayReturn

LEMMA LearnsWhatIsNew ==
    ASSUME ReturnOK, NEW c \in 1 .. Len(sockets), MessageEvent(c)
    PROVE  ReturnInv'
<1> DEFINE k == sockets[c]
           m == Head(k.down)
           n == [k EXCEPT !.down = Tail(@)]
<1>1. k \in PageSocket /\ Sane(k, tokens) /\ MayReturn(k, tabs, tokens, onNode) /\ k.down \in Seq(ToPage)
  BY QuietFacts, SocketParts DEF ReturnOK, ReturnInv
<1>2. /\ k.ready = "open" /\ k.down # <<>> /\ sockets' = [sockets EXCEPT ![c] = n]
      /\ UNCHANGED <<tokens, onNode>>
  BY DEF MessageEvent, farOnly
<1>3. n.up = k.up /\ n.down = Tail(k.down) /\ n.far = k.far /\ n.ready = k.ready
  BY <1>1 DEF PageSocket
<1>4. /\ 1 \in DOMAIN k.down /\ m = k.down[1] /\ m \in ToPage
      /\ \A i \in DOMAIN n.down : i + 1 \in DOMAIN k.down /\ n.down[i] = k.down[i + 1]
      /\ \A j \in DOMAIN k.down : j = 1 \/ (j - 1 \in DOMAIN n.down /\ n.down[j - 1] = k.down[j])
  BY <1>1, <1>2, <1>3
<1>5. /\ Len(sockets') = Len(sockets)
      /\ \A d \in 1 .. Len(sockets) : sockets'[d] = IF d = c THEN n ELSE sockets[d]
      /\ \A d \in 1 .. Len(sockets) : d # c => ~OnHost(sockets[d], onNode)
  BY <1>2, OnlyOneOpen DEF Live
<1>6. \/ m.type \in Begun /\ Learn(m)
      \/ m.type = "detached" /\ tabs' = [tabs EXCEPT ![m.session] = tok] /\ tok' = tok /\ Persisted
      \/ m.type = "error" /\ UNCHANGED <<tok, tabs, storage>>
      \/ m.type = "exited" /\ Forget(m.session)
  BY DEF MessageEvent, Begun
<1> HIDE DEF m, n, k
<1>7. KnownTo(m.token, tokens)
  BY <1>1, <1>4 DEF Sane
<1>8. storage'[2] = tabs' /\ KnownTo(tok', tokens) /\ \A s \in Session : KnownTo(tabs'[s], tokens)
  <2>1. CASE Learn(m)
    BY <1>7, <2>1, QuietFacts DEF Learn, Persisted
  <2>2. CASE tabs' = [tabs EXCEPT ![m.session] = tok] /\ tok' = tok /\ Persisted
    BY <2>2, QuietFacts DEF Persisted
  <2>3. CASE UNCHANGED <<tok, tabs, storage>>
    BY <2>3, QuietFacts
  <2>4. CASE Forget(m.session)
    BY <2>4, QuietFacts DEF Forget, Persisted
  <2>5. QED
    BY <1>6, <2>1, <2>2, <2>3, <2>4
<1>9. Sane(n, tokens)
  BY <1>1, <1>2, <1>3, <1>4 DEF Sane
<1>10. MayReturn(n, tabs', tokens, onNode)
  <2> SUFFICES ASSUME OnHost(n, onNode)
               PROVE  /\ \A i \in DOMAIN n.down :
                            \/ n.down[i].type = "error"
                            \/ /\ n.down[i].type \in Begun /\ n.down[i].session = n.far
                               /\ n.down[i].token = <<n.far, tokens[n.far]>>
                      /\ \/ tabs'[n.far] = <<n.far, tokens[n.far]>>
                         \/ \E i \in DOMAIN n.down : n.down[i].type \in Begun
    BY DEF MayReturn
  <2>1. OnHost(k, onNode) /\ n.far = k.far /\ k.far \in Session
    BY <1>3 DEF OnHost
  <2>2. /\ \A i \in DOMAIN k.down :
            \/ k.down[i].type = "error"
            \/ /\ k.down[i].type \in Begun /\ k.down[i].session = k.far
               /\ k.down[i].token = <<k.far, tokens[k.far]>>
        /\ tabs[k.far] = <<k.far, tokens[k.far]>> \/ \E i \in DOMAIN k.down : k.down[i].type \in Begun
    BY <1>1, <2>1 DEF MayReturn
  <2>3. CASE m.type = "error"
    <3>1. tabs' = tabs
      BY <1>6, <2>3 DEF Begun
    <3>2. m.type \notin Begun
      BY <2>3 DEF Begun
    <3>3. QED
      BY <1>4, <2>1, <2>2, <3>1, <3>2
  <2>4. CASE m.type \in Begun /\ m.session = k.far /\ m.token = <<k.far, tokens[k.far]>>
    <3>1. tabs' = [tabs EXCEPT ![k.far] = m.token]
      BY <1>6, <2>4 DEF Begun, Learn
    <3>2. tabs'[k.far] = <<k.far, tokens[k.far]>>
      BY <2>1, <2>4, <3>1, QuietFacts
    <3>3. QED
      BY <1>4, <2>1, <2>2, <3>2
  <2>5. QED
    BY <1>4, <2>2, <2>3, <2>4
<1>11. \A d \in 1 .. Len(sockets) : Sane(sockets'[d], tokens) /\ MayReturn(sockets'[d], tabs', tokens, onNode)
  BY <1>5, <1>9, <1>10 DEF ReturnOK, ReturnInv, MayReturn
<1>12. ASSUME NEW d \in 1 .. Len(sockets), NEW e \in 1 .. Len(sockets), d # e, OnHost(sockets'[d], onNode)
       PROVE  Old(sockets'[e], sockets'[d].far, tokens)
  <2>1. d = c /\ e # c /\ sockets'[d] = n /\ sockets'[e] = sockets[e] /\ OnHost(k, onNode) /\ n.far = k.far
    BY <1>3, <1>5, <1>12 DEF OnHost
  <2>2. QED
    BY <1>12, <2>1 DEF ReturnOK, ReturnInv, k
<1>13. QED
  BY <1>2, <1>5, <1>8, <1>11, <1>12 DEF ReturnInv

\* What a socket has left to read is what it had.
LEMMA RestRead ==
    ASSUME NEW k \in PageSocket, k.up # <<>>
    PROVE  /\ 1 \in DOMAIN k.up /\ Head(k.up) = k.up[1] /\ Head(k.up) \in FromPage
           /\ \A i \in DOMAIN Tail(k.up) : i + 1 \in DOMAIN k.up /\ Tail(k.up)[i] = k.up[i + 1]
BY SocketParts

\* A socket becomes that of session s, whose token is newer than all that were given out.
LEMMA AttachStep ==
    ASSUME ReturnOK, NEW c \in 1 .. Len(sockets), NEW s \in Session, NEW num \in Nat \ {0},
           NEW type \in Begun, NEW t \in {<<s, num>>, NoToken},
           sockets[c].far = "waiting", sockets[c].up # <<>>,
           sockets' = [sockets EXCEPT ![c] =
               After([sockets[c] EXCEPT !.up = Tail(@)], Msg(type, s, t), s)],
           tokens' = [tokens EXCEPT ![s] = num], tokens[s] \in Nat, tokens[s] < num,
           onNode \subseteq onNode', t = NoToken => s \in onNode',
           \A d \in 1 .. Len(sockets) : d # c /\ OnHost(sockets[d], onNode) => sockets[d].far # s,
           UNCHANGED <<tok, tabs, storage>>
    PROVE  ReturnInv'
<1> DEFINE k == sockets[c]
           m == Msg(type, s, t)
           r == [k EXCEPT !.up = Tail(@)]
           n == After(r, m, s)
<1>1. k \in PageSocket /\ Sane(k, tokens) /\ k.up # <<>> /\ k.ready # "connecting" /\ k.down = <<>>
  BY QuietFacts DEF ReturnOK, ReturnInv, Sane
<1>2. m.type = type /\ m.session = s /\ m.token = t
  BY DEF Msg
<1> HIDE DEF m
<1>3. n.up = Tail(k.up) /\ n.far = s /\ n.ready = k.ready
      /\ n.down = IF k.ready = "open" THEN <<m>> ELSE <<>>
  <2>1. /\ r.up = Tail(k.up) /\ r.down = <<>> /\ r.far = k.far /\ r.ready = k.ready
        /\ DOMAIN r = DOMAIN k /\ DOMAIN k = {"ready", "re", "up", "down", "far"}
    BY <1>1 DEF PageSocket
  <2> HIDE DEF r
  <2>2. Append(<<>>, m) = <<m>>
    OBVIOUS
  <2>3. QED
    BY <2>1, <2>2 DEF After
<1>4. /\ Len(sockets') = Len(sockets) /\ Len(sockets) \in Nat
      /\ \A d \in 1 .. Len(sockets) : sockets'[d] = IF d = c THEN n ELSE sockets[d]
  <2>1. sockets' = [sockets EXCEPT ![c] = n]
    BY DEF m
  <2> HIDE DEF n
  <2>2. QED
    BY <2>1, QuietFacts
<1> HIDE DEF n, k
<1>5. tokens'[s] = num /\ \A x \in Session : x # s => tokens'[x] = tokens[x]
  BY QuietFacts
<1>6. \A x : KnownTo(x, tokens) => KnownTo(x, tokens')
  <2>1. \A x \in Session :
          \/ tokens'[x] = tokens[x]
          \/ tokens'[x] \in Nat /\ tokens[x] \in Nat /\ tokens[x] <= tokens'[x]
    BY <1>5
  <2>2. QED
    BY <2>1, QuietFacts, StaysKnown
<1>7. KnownTo(t, tokens')
  BY <1>5 DEF KnownTo
<1>8. \A i \in DOMAIN n.up : \E j \in DOMAIN k.up : n.up[i] = k.up[j]
  BY <1>1, <1>3, RestRead
<1>9. Sane(n, tokens')
  <2>1. \A i \in DOMAIN n.up :
          KnownTo(n.up[i].token, tokens') /\ (n.up[i].type = "reattach" => n.up[i].token # NoToken)
    BY <1>1, <1>6, <1>8 DEF Sane
  <2>2. \A i \in DOMAIN n.down : n.down[i] = m
    BY <1>3
  <2>3. QED
    BY <1>1, <1>2, <1>3, <1>7, <2>1, <2>2, FarEnds DEF Sane
<1>10. MayReturn(n, tabs', tokens', onNode')
  <2> SUFFICES ASSUME OnHost(n, onNode') PROVE MayReturn(n, tabs', tokens', onNode')
    BY DEF MayReturn
  <2>1. n.down = <<m>> /\ t = <<s, num>>
    BY <1>3 DEF OnHost
  <2>2. DOMAIN n.down = {1} /\ n.down[1] = m
    BY <2>1
  <2>3. QED
    BY <1>2, <1>3, <1>5, <2>1, <2>2 DEF MayReturn
<1>11. ASSUME NEW d \in 1 .. Len(sockets), d # c
       PROVE  /\ Sane(sockets[d], tokens')
              /\ OnHost(sockets[d], onNode') =>
                    /\ OnHost(sockets[d], onNode) /\ sockets[d].far \in Session
                    /\ tokens'[sockets[d].far] = tokens[sockets[d].far]
              /\ MayReturn(sockets[d], tabs', tokens', onNode')
  <2>1. Sane(sockets[d], tokens) /\ MayReturn(sockets[d], tabs, tokens, onNode)
    BY DEF ReturnOK, ReturnInv
  <2>2. OnHost(sockets[d], onNode') =>
          /\ OnHost(sockets[d], onNode) /\ sockets[d].far \in Session
          /\ tokens'[sockets[d].far] = tokens[sockets[d].far]
    BY <1>5, <1>11 DEF OnHost
  <2>3. Sane(sockets[d], tokens')
    BY <1>6, <2>1 DEF Sane
  <2>4. QED
    BY <2>1, <2>2, <2>3 DEF MayReturn
<1>12. ASSUME NEW d \in 1 .. Len(sockets)
       PROVE  Sane(sockets'[d], tokens') /\ MayReturn(sockets'[d], tabs', tokens', onNode')
  <2>1. CASE d = c
    BY <1>4, <1>9, <1>10, <2>1
  <2>2. CASE d # c
    <3>1. sockets'[d] = sockets[d]
      BY <1>4, <2>2
    <3>2. QED
      BY <1>11, <2>2, <3>1
  <2>3. QED
    BY <2>1, <2>2
<1>13. ASSUME NEW d \in 1 .. Len(sockets), NEW e \in 1 .. Len(sockets), d # e, OnHost(sockets'[d], onNode')
       PROVE  Old(sockets'[e], sockets'[d].far, tokens')
  <2>1. CASE d = c
    <3>1. sockets'[d].far = s /\ sockets'[e] = sockets[e] /\ Sane(sockets[e], tokens)
      BY <1>3, <1>4, <1>13, <2>1 DEF ReturnOK, ReturnInv
    <3>2. ~KnownTo(<<s, num>>, tokens)
      BY BridgeAssumption DEF KnownTo, NoToken, NoTab, Ended
    <3>3. \A i \in DOMAIN sockets[e].up :
            sockets[e].up[i].type = "reattach" => sockets[e].up[i].token # <<s, num>>
      BY <3>1, <3>2 DEF Sane
    <3>4. QED
      BY <1>5, <3>1, <3>3 DEF Old
  <2>2. CASE d # c
    <3>1. /\ sockets'[d] = sockets[d] /\ OnHost(sockets[d], onNode)
          /\ tokens'[sockets[d].far] = tokens[sockets[d].far]
      BY <1>4, <1>11, <1>13, <2>2
    <3>2. Old(sockets[e], sockets[d].far, tokens)
      BY <1>13, <3>1 DEF ReturnOK, ReturnInv
    <3>3. Old(sockets[e], sockets[d].far, tokens')
      BY <3>1, <3>2 DEF Old
    <3>4. CASE e = c
      <4>1. Old(k, sockets[d].far, tokens')
        BY <3>3, <3>4 DEF k
      <4>2. Old(n, sockets[d].far, tokens')
        BY <1>8, <4>1 DEF Old
      <4>3. QED
        BY <1>4, <3>1, <3>4, <4>2
    <3>5. CASE e # c
      BY <1>4, <3>1, <3>3, <3>5
    <3>6. QED
      BY <3>4, <3>5
  <2>3. QED
    BY <2>1, <2>2
<1>14. storage'[2] = tabs' /\ KnownTo(tok', tokens') /\ \A x \in Session : KnownTo(tabs'[x], tokens')
  BY <1>6, QuietFacts
<1>15. QED
  BY <1>4, <1>12, <1>13, <1>14 DEF ReturnInv

\* A session whose token was never given out is on nobody's page.
LEMMA UnbornIsNotShown ==
    ASSUME ReturnOK, NEW s \in Session, tokens[s] = 0
    PROVE  \A d \in 1 .. Len(sockets) : OnHost(sockets[d], onNode) => sockets[d].far # s
<1> SUFFICES ASSUME NEW d \in 1 .. Len(sockets), OnHost(sockets[d], onNode), sockets[d].far = s
             PROVE  FALSE
  OBVIOUS
<1>1. ~KnownTo(<<s, tokens[s]>>, tokens)
  BY BridgeAssumption DEF KnownTo, NoToken, NoTab, Ended
<1>2. Sane(sockets[d], tokens) /\ MayReturn(sockets[d], tabs, tokens, onNode) /\ KnownTo(tabs[s], tokens)
  BY DEF ReturnOK, ReturnInv
<1>3. \E i \in DOMAIN sockets[d].down : sockets[d].down[i].type \in Begun
  BY <1>1, <1>2 DEF MayReturn
<1>4. QED
  BY <1>1, <1>2, <1>3 DEF MayReturn, Sane, Begun

LEMMA BeginsReturn ==
    ASSUME ReturnOK, NEW c \in 1 .. Len(sockets), ServerBegins(c)
    PROVE  ReturnInv'
<1> DEFINE k == sockets[c]
           m == Head(k.up)
           rest == [k EXCEPT !.up = Tail(@)]
<1>1. /\ k \in PageSocket /\ k.up # <<>> /\ k.far = "waiting" /\ Sane(k, tokens) /\ k.ready # "connecting"
  <2>1. k \in PageSocket
    BY QuietFacts
  <2>2. k.up # <<>> /\ k.far = "waiting"
    BY DEF ServerBegins
  <2>3. Sane(k, tokens)
    BY DEF ReturnOK, ReturnInv
  <2>4. k.ready # "connecting"
    BY <2>2, <2>3 DEF Sane
  <2>5. QED
    BY <2>1, <2>2, <2>3, <2>4
<1>2. 1 \in DOMAIN k.up /\ m = k.up[1] /\ m \in FromPage
  BY <1>1, RestRead
<1>3. UNCHANGED <<tok, tabs, storage>>
  BY DEF ServerBegins, pageOnly
<1>4. ASSUME NEW far \in {"over", "refused"}, NEW s \in Session \cup {NoSession}, UNCHANGED sessions,
             sockets' = [sockets EXCEPT ![c] = After(rest, Msg("error", s, NoToken), far)]
      PROVE  ReturnInv'
  <2> DEFINE e == Msg("error", s, NoToken)
  <2>1. e \in ToPage /\ e.token = NoToken
    BY ToThePage, NoTokenIsOne DEF Msg
  <2> HIDE DEF e
  <2>2. Quieter(After(rest, e, far), k)
    BY <1>1, <2>1, AnswersQuietly
  <2>3. QED
    BY <1>3, <1>4, <2>2, QuietOne DEF e, sessions
<1>5. ASSUME NEW s \in Session, NEW t \in {<<s, 1>>, NoToken}, tokens[s] = 0,
             tokens' = [tokens EXCEPT ![s] = 1], onNode \subseteq onNode', t = NoToken => s \in onNode',
             sockets' = [sockets EXCEPT ![c] = After(rest, Msg("started", s, t), s)]
      PROVE  ReturnInv'
  <2>1. \A d \in 1 .. Len(sockets) : OnHost(sockets[d], onNode) => sockets[d].far # s
    BY <1>5, UnbornIsNotShown
  <2> DEFINE num == 1
             type == "started"
  <2>2. /\ num \in Nat \ {0} /\ tokens[s] \in Nat /\ tokens[s] < num /\ t \in {<<s, num>>, NoToken}
        /\ tokens' = [tokens EXCEPT ![s] = num] /\ type \in Begun
        /\ sockets' = [sockets EXCEPT ![c] = After(rest, Msg(type, s, t), s)]
    BY <1>5 DEF Begun
  <2> HIDE DEF num, type, m
  <2>3. QED
    BY <1>1, <1>3, <1>5, <2>1, <2>2, AttachStep
<1>6. ASSUME m.type = "reattach", m.token = <<m.session, tokens[m.session]>>, UNCHANGED onNode,
             tokens' = [tokens EXCEPT ![m.session] = tokens[m.session] + 1],
             sockets' = [sockets EXCEPT ![c] =
                 After(rest, Msg("reattached", m.session, <<m.session, tokens[m.session] + 1>>), m.session)]
      PROVE  ReturnInv'
  <2> DEFINE s == m.session
             num == tokens[s] + 1
  <2>1. s \in Session /\ m.token = <<s, tokens[s]>>
    BY <1>2, <1>6 DEF FromPage
  <2>2. KnownTo(m.token, tokens) /\ m.token # NoToken
    BY <1>1, <1>2, <1>6 DEF Sane
  <2>3. tokens[s] \in Nat \ {0}
    BY <2>1, <2>2, BridgeAssumption DEF KnownTo, NoTab
  <2>4. num \in Nat \ {0} /\ tokens[s] < num /\ tokens[s] \in Nat
    BY <2>3
  <2>5. ASSUME NEW d \in 1 .. Len(sockets), d # c, OnHost(sockets[d], onNode) PROVE sockets[d].far # s
    <3>1. Old(k, sockets[d].far, tokens)
      BY <2>5 DEF ReturnOK, ReturnInv
    <3>2. QED
      BY <1>2, <1>6, <2>1, <3>1 DEF Old
  <2>6. tokens' = [tokens EXCEPT ![s] = num]
        /\ sockets' = [sockets EXCEPT ![c] = After(rest, Msg("reattached", s, <<s, num>>), s)]
    BY <1>6
  <2>7. <<s, num>> # NoToken
    BY <2>1, BridgeAssumption DEF NoToken
  <2> HIDE DEF s, num, m
  <2>8. QED
    BY <1>1, <1>3, <1>6, <2>1, <2>4, <2>5, <2>6, <2>7, AttachStep DEF Begun
<1>7. QED
  <2>1. m.session \in Session \cup {NoSession}
    BY <1>2 DEF FromPage, ToServer
  <2>2. CASE m.type = "start"
    <3>1. CASE UNCHANGED sessions /\ sockets' =
                 [sockets EXCEPT ![c] = After(rest, Msg("error", NoSession, NoToken), "over")]
      BY <1>4, <3>1
    <3>2. ASSUME NEW s \in Session, tokens[s] = 0, tokens' = [tokens EXCEPT ![s] = 1],
                 \/ UNCHANGED onNode /\ sockets' =
                        [sockets EXCEPT ![c] = After(rest, Msg("started", s, <<s, 1>>), s)]
                 \/ onNode' = onNode \cup {s} /\ sockets' =
                        [sockets EXCEPT ![c] = After(rest, Msg("started", s, NoToken), s)]
          PROVE  ReturnInv'
      <4>1. <<s, 1>> # NoToken
        BY DEF NoToken
      <4>2. QED
        BY <1>5, <3>2, <4>1
    <3>3. QED
      BY <2>2, <3>1, <3>2 DEF ServerBegins
  <2>3. CASE m.type = "reattach"
    BY <1>4, <1>6, <2>1, <2>3 DEF ServerBegins, sessions
  <2>4. CASE m.type \notin {"start", "reattach"}
    BY <1>4, <2>4 DEF ServerBegins
  <2>5. QED
    BY <2>2, <2>3, <2>4

LEMMA ReturnInitially == BridgeInit => ReturnInv
<1> SUFFICES ASSUME BridgeInit PROVE ReturnInv
  OBVIOUS
<1>1. storage[2] = tabs /\ tok = NoToken /\ \A s \in Session : tabs[s] = NoTab
  BY DEF BridgeInit, PageBegins
<1>2. Len(sockets) = 0
  BY DEF BridgeInit
<1>3. QED
  BY <1>1, <1>2 DEF ReturnInv, KnownTo

LEMMA ReturnStep == ReturnOK /\ [BridgeNext]_bridgeVars => ReturnInv'
<1> SUFFICES ASSUME ReturnOK, [BridgeNext]_bridgeVars PROVE ReturnInv'
  OBVIOUS
<1>1. CASE UNCHANGED bridgeVars
  BY <1>1, RemembersStep, QuietFacts DEF bridgeVars
<1>2. ASSUME NEW s \in Session, ServerEnds(s) PROVE ReturnInv'
  BY <1>2, EndsQuietly DEF ServerEnds, pageOnly
<1>3. QED
  BY <1>1, <1>2, OpensNoneYet, SocketsShut, LearnsWhatIsNew, BeginsReturn, ReadsQuietly,
     WaitingCallsKeep, ReplacesQuietly, PageShuts, PageReturns, TypesQuietly
     DEF BridgeNext

(* A page that is attached to a session of this host and has read what it   *)
(* was sent keeps, in memory and in sessionStorage, the very token that     *)
(* reattaches it, whatever the order of answers, clicks and lost sockets.   *)
THEOREM AttachedAlwaysReturns == BridgeSpec => []AttachedCanReturn
<1>1. ReturnInv /\ SocketsIn => AttachedCanReturn
  <2> SUFFICES ASSUME ReturnInv, SocketsIn, IsOpen(Current),
                      sockets[Current].far \in Session, sockets[Current].down = <<>>
               PROVE  LET s == sockets[Current].far IN
                      storage[2][s] = tabs[s] /\ (s \notin onNode => tabs[s] = <<s, tokens[s]>>)
    BY DEF AttachedCanReturn
  <2>1. Current \in 1 .. Len(sockets) /\ sockets[Current].ready = "open"
    BY DEF IsOpen, Current, SocketsIn
  <2>2. MayReturn(sockets[Current], tabs, tokens, onNode) /\ storage[2] = tabs
    BY <2>1 DEF ReturnInv
  <2>3. QED
    BY <2>1, <2>2 DEF MayReturn, OnHost
<1>2. ReturnInv /\ BridgeOK /\ SocketsOK(sockets) /\ [BridgeNext]_bridgeVars => ReturnInv'
  BY ReturnStep DEF ReturnOK
<1>3. BridgeOK => SocketsIn
  BY DEF BridgeOK
<1>4. QED
  BY <1>1, <1>2, <1>3, ReturnInitially, BridgeInvariant, SocketsInvariant, PTL DEF BridgeSpec

-----------------------------------------------------------------------------
(* LongPoll *)

Word   == {"ping", "output", "stray"}
Link   == [queue : Seq(Nat), sent : Nat, events : 0 .. QueueCap, nextId : Nat]
Poll   == [pc : {"idle", "negotiated", "registered", "events", "waiting", "draining"},
           link : Nat, todo : Seq(Word), answer : Seq(Envelope)]
Task   == [pc : {"idle", "starting", "looping", "sending", "done"}, link : Nat, listed : BOOLEAN]

LinkOK(l) == l \in Link /\ Len(l.queue) <= QueueCap

\* A request of a node with n links: only one that drains the queue has commands.
PollOK(q, n) ==
    /\ q \in Poll /\ q.link <= n
    /\ q.pc \in {"idle", "negotiated"} => q.link = 0
    /\ q.pc \notin {"idle", "negotiated"} => q.link # 0
    /\ q.pc # "draining" => CommandsOf(q.answer) = {}

TaskOK(t, n) ==
    /\ t \in Task /\ t.link <= n
    /\ t.pc \in {"starting", "looping", "sending"} \/ t.listed => t.link # 0

\* CommandsDrawn of these answers and these requests.
Given(a, P, n) == a[n] \cup UNION {CommandsOf(P[p].answer) : p \in {q \in Caller : P[q].link = n}}

(* A link with the commands that were taken from its queue: each once, all  *)
(* of them, numbered below what is drawn next, in the order they were sent. *)
Ordered(G, l) ==
    /\ Len(l.queue) <= l.sent
    /\ \A e \in G : e \in Envelope /\ e.id < l.nextId /\ e.command \in 1 .. l.sent - Len(l.queue)
    /\ \A c \in 1 .. l.sent - Len(l.queue) : \E e \in G : e.command = c
    /\ \A i \in 1 .. Len(l.queue) : l.queue[i] = l.sent - Len(l.queue) + i
    /\ \A d, e \in G : d.id < e.id <=> d.command < e.command

LinksOK ==
    /\ links \in Seq(Link) /\ \A n \in DOMAIN links : LinkOK(links[n])
    /\ registered \in 0 .. Len(links)
    /\ answered \in Seq(SUBSET Envelope) /\ Len(answered) = Len(links)

PollsOK == poll \in [Caller -> Poll] /\ \A p \in Caller : PollOK(poll[p], Len(links))

TasksOK ==
    /\ task \in [Terminal -> Task] /\ \A s \in Terminal : TaskOK(task[s], Len(links))
    /\ worker \in 0 .. Len(links)

OrderOK == \A n \in DOMAIN links : Ordered(Given(answered, poll, n), links[n])

PollInv == LinksOK /\ PollsOK /\ TasksOK /\ OrderOK

LEMMA NoCommands == CommandsOf(<<>>) = {}
BY DEF CommandsOf, Range

LEMMA OneMore ==
    ASSUME NEW a \in Seq(Envelope), NEW e \in Envelope
    PROVE  CommandsOf(Append(a, e)) = CommandsOf(a) \cup {x \in {e} : x.kind = "command"}
<1> DEFINE b == Append(a, e)
<1>1. /\ DOMAIN a = 1 .. Len(a) /\ Len(a) \in Nat /\ DOMAIN b = 1 .. Len(a) + 1
      /\ \A i \in 1 .. Len(a) : b[i] = a[i]
      /\ b[Len(a) + 1] = e
  <2>1. b \in Seq(Envelope) /\ Len(b) = Len(a) + 1
    BY AppendProperties
  <2>2. DOMAIN b = 1 .. Len(a) + 1
    BY <2>1
  <2>3. QED
    BY <2>2, AppendProperties
<1> HIDE DEF b
<1>2. Range(b) = Range(a) \cup {e}
  BY <1>1 DEF Range
<1>3. QED
  BY <1>2 DEF CommandsOf, b

LEMMA InGiven ==
    ASSUME NEW a, NEW P, NEW n
    PROVE  \A e : e \in Given(a, P, n) <=>
              e \in a[n] \/ \E p \in Caller : P[p].link = n /\ e \in CommandsOf(P[p].answer)
BY DEF Given

\* The link whose next id is drawn, or whose events change, is as it was otherwise.
LEMMA OrderedStays ==
    ASSUME NEW G, NEW l \in Link, NEW k \in Link, Ordered(G, l),
           k.queue = l.queue, k.sent = l.sent, k.nextId >= l.nextId
    PROVE  Ordered(G, k)
<1>1. l.nextId \in Nat /\ k.nextId \in Nat
  BY DEF Link
<1>2. \A e \in G : e.id < k.nextId
  BY <1>1 DEF Ordered, Envelope
<1>3. QED
  BY <1>2 DEF Ordered

\* A command that is sent waits behind the others.
LEMMA OrderedSent ==
    ASSUME NEW G, NEW l \in Link, NEW k \in Link, Ordered(G, l),
           k.queue = Append(l.queue, l.sent + 1), k.sent = l.sent + 1, k.nextId = l.nextId
    PROVE  Ordered(G, k)
<1> DEFINE q == l.queue
           m == Len(l.queue)
<1>1. q \in Seq(Nat) /\ l.sent \in Nat /\ m \in Nat /\ m <= l.sent
  BY DEF Link, Ordered
<1>2. /\ Len(k.queue) = m + 1 /\ k.queue[m + 1] = l.sent + 1
      /\ \A i \in 1 .. m : k.queue[i] = q[i]
  BY <1>1, AppendProperties
<1>3. k.sent - Len(k.queue) = l.sent - m /\ Len(k.queue) <= k.sent
  BY <1>1, <1>2
<1>4. \A i \in 1 .. Len(k.queue) : k.queue[i] = k.sent - Len(k.queue) + i
  <2> TAKE i \in 1 .. Len(k.queue)
  <2>1. CASE i = m + 1
    BY <1>1, <1>2, <1>3, <2>1
  <2>2. CASE i \in 1 .. m
    BY <1>1, <1>2, <1>3, <2>2 DEF Ordered
  <2>3. QED
    BY <1>1, <1>2, <2>1, <2>2
<1>5. QED
  BY <1>3, <1>4 DEF Ordered

\* The command that is taken is the next one, and so is its id.
LEMMA OrderedTaken ==
    ASSUME NEW G, NEW H, NEW l \in Link, NEW k \in Link, Ordered(G, l), l.queue # <<>>,
           k.queue = Tail(l.queue), k.sent = l.sent, k.nextId = l.nextId + 1,
           NEW e \in Envelope, e.id = l.nextId, e.command = Head(l.queue), H = G \cup {e}
    PROVE  Ordered(H, k)
<1> DEFINE m == Len(l.queue)
           t == l.sent - m
<1>1. /\ l.queue \in Seq(Nat) /\ l.sent \in Nat /\ m \in Nat \ {0} /\ m <= l.sent
      /\ l.nextId \in Nat /\ t \in Nat
  BY DEF Link, Ordered
<1>2. /\ Len(k.queue) = m - 1 /\ \A i \in 1 .. m - 1 : k.queue[i] = l.queue[i + 1]
      /\ Head(l.queue) = l.queue[1]
  <2>1. Len(Tail(l.queue)) = m - 1 /\ \A i \in 1 .. Len(Tail(l.queue)) : Tail(l.queue)[i] = l.queue[i + 1]
    BY <1>1, HeadTailProperties
  <2>2. QED
    BY <1>1, <2>1
<1>3. \A i \in 1 .. m : l.queue[i] = t + i
  BY DEF Ordered
<1>4. e.command = t + 1
  BY <1>1, <1>2, <1>3
<1>5. k.sent - Len(k.queue) = t + 1 /\ Len(k.queue) <= k.sent
  BY <1>1, <1>2
<1>6. \A d \in G : d \in Envelope /\ d.id < l.nextId /\ d.command \in 1 .. t
  BY DEF Ordered
<1>7. \A d \in H : d \in Envelope /\ d.id < k.nextId /\ d.command \in 1 .. t + 1
  BY <1>1, <1>4, <1>6 DEF Envelope
<1>8. \A c \in 1 .. t + 1 : \E d \in H : d.command = c
  <2> TAKE c \in 1 .. t + 1
  <2>1. CASE c = t + 1
    BY <1>4, <2>1
  <2>2. CASE c \in 1 .. t
    BY <2>2 DEF Ordered
  <2>3. QED
    BY <1>1, <2>1, <2>2
<1>9. \A i \in 1 .. Len(k.queue) : k.queue[i] = t + 1 + i
  <2> TAKE i \in 1 .. Len(k.queue)
  <2>1. i \in 1 .. m - 1 /\ i + 1 \in 1 .. m
    <3>1. m \in Nat \ {0} /\ i \in 1 .. m - 1
      BY <1>1, <1>2
    <3> HIDE DEF m
    <3>2. QED
      BY <3>1
  <2>2. QED
    <3>1. k.queue[i] = l.queue[i + 1] /\ l.queue[i + 1] = t + (i + 1)
      BY <1>2, <1>3, <2>1
    <3> HIDE DEF t
    <3>2. QED
      BY <1>1, <2>1, <3>1
<1>10. \A d, f \in H : d.id < f.id <=> d.command < f.command
  <2> SUFFICES ASSUME NEW d \in H, NEW f \in H PROVE d.id < f.id <=> d.command < f.command
    OBVIOUS
  <2> HIDE DEF t
  <2>1. CASE d \in G /\ f \in G
    BY <2>1 DEF Ordered
  <2>2. CASE d \in G /\ f = e
    BY <1>1, <1>4, <1>6, <2>2 DEF Envelope
  <2>3. CASE d = e /\ f \in G
    BY <1>1, <1>4, <1>6, <2>3 DEF Envelope
  <2>4. CASE d = e /\ f = e
    BY <1>1, <1>4, <2>4 DEF Envelope
  <2>5. QED
    BY <2>1, <2>2, <2>3, <2>4
<1> HIDE DEF t
<1>11. QED
  BY <1>5, <1>7, <1>8, <1>9, <1>10 DEF Ordered

\* A link is changed and nothing is drawn of it.
LEMMA OneLinkChanges ==
    ASSUME PollInv, NEW n \in DOMAIN links, NEW l, LinkOK(l), Ordered(Given(answered, poll, n), l),
           links' = [links EXCEPT ![n] = l], UNCHANGED <<registered, answered>>
    PROVE  /\ LinksOK' /\ Len(links') = Len(links)
           /\ \A i \in DOMAIN links' : Ordered(Given(answered, poll, i), links'[i])
<1>1. links \in Seq(Link) /\ n \in 1 .. Len(links) /\ l \in Link
  BY DEF PollInv, LinksOK, LinkOK
<1>2. /\ [links EXCEPT ![n] = l] \in Seq(Link)
      /\ Len([links EXCEPT ![n] = l]) = Len(links)
      /\ \A i \in 1 .. Len(links) : [links EXCEPT ![n] = l][i] = IF i = n THEN l ELSE links[i]
  BY <1>1, ExceptSeq
<1>3. /\ links' \in Seq(Link) /\ Len(links') = Len(links) /\ DOMAIN links' = 1 .. Len(links)
      /\ DOMAIN links = 1 .. Len(links)
      /\ \A i \in 1 .. Len(links) : links'[i] = IF i = n THEN l ELSE links[i]
  BY <1>1, <1>2
<1>4. LinksOK'
  BY <1>3 DEF PollInv, LinksOK
<1>5. QED
  BY <1>3, <1>4 DEF PollInv, OrderOK

\* The answer of a request changes, but not the commands in it.
LEMMA GivenStays ==
    ASSUME PollInv, NEW p \in Caller, NEW q, PollOK(q, Len(links)), poll' = [poll EXCEPT ![p] = q],
           UNCHANGED answered,
           CommandsOf(q.answer) = CommandsOf(poll[p].answer),
           q.link = poll[p].link \/ CommandsOf(q.answer) = {}
    PROVE  /\ poll' \in [Caller -> Poll] /\ \A c \in Caller : PollOK(poll'[c], Len(links))
           /\ \A n : Given(answered', poll', n) = Given(answered, poll, n)
<1>1. /\ poll' \in [Caller -> Poll] /\ \A c \in Caller : poll'[c] = IF c = p THEN q ELSE poll[c]
  BY DEF PollInv, PollsOK, PollOK
<1>2. \A c \in Caller : PollOK(poll'[c], Len(links))
  BY <1>1 DEF PollInv, PollsOK
<1>3. ASSUME NEW n PROVE Given(answered', poll', n) = Given(answered, poll, n)
  <2>1. \A e, c : (c \in Caller /\ poll'[c].link = n /\ e \in CommandsOf(poll'[c].answer))
              <=> (c \in Caller /\ poll[c].link = n /\ e \in CommandsOf(poll[c].answer))
    BY <1>1
  <2>2. \A e : e \in Given(answered', poll', n) <=>
             e \in answered'[n] \/ \E c \in Caller : poll'[c].link = n /\ e \in CommandsOf(poll'[c].answer)
    BY DEF Given
  <2>3. \A e : e \in Given(answered, poll, n) <=>
             e \in answered[n] \/ \E c \in Caller : poll[c].link = n /\ e \in CommandsOf(poll[c].answer)
    BY InGiven
  <2>4. \A e : e \in Given(answered', poll', n) <=> e \in Given(answered, poll, n)
    BY <2>1, <2>2, <2>3
  <2>5. QED
    BY <2>4
<1>4. QED
  BY <1>1, <1>2, <1>3

\* Steps of a request between its awaits that draw and take nothing.
LEMMA PollMoves ==
    ASSUME PollInv, NEW p \in Caller, NEW q, PollOK(q, Len(links)), poll' = [poll EXCEPT ![p] = q],
           UNCHANGED <<links, registered, answered, task, worker>>,
           CommandsOf(q.answer) = CommandsOf(poll[p].answer),
           q.link = poll[p].link \/ CommandsOf(q.answer) = {}
    PROVE  PollInv'
<1>1. /\ poll' \in [Caller -> Poll] /\ \A c \in Caller : PollOK(poll'[c], Len(links))
      /\ \A n : Given(answered', poll', n) = Given(answered, poll, n)
  BY GivenStays
<1>2. PollsOK'
  BY <1>1 DEF PollsOK
<1>3. LinksOK' /\ TasksOK'
  BY DEF PollInv, LinksOK, TasksOK
<1>4. OrderOK'
  BY <1>1 DEF PollInv, OrderOK
<1>5. QED
  BY <1>2, <1>3, <1>4 DEF PollInv

\* What is known of a request and its link.
LEMMA OfRequest ==
    ASSUME PollInv, NEW p \in Caller
    PROVE  /\ poll[p] \in Poll /\ poll[p].link \in Nat /\ poll[p].link <= Len(links) /\ Len(links) \in Nat
           /\ poll[p].todo \in Seq(Word) /\ poll[p].answer \in Seq(Envelope)
           /\ poll[p].pc \notin {"idle", "negotiated"} =>
                 /\ poll[p].link \in DOMAIN links /\ poll[p].link \in DOMAIN answered
                 /\ links[poll[p].link] \in Link
                 /\ LinkOK(links[poll[p].link])
                 /\ Ordered(Given(answered, poll, poll[p].link), links[poll[p].link])
           /\ poll[p].pc # "draining" => CommandsOf(poll[p].answer) = {}
<1>1. poll[p] \in Poll /\ PollOK(poll[p], Len(links)) /\ Len(links) \in Nat
      /\ DOMAIN links = 1 .. Len(links) /\ DOMAIN answered = 1 .. Len(links)
  BY DEF PollInv, PollsOK, LinksOK
<1>2. poll[p].link \in Nat /\ poll[p].todo \in Seq(Word) /\ poll[p].answer \in Seq(Envelope)
  BY <1>1 DEF Poll
<1>3. poll[p].pc \notin {"idle", "negotiated"} => poll[p].link \in DOMAIN links
  BY <1>1, <1>2 DEF PollOK
<1>4. QED
  BY <1>1, <1>2, <1>3 DEF PollOK, PollInv, LinksOK, LinkOK, OrderOK

\* An envelope without a command is put into an answer.
LEMMA PutStep ==
    ASSUME PollInv, NEW p \in Caller, poll[p].pc \in {"registered", "events"},
           NEW kind \in {"hello", "pong", "error"}, NEW todo \in Seq(Word), Put(p, "events", kind, todo),
           UNCHANGED <<registered, answered, task, worker>>
    PROVE  PollInv'
<1> DEFINE n == poll[p].link
           l == links[n]
           e == [id |-> l.nextId, kind |-> kind, command |-> 0]
           q1 == [poll[p] EXCEPT !.pc = "events"]
           q2 == [q1 EXCEPT !.todo = todo]
           q == [q2 EXCEPT !.answer = Append(@, e)]
           k == [l EXCEPT !.nextId = @ + 1]
<1>1. /\ poll[p] \in Poll /\ n \in DOMAIN links /\ l \in Link /\ LinkOK(l) /\ n \in Nat /\ n <= Len(links)
      /\ Ordered(Given(answered, poll, n), l) /\ poll[p].answer \in Seq(Envelope) /\ n # 0
      /\ CommandsOf(poll[p].answer) = {}
  <2>1. n # 0
    BY DEF PollInv, PollsOK, PollOK
  <2>2. QED
    BY <2>1, OfRequest
<1>2. l.nextId \in Nat /\ e \in Envelope /\ e.kind = kind
  BY <1>1 DEF Link, Envelope, Payload
<1>3. links' = [links EXCEPT ![n] = k] /\ poll' = [poll EXCEPT ![p] = q]
  <2>1. poll \in [Caller -> Poll] /\ DOMAIN links = 1 .. Len(links) /\ links \in Seq(Link)
    BY DEF PollInv, PollsOK, LinksOK
  <2>2. links' = [links EXCEPT ![n].nextId = @ + 1]
    BY DEF Put
  <2>3. poll' = [poll EXCEPT ![p].pc = "events", ![p].todo = todo, ![p].answer = Append(@, e)]
    BY DEF Put
  <2>4. QED
    BY <1>1, <2>1, <2>2, <2>3
<1>4. k \in Link /\ k.queue = l.queue /\ k.sent = l.sent /\ k.nextId = l.nextId + 1
  <2> HIDE DEF l
  <2>1. l.nextId + 1 \in Nat
    BY <1>2
  <2>2. QED
    BY <1>1, <2>1 DEF Link
<1>5. Append(poll[p].answer, e) \in Seq(Envelope) /\ CommandsOf(Append(poll[p].answer, e)) = {}
  <2>1. e.kind # "command"
    BY <1>2
  <2> HIDE DEF e
  <2>2. QED
    BY <1>1, <1>2, <2>1, OneMore, AppendProperties
<1>6. /\ q \in Poll /\ q.pc = "events" /\ q.link = n /\ q.answer = Append(poll[p].answer, e)
  <2> HIDE DEF e
  <2>1. q1 \in Poll /\ q1.pc = "events" /\ q1.link = n /\ q1.answer = poll[p].answer
    BY <1>1 DEF Poll
  <2> HIDE DEF q1
  <2>2. q2 \in Poll /\ q2.pc = "events" /\ q2.link = n /\ q2.answer = poll[p].answer
    BY <2>1 DEF Poll
  <2> HIDE DEF q2
  <2>3. QED
    BY <1>5, <2>2 DEF Poll
<1> HIDE DEF q, k, l, e
<1>7. PollOK(q, Len(links))
  BY <1>1, <1>5, <1>6 DEF PollOK
<1>8. /\ poll' \in [Caller -> Poll] /\ \A c \in Caller : PollOK(poll'[c], Len(links))
      /\ \A i : Given(answered', poll', i) = Given(answered, poll, i)
  BY <1>1, <1>3, <1>5, <1>6, <1>7, GivenStays
<1>9. LinkOK(k) /\ Ordered(Given(answered, poll, n), k)
  BY <1>1, <1>2, <1>4, OrderedStays DEF LinkOK
<1>10. /\ LinksOK' /\ Len(links') = Len(links)
       /\ \A i \in DOMAIN links' : Ordered(Given(answered, poll, i), links'[i])
  BY <1>1, <1>3, <1>9, OneLinkChanges
<1>11. PollsOK' /\ TasksOK' /\ OrderOK'
  BY <1>8, <1>10 DEF PollInv, PollsOK, TasksOK, OrderOK
<1>12. QED
  BY <1>10, <1>11 DEF PollInv

LEMMA TakenStep ==
    ASSUME PollInv, NEW p \in Caller, poll[p].pc \in {"waiting", "draining"}, CommandTaken(p, "draining"),
           UNCHANGED <<registered, answered, task, worker>>
    PROVE  PollInv'
<1> DEFINE n == poll[p].link
           l == links[n]
           e == [id |-> l.nextId, kind |-> "command", command |-> Head(l.queue)]
           q1 == [poll[p] EXCEPT !.pc = "draining"]
           q == [q1 EXCEPT !.answer = Append(@, e)]
           k1 == [l EXCEPT !.queue = Tail(@)]
           k == [k1 EXCEPT !.nextId = @ + 1]
<1>1. /\ poll[p] \in Poll /\ n \in DOMAIN links /\ l \in Link /\ LinkOK(l) /\ n \in Nat /\ n <= Len(links)
      /\ Ordered(Given(answered, poll, n), l) /\ poll[p].answer \in Seq(Envelope) /\ n # 0
  <2>1. n # 0
    BY DEF PollInv, PollsOK, PollOK
  <2>2. QED
    BY <2>1, OfRequest
<1>2. l.nextId \in Nat /\ l.queue \in Seq(Nat) /\ l.queue # <<>> /\ Len(l.queue) <= QueueCap
  BY <1>1 DEF Link, CommandTaken, LinkOK
<1>3. /\ Head(l.queue) \in Nat /\ Tail(l.queue) \in Seq(Nat) /\ Len(Tail(l.queue)) = Len(l.queue) - 1
      /\ Len(l.queue) \in Nat /\ QueueCap \in Nat
  <2>1. QueueCap \in Nat
    BY LongPollAssumption
  <2> HIDE DEF l
  <2>2. QED
    BY <1>2, <2>1, HeadTailProperties
<1>4. e \in Envelope /\ e.id = l.nextId /\ e.kind = "command" /\ e.command = Head(l.queue)
  <2>1. "command" \in Payload
    BY DEF Payload
  <2> HIDE DEF l
  <2>2. QED
    BY <1>2, <1>3, <2>1 DEF Envelope
<1>5. links' = [links EXCEPT ![n] = k] /\ poll' = [poll EXCEPT ![p] = q]
  <2>1. poll \in [Caller -> Poll] /\ DOMAIN links = 1 .. Len(links) /\ links \in Seq(Link)
    BY DEF PollInv, PollsOK, LinksOK
  <2>2. links' = [links EXCEPT ![n].queue = Tail(@), ![n].nextId = @ + 1]
    BY DEF CommandTaken
  <2>3. poll' = [poll EXCEPT ![p].pc = "draining", ![p].answer = Append(@, e)]
    BY DEF CommandTaken
  <2>4. QED
    BY <1>1, <2>1, <2>2, <2>3
<1>6. k \in Link /\ k.queue = Tail(l.queue) /\ k.sent = l.sent /\ k.nextId = l.nextId + 1
  <2> HIDE DEF l
  <2>1. k1 \in Link /\ k1.queue = Tail(l.queue) /\ k1.sent = l.sent /\ k1.nextId = l.nextId
    BY <1>1, <1>3 DEF Link
  <2> HIDE DEF k1
  <2>2. l.nextId + 1 \in Nat
    BY <1>2
  <2>3. QED
    BY <2>1, <2>2 DEF Link
<1>7. /\ Append(poll[p].answer, e) \in Seq(Envelope)
      /\ CommandsOf(Append(poll[p].answer, e)) = CommandsOf(poll[p].answer) \cup {e}
  <2> HIDE DEF e
  <2>1. {x \in {e} : x.kind = "command"} = {e}
    BY <1>4
  <2>2. QED
    BY <1>1, <1>4, <2>1, OneMore, AppendProperties
<1>8. q \in Poll /\ q.pc = "draining" /\ q.link = n /\ q.answer = Append(poll[p].answer, e)
  <2> HIDE DEF e
  <2>1. q1 \in Poll /\ q1.pc = "draining" /\ q1.link = n /\ q1.answer = poll[p].answer
    BY <1>1 DEF Poll
  <2> HIDE DEF q1
  <2>2. QED
    BY <1>7, <2>1 DEF Poll
<1> HIDE DEF q, k, l, e
<1>9. PollOK(q, Len(links))
  BY <1>1, <1>8 DEF PollOK
<1>10. /\ poll' \in [Caller -> Poll] /\ \A c \in Caller : poll'[c] = IF c = p THEN q ELSE poll[c]
  BY <1>5, <1>8 DEF PollInv, PollsOK
<1>11. ASSUME NEW i PROVE Given(answered', poll', i) = IF i = n THEN Given(answered, poll, i) \cup {e}
                                                      ELSE Given(answered, poll, i)
  <2>1. \A x : x \in Given(answered', poll', i) <=>
             x \in answered'[i] \/ \E c \in Caller : poll'[c].link = i /\ x \in CommandsOf(poll'[c].answer)
    BY InGiven
  <2>2. \A x : x \in Given(answered, poll, i) <=>
             x \in answered[i] \/ \E c \in Caller : poll[c].link = i /\ x \in CommandsOf(poll[c].answer)
    BY InGiven
  <2>3. \A x : (\E c \in Caller : poll'[c].link = i /\ x \in CommandsOf(poll'[c].answer)) <=>
             \/ \E c \in Caller : poll[c].link = i /\ x \in CommandsOf(poll[c].answer)
             \/ i = n /\ x = e
    BY <1>7, <1>8, <1>10
  <2>4. \A x : x \in Given(answered', poll', i) <=> x \in Given(answered, poll, i) \/ (i = n /\ x = e)
    BY <2>1, <2>2, <2>3
  <2>5. QED
    BY <2>4
<1>12. Ordered(Given(answered', poll', n), k)
  BY <1>1, <1>2, <1>4, <1>6, <1>11, OrderedTaken
<1>13. LinkOK(k)
  BY <1>2, <1>3, <1>6 DEF LinkOK
<1>14. /\ links \in Seq(Link) /\ DOMAIN links = 1 .. Len(links) /\ n \in 1 .. Len(links)
  BY <1>1 DEF PollInv, LinksOK
<1>15. /\ [links EXCEPT ![n] = k] \in Seq(Link)
       /\ Len([links EXCEPT ![n] = k]) = Len(links)
       /\ \A i \in 1 .. Len(links) : [links EXCEPT ![n] = k][i] = IF i = n THEN k ELSE links[i]
  BY <1>6, <1>14, ExceptSeq
<1>16. /\ links' \in Seq(Link) /\ Len(links') = Len(links) /\ DOMAIN links' = 1 .. Len(links)
       /\ \A i \in 1 .. Len(links) : links'[i] = IF i = n THEN k ELSE links[i]
  BY <1>5, <1>15
<1>17. LinksOK'
  BY <1>13, <1>14, <1>16 DEF PollInv, LinksOK
<1>18. OrderOK'
  <2> SUFFICES ASSUME NEW i \in 1 .. Len(links) PROVE Ordered(Given(answered', poll', i), links'[i])
    BY <1>16 DEF OrderOK
  <2>1. CASE i = n
    BY <1>12, <1>16, <2>1
  <2>2. CASE i # n
    BY <1>11, <1>14, <1>16, <2>2 DEF PollInv, OrderOK
  <2>3. QED
    BY <2>1, <2>2
<1>19. PollsOK' /\ TasksOK'
  BY <1>9, <1>10, <1>16 DEF PollInv, PollsOK, TasksOK
<1>20. QED
  BY <1>17, <1>18, <1>19 DEF PollInv

LEMMA RespondStep ==
    ASSUME PollInv, NEW p \in Caller, Respond(p)
    PROVE  PollInv'
<1> DEFINE n == poll[p].link
           G == CommandsOf(poll[p].answer)
           A == answered[n] \cup G
<1>1. /\ poll[p].pc = "draining" /\ answered' = [answered EXCEPT ![n] = A]
      /\ poll' = [poll EXCEPT ![p] = NoPoll] /\ UNCHANGED <<links, registered, task, worker>>
  BY DEF Respond, PollAt
<1>2. n \in DOMAIN answered /\ n \in DOMAIN links /\ poll[p].answer \in Seq(Envelope)
  BY <1>1, OfRequest
<1>3. /\ answered \in Seq(SUBSET Envelope) /\ n \in 1 .. Len(answered)
      /\ DOMAIN links = 1 .. Len(links) /\ Len(answered) = Len(links) /\ n # 0
  BY <1>2 DEF PollInv, LinksOK
<1>4. A \in SUBSET Envelope
  <2>1. G \subseteq Envelope
    BY <1>2 DEF CommandsOf, Range
  <2>2. answered[n] \in SUBSET Envelope
    BY <1>3
  <2>3. QED
    BY <2>1, <2>2
<1> HIDE DEF A
<1>5. /\ [answered EXCEPT ![n] = A] \in Seq(SUBSET Envelope)
      /\ Len([answered EXCEPT ![n] = A]) = Len(answered)
      /\ \A i \in 1 .. Len(answered) : [answered EXCEPT ![n] = A][i] = IF i = n THEN A ELSE answered[i]
  BY <1>3, <1>4, ExceptSeq
<1>6. /\ answered' \in Seq(SUBSET Envelope) /\ Len(answered') = Len(answered)
      /\ \A i \in 1 .. Len(answered) : answered'[i] = IF i = n THEN A ELSE answered[i]
  BY <1>1, <1>5
<1>7. /\ NoPoll \in Poll /\ NoPoll.pc = "idle" /\ NoPoll.link = 0 /\ NoPoll.answer = <<>>
  <2>1. 0 \in Nat /\ <<>> \in Seq(Word) /\ <<>> \in Seq(Envelope)
    OBVIOUS
  <2>2. QED
    BY <2>1 DEF NoPoll, Poll
<1>8. PollOK(NoPoll, Len(links))
  BY <1>3, <1>7, NoCommands DEF PollOK, PollInv, LinksOK
<1>9. /\ poll' \in [Caller -> Poll] /\ \A c \in Caller : poll'[c] = IF c = p THEN NoPoll ELSE poll[c]
  BY <1>1, <1>7 DEF PollInv, PollsOK
<1>10. ASSUME NEW i \in 1 .. Len(links) PROVE Given(answered', poll', i) = Given(answered, poll, i)
  <2>1. \A x : x \in Given(answered', poll', i) <=>
             x \in answered'[i] \/ \E c \in Caller : poll'[c].link = i /\ x \in CommandsOf(poll'[c].answer)
    BY InGiven
  <2>2. \A x : x \in Given(answered, poll, i) <=>
             x \in answered[i] \/ \E c \in Caller : poll[c].link = i /\ x \in CommandsOf(poll[c].answer)
    BY InGiven
  <2>3. \A x : x \in answered'[i] <=> x \in answered[i] \/ (i = n /\ x \in G)
    BY <1>3, <1>6 DEF A
  <2>4. \A x : (\E c \in Caller : poll[c].link = i /\ x \in CommandsOf(poll[c].answer)) <=>
             \/ \E c \in Caller : poll'[c].link = i /\ x \in CommandsOf(poll'[c].answer)
             \/ i = n /\ x \in G
    <3>1. \A c \in Caller : poll'[c].link = i =>
            c # p \/ CommandsOf(poll'[c].answer) = {}
      BY <1>7, <1>9, NoCommands
    <3>2. QED
      BY <1>7, <1>9, <3>1, NoCommands
  <2>5. \A x : x \in Given(answered', poll', i) <=> x \in Given(answered, poll, i)
    BY <2>1, <2>2, <2>3, <2>4
  <2>6. QED
    BY <2>5
<1>11. OrderOK'
  BY <1>1, <1>3, <1>10 DEF PollInv, OrderOK
<1>12. LinksOK' /\ PollsOK' /\ TasksOK'
  BY <1>1, <1>6, <1>8, <1>9 DEF PollInv, LinksOK, PollsOK, TasksOK
<1>13. QED
  BY <1>11, <1>12 DEF PollInv

\* A request is given the node's link: the one that is registered, or a new one.
LEMMA EnsureStep ==
    ASSUME PollInv, NEW p \in Caller, Ensure(p)
    PROVE  PollInv'
<1> DEFINE q1 == [poll[p] EXCEPT !.pc = "registered"]
           q == [q1 EXCEPT !.link = registered']
           l == [queue |-> <<>>, sent |-> 0, events |-> 0, nextId |-> 2]
           m == Len(links)
<1>1. /\ poll[p].pc = "negotiated" /\ poll[p] \in Poll /\ poll[p].answer \in Seq(Envelope)
      /\ CommandsOf(poll[p].answer) = {} /\ m \in Nat /\ registered \in 0 .. m
  BY OfRequest DEF Ensure, PollAt, PollInv, LinksOK
<1>2. poll' = [poll EXCEPT ![p] = q] /\ UNCHANGED <<task, worker>>
  BY DEF Ensure, PollInv, PollsOK
<1>3. CASE registered # 0
  <2>1. UNCHANGED <<links, registered, answered>>
    BY <1>3 DEF Ensure
  <2>2. q \in Poll /\ q.pc = "registered" /\ q.link = registered /\ q.answer = poll[p].answer
    <3>1. q1 \in Poll /\ q1.pc = "registered" /\ q1.answer = poll[p].answer
      BY <1>1 DEF Poll
    <3>2. registered' \in Nat /\ registered' = registered
      BY <1>1, <2>1
    <3> HIDE DEF q1
    <3>3. QED
      BY <3>1, <3>2 DEF Poll
  <2> HIDE DEF q
  <2>3. PollOK(q, m)
    BY <1>1, <1>3, <2>2 DEF PollOK
  <2>4. QED
    BY <1>1, <1>2, <2>1, <2>2, <2>3, PollMoves
<1>4. CASE registered = 0
  <2>1. links' = Append(links, l) /\ answered' = Append(answered, {}) /\ registered' = m + 1
    BY <1>4 DEF Ensure
  <2>2. l \in Link /\ l.queue = <<>> /\ l.sent = 0 /\ LinkOK(l)
    <3>1. 0 \in 0 .. QueueCap /\ 0 \in Nat /\ 2 \in Nat /\ <<>> \in Seq(Nat) /\ Len(<<>>) <= QueueCap
      BY LongPollAssumption DEF LongPollAssumption
    <3>2. l \in Link
      BY <3>1 DEF Link
    <3>3. QED
      BY <3>1, <3>2 DEF LinkOK
  <2> HIDE DEF l
  <2>3. /\ links \in Seq(Link) /\ answered \in Seq(SUBSET Envelope) /\ Len(answered) = m
        /\ \A i \in 1 .. m : LinkOK(links[i])
    BY DEF PollInv, LinksOK
  <2>4. /\ links' \in Seq(Link) /\ Len(links') = m + 1 /\ links'[m + 1] = l
        /\ \A i \in 1 .. m : links'[i] = links[i]
    BY <2>1, <2>2, <2>3, AppendProperties
  <2>5. /\ answered' \in Seq(SUBSET Envelope) /\ Len(answered') = m + 1 /\ answered'[m + 1] = {}
        /\ \A i \in 1 .. m : answered'[i] = answered[i]
    <3>1. {} \in SUBSET Envelope
      OBVIOUS
    <3>2. QED
      BY <2>1, <2>3, <3>1, AppendProperties
  <2>6. DOMAIN links' = 1 .. m + 1 /\ DOMAIN links = 1 .. m
    BY <2>3, <2>4
  <2>7. \A i \in 1 .. m + 1 : i \in 1 .. m \/ i = m + 1
    BY <1>1
  <2>8. LinksOK'
    <3>1. \A i \in DOMAIN links' : LinkOK(links'[i])
      BY <2>2, <2>3, <2>4, <2>6, <2>7
    <3>2. registered' \in 0 .. Len(links')
      BY <1>1, <2>1, <2>4
    <3>3. QED
      BY <2>4, <2>5, <3>1, <3>2 DEF LinksOK
  <2>9. q \in Poll /\ q.pc = "registered" /\ q.link = m + 1 /\ q.answer = poll[p].answer
    <3>1. q1 \in Poll /\ q1.pc = "registered" /\ q1.answer = poll[p].answer
      BY <1>1 DEF Poll
    <3>2. registered' \in Nat /\ registered' = m + 1
      BY <1>1, <2>1
    <3> HIDE DEF q1
    <3>3. QED
      BY <3>1, <3>2 DEF Poll
  <2> HIDE DEF q
  <2>10. /\ poll' \in [Caller -> Poll] /\ \A c \in Caller : poll'[c] = IF c = p THEN q ELSE poll[c]
    BY <1>2, <2>9 DEF PollInv, PollsOK
  <2>11. PollsOK'
    <3>1. PollOK(q, m + 1)
      BY <1>1, <2>9 DEF PollOK
    <3>2. \A c \in Caller : PollOK(poll[c], m) /\ poll[c].link \in Nat
      BY DEF PollInv, PollsOK, Poll
    <3> HIDE DEF m
    <3>3. \A c \in Caller : PollOK(poll[c], m + 1)
      <4> TAKE c \in Caller
      <4>1. PollOK(poll[c], m) /\ poll[c].link \in Nat /\ poll[c].link <= m + 1
        <5>1. PollOK(poll[c], m) /\ poll[c].link \in Nat /\ poll[c].link <= m
          BY <3>2 DEF PollOK
        <5>2. QED
          BY <1>1, <5>1
      <4>2. QED
        BY <4>1 DEF PollOK
    <3>4. QED
      BY <2>4, <2>10, <3>1, <3>3 DEF PollsOK
  <2>12. TasksOK'
    <3>1. \A s \in Terminal : TaskOK(task[s], m) /\ task[s].link \in Nat
      BY DEF PollInv, TasksOK, Task
    <3>2. \A s \in Terminal : TaskOK(task[s], m + 1)
      BY <1>1, <3>1 DEF TaskOK
    <3>3. QED
      BY <1>1, <1>2, <2>4, <3>2 DEF PollInv, TasksOK
  <2>13. \A i \in 1 .. m : Given(answered', poll', i) = Given(answered, poll, i)
    <3> TAKE i \in 1 .. m
    <3>1. \A x : x \in Given(answered', poll', i) <=>
               x \in answered'[i] \/ \E c \in Caller : poll'[c].link = i /\ x \in CommandsOf(poll'[c].answer)
      BY DEF Given
    <3>2. \A x : x \in Given(answered, poll, i) <=>
               x \in answered[i] \/ \E c \in Caller : poll[c].link = i /\ x \in CommandsOf(poll[c].answer)
      BY DEF Given
    <3>3. \A x : (\E c \in Caller : poll'[c].link = i /\ x \in CommandsOf(poll'[c].answer)) <=>
                 (\E c \in Caller : poll[c].link = i /\ x \in CommandsOf(poll[c].answer))
      BY <1>1, <2>9, <2>10
    <3>4. \A x : x \in Given(answered', poll', i) <=> x \in Given(answered, poll, i)
      BY <2>5, <3>1, <3>2, <3>3
    <3>5. QED
      BY <3>4
  <2>14. Given(answered', poll', m + 1) = {}
    <3>1. \A c \in Caller : poll'[c].link = m + 1 => CommandsOf(poll'[c].answer) = {}
      <4>1. \A c \in Caller : poll[c].link \in Nat /\ poll[c].link <= m
        BY OfRequest
      <4>2. QED
        BY <1>1, <2>9, <2>10, <4>1
    <3>2. \A x : x \in Given(answered', poll', m + 1) <=>
               \/ x \in answered'[m + 1]
               \/ \E c \in Caller : poll'[c].link = m + 1 /\ x \in CommandsOf(poll'[c].answer)
      BY DEF Given
    <3>3. QED
      BY <2>5, <3>1, <3>2
  <2>15. Ordered({}, l)
    BY <2>2 DEF Ordered
  <2>16. OrderOK'
    <3>1. \A i \in 1 .. m + 1 : Ordered(Given(answered', poll', i), links'[i])
      BY <2>4, <2>6, <2>7, <2>13, <2>14, <2>15 DEF PollInv, OrderOK
    <3>2. QED
      BY <2>6, <3>1 DEF OrderOK
  <2>17. QED
    BY <2>8, <2>11, <2>12, <2>16 DEF PollInv
<1>5. QED
  BY <1>3, <1>4

LEMMA RequestMoves ==
    ASSUME PollInv, NEW p \in Caller, Arrive(p) \/ LockReceiver(p) \/ WaitEnds(p) \/ HangUp(p)
    PROVE  PollInv'
<1>1. /\ poll[p] \in Poll /\ poll[p].answer \in Seq(Envelope) /\ Len(links) \in Nat
      /\ poll[p].pc # "draining" => CommandsOf(poll[p].answer) = {}
      /\ poll[p].link \in Nat /\ PollOK(poll[p], Len(links)) /\ poll \in [Caller -> Poll]
  BY OfRequest DEF PollInv, PollsOK
<1>2. NoPoll \in Poll /\ NoPoll.pc = "idle" /\ NoPoll.link = 0 /\ NoPoll.answer = <<>>
  <2>1. 0 \in Nat /\ <<>> \in Seq(Word) /\ <<>> \in Seq(Envelope)
    OBVIOUS
  <2>2. QED
    BY <2>1 DEF NoPoll, Poll
<1>3. CASE Arrive(p)
  <2>1. PICK todo \in Carried : poll' = [poll EXCEPT ![p] = Negotiated(todo)]
    BY <1>3 DEF Arrive
  <2> DEFINE q1 == [NoPoll EXCEPT !.pc = "negotiated"]
             q == Negotiated(todo)
  <2>2. todo \in Seq(Word)
    BY LongPollAssumption DEF LongPollAssumption, Word
  <2>3. q \in Poll /\ q.pc = "negotiated" /\ q.link = 0 /\ q.answer = <<>>
    <3>1. q1 \in Poll /\ q1.pc = "negotiated" /\ q1.link = 0 /\ q1.answer = <<>>
      BY <1>2 DEF Poll
    <3>2. q = [q1 EXCEPT !.todo = todo]
      BY DEF Negotiated
    <3> HIDE DEF q1, q
    <3>3. QED
      BY <2>2, <3>1, <3>2 DEF Poll
  <2> HIDE DEF q
  <2>4. PollOK(q, Len(links)) /\ CommandsOf(q.answer) = {}
    BY <1>1, <2>3, NoCommands DEF PollOK
  <2>5. /\ poll' = [poll EXCEPT ![p] = q] /\ UNCHANGED <<links, registered, answered, task, worker>>
        /\ poll[p].pc = "idle"
    BY <1>3, <2>1 DEF Arrive, q, PollAt
  <2>6. QED
    BY <1>1, <2>4, <2>5, PollMoves
<1>4. CASE LockReceiver(p) \/ WaitEnds(p)
  <2>1. PICK pc \in {"waiting", "draining"} : poll' = [poll EXCEPT ![p].pc = pc]
    BY <1>4 DEF LockReceiver, WaitEnds
  <2>2. /\ poll[p].pc \in {"events", "waiting"}
        /\ UNCHANGED <<links, registered, answered, task, worker>>
    BY <1>4 DEF LockReceiver, WaitEnds, PollAt
  <2> DEFINE q == [poll[p] EXCEPT !.pc = pc]
  <2>3. poll' = [poll EXCEPT ![p] = q]
    BY <1>1, <2>1
  <2>4. q \in Poll /\ q.pc = pc /\ q.link = poll[p].link /\ q.answer = poll[p].answer
    BY <1>1 DEF Poll
  <2> HIDE DEF q
  <2>5. PollOK(q, Len(links))
    BY <1>1, <2>2, <2>4 DEF PollOK
  <2>6. QED
    BY <2>2, <2>3, <2>4, <2>5, PollMoves
<1>5. CASE HangUp(p)
  <2>1. /\ poll' = [poll EXCEPT ![p] = NoPoll] /\ poll[p].pc # "draining"
        /\ UNCHANGED <<links, registered, answered, task, worker>>
    BY <1>5 DEF HangUp, PollAt
  <2>2. PollOK(NoPoll, Len(links)) /\ CommandsOf(NoPoll.answer) = {}
    BY <1>1, <1>2, NoCommands DEF PollOK
  <2>3. QED
    BY <1>1, <2>1, <2>2, PollMoves
<1>6. QED
  BY <1>3, <1>4, <1>5

\* The next envelope of a request.
LEMMA EnvelopeStep ==
    ASSUME PollInv, NEW p \in Caller, Hello(p) \/ HandleEnvelope(p)
    PROVE  PollInv'
<1>1. /\ poll[p] \in Poll /\ poll[p].todo \in Seq(Word)
      /\ UNCHANGED <<registered, answered, task, worker>>
  BY OfRequest DEF Hello, HandleEnvelope
<1>2. CASE Hello(p)
  BY <1>1, <1>2, PutStep DEF Hello, PollAt
<1> DEFINE n == poll[p].link
           l == links[n]
           rest == Tail(poll[p].todo)
<1>3. CASE HandleEnvelope(p)
  <2>1. poll[p].pc = "events" /\ poll[p].todo # <<>>
    BY <1>3 DEF HandleEnvelope, PollAt
  <2>2. rest \in Seq(Word)
    BY <1>1, <2>1, HeadTailProperties
  <2>3. CASE Put(p, "events", "pong", rest) \/ Put(p, "events", "error", rest)
    BY <1>1, <2>1, <2>2, <2>3, PutStep
  <2>4. CASE /\ l.events < QueueCap
             /\ links' = [links EXCEPT ![n].events = @ + 1]
             /\ poll' = [poll EXCEPT ![p].todo = rest]
    <3> DEFINE k == [l EXCEPT !.events = @ + 1]
               q == [poll[p] EXCEPT !.todo = rest]
    <3>1. /\ n \in DOMAIN links /\ l \in Link /\ LinkOK(l) /\ Ordered(Given(answered, poll, n), l)
      BY <2>1, OfRequest
    <3>2. l.events \in 0 .. QueueCap /\ QueueCap \in Nat /\ l.nextId \in Nat
      BY <3>1, LongPollAssumption DEF Link, LongPollAssumption
    <3>3. links' = [links EXCEPT ![n] = k] /\ poll' = [poll EXCEPT ![p] = q]
      BY <2>4, <3>1 DEF PollInv, PollsOK, LinksOK
    <3>4. k \in Link /\ k.queue = l.queue /\ k.sent = l.sent /\ k.nextId = l.nextId
      <4> HIDE DEF l
      <4>1. l.events + 1 \in 0 .. QueueCap
        BY <2>4, <3>2
      <4>2. QED
        BY <3>1, <4>1 DEF Link
    <3>5. q \in Poll /\ q.pc = poll[p].pc /\ q.link = n /\ q.answer = poll[p].answer
      BY <1>1, <2>2 DEF Poll
    <3> HIDE DEF q, k, l
    <3>6. PollOK(q, Len(links))
      BY <3>5 DEF PollInv, PollsOK, PollOK
    <3>7. /\ poll' \in [Caller -> Poll] /\ \A c \in Caller : PollOK(poll'[c], Len(links))
          /\ \A i : Given(answered', poll', i) = Given(answered, poll, i)
      BY <1>1, <3>3, <3>5, <3>6, GivenStays
    <3>8. LinkOK(k) /\ Ordered(Given(answered, poll, n), k)
      BY <3>1, <3>2, <3>4, OrderedStays DEF LinkOK
    <3>9. /\ LinksOK' /\ Len(links') = Len(links)
          /\ \A i \in DOMAIN links' : Ordered(Given(answered, poll, i), links'[i])
      BY <1>1, <3>1, <3>3, <3>8, OneLinkChanges
    <3>10. PollsOK' /\ TasksOK' /\ OrderOK'
      BY <1>1, <3>7, <3>9 DEF PollInv, PollsOK, TasksOK, OrderOK
    <3>11. QED
      BY <3>9, <3>10 DEF PollInv
  <2>5. QED
    BY <1>3, <2>3, <2>4 DEF HandleEnvelope
<1>4. QED
  BY <1>2, <1>3

LEMMA CommandStep ==
    ASSUME PollInv, NEW p \in Caller, FirstCommand(p) \/ NextCommand(p)
    PROVE  PollInv'
BY TakenStep DEF FirstCommand, NextCommand, PollAt

\* A handler or the worker sends a command on a link that there is.
LEMMA CommandSent ==
    ASSUME PollInv, NEW n \in DOMAIN links, SendCommand(n), UNCHANGED <<registered, poll, answered>>
    PROVE  LinksOK' /\ PollsOK' /\ OrderOK' /\ Len(links') = Len(links)
<1> DEFINE l == links[n]
           k1 == [l EXCEPT !.queue = Append(@, l.sent + 1)]
           k == [k1 EXCEPT !.sent = @ + 1]
<1>1. /\ l \in Link /\ LinkOK(l) /\ Ordered(Given(answered, poll, n), l)
      /\ links \in Seq(Link) /\ Len(l.queue) < QueueCap
  BY DEF PollInv, LinksOK, LinkOK, OrderOK, SendCommand
<1>2. l.sent \in Nat /\ l.queue \in Seq(Nat) /\ QueueCap \in Nat
  BY <1>1, LongPollAssumption DEF Link, LongPollAssumption
<1>3. links' = [links EXCEPT ![n] = k]
  <2>1. links' = [links EXCEPT ![n].queue = Append(@, links[n].sent + 1), ![n].sent = @ + 1]
    BY DEF SendCommand
  <2>2. QED
    BY <1>1, <2>1
<1> HIDE DEF l
<1>4. /\ Append(l.queue, l.sent + 1) \in Seq(Nat) /\ l.sent + 1 \in Nat
      /\ Len(Append(l.queue, l.sent + 1)) = Len(l.queue) + 1
  <2>1. l.sent + 1 \in Nat
    BY <1>2
  <2>2. QED
    BY <1>2, <2>1, AppendProperties
<1>5. k \in Link /\ k.queue = Append(l.queue, l.sent + 1) /\ k.sent = l.sent + 1 /\ k.nextId = l.nextId
  <2>1. k1 \in Link /\ k1.queue = Append(l.queue, l.sent + 1) /\ k1.sent = l.sent /\ k1.nextId = l.nextId
    BY <1>1, <1>4 DEF Link
  <2> HIDE DEF k1
  <2>2. QED
    BY <1>4, <2>1 DEF Link
<1> HIDE DEF k
<1>6. LinkOK(k)
  BY <1>1, <1>2, <1>4, <1>5 DEF LinkOK
<1>7. Ordered(Given(answered, poll, n), k)
  BY <1>1, <1>5, OrderedSent
<1>8. /\ LinksOK' /\ Len(links') = Len(links)
      /\ \A i \in DOMAIN links' : Ordered(Given(answered, poll, i), links'[i])
  BY <1>3, <1>6, <1>7, OneLinkChanges
<1>9. PollsOK' /\ OrderOK'
  BY <1>8 DEF PollInv, PollsOK, OrderOK
<1>10. QED
  BY <1>8, <1>9

\* A terminal's handler relays an event of its link.
LEMMA EventTaken ==
    ASSUME PollInv, NEW n \in DOMAIN links, links[n].events > 0,
           links' = [links EXCEPT ![n].events = @ - 1], UNCHANGED <<registered, poll, answered>>
    PROVE  LinksOK' /\ PollsOK' /\ OrderOK' /\ Len(links') = Len(links)
<1> DEFINE l == links[n]
           k == [l EXCEPT !.events = @ - 1]
<1>1. /\ l \in Link /\ LinkOK(l) /\ Ordered(Given(answered, poll, n), l) /\ links \in Seq(Link)
  BY DEF PollInv, LinksOK, LinkOK, OrderOK
<1>2. l.events \in 0 .. QueueCap /\ l.events > 0 /\ QueueCap \in Nat /\ l.nextId \in Nat
  BY <1>1, LongPollAssumption DEF Link, LongPollAssumption
<1>3. links' = [links EXCEPT ![n] = k]
  BY <1>1
<1> HIDE DEF l
<1>4. k \in Link /\ k.queue = l.queue /\ k.sent = l.sent /\ k.nextId = l.nextId
  <2>1. l.events - 1 \in 0 .. QueueCap
    BY <1>2
  <2>2. QED
    BY <1>1, <2>1 DEF Link
<1> HIDE DEF k
<1>5. LinkOK(k) /\ Ordered(Given(answered, poll, n), k)
  BY <1>1, <1>2, <1>4, OrderedStays DEF LinkOK
<1>6. /\ LinksOK' /\ Len(links') = Len(links)
      /\ \A i \in DOMAIN links' : Ordered(Given(answered, poll, i), links'[i])
  BY <1>3, <1>5, OneLinkChanges
<1>7. PollsOK' /\ OrderOK'
  BY <1>6 DEF PollInv, PollsOK, OrderOK
<1>8. QED
  BY <1>6, <1>7

\* What is known of a terminal's handler, and what a step of it leaves.
LEMMA OfTask ==
    ASSUME PollInv, NEW s \in Terminal
    PROVE  /\ task[s] \in Task /\ task[s].link \in Nat /\ task[s].link <= Len(links)
           /\ Len(links) \in Nat /\ DOMAIN links = 1 .. Len(links)
           /\ task[s].pc \in {"starting", "looping", "sending"} \/ task[s].listed
                => task[s].link \in DOMAIN links
<1>1. task[s] \in Task /\ TaskOK(task[s], Len(links)) /\ Len(links) \in Nat
      /\ DOMAIN links = 1 .. Len(links)
  BY DEF PollInv, TasksOK, LinksOK
<1>2. task[s].link \in Nat
  BY <1>1 DEF Task
<1>3. QED
  BY <1>1, <1>2 DEF TaskOK

LEMMA TaskMoves ==
    ASSUME PollInv, NEW s \in Terminal, NEW t, TaskOK(t, Len(links)), task' = [task EXCEPT ![s] = t],
           Len(links') = Len(links), worker' \in 0 .. Len(links)
    PROVE  TasksOK'
<1>1. t \in Task /\ task \in [Terminal -> Task]
  BY DEF TaskOK, PollInv, TasksOK
<1>2. task' \in [Terminal -> Task] /\ \A r \in Terminal : task'[r] = IF r = s THEN t ELSE task[r]
  BY <1>1
<1>3. QED
  BY <1>2 DEF PollInv, TasksOK

LEMMA TerminalSteps ==
    ASSUME PollInv, NEW s \in Terminal,
           \/ TerminalPicksLink(s) \/ TaskStep(s) \/ BrowserSends(s) \/ BrowserEnds(s) \/ WorkerExpires(s)
    PROVE  PollInv'
<1>1. /\ task[s] \in Task /\ task[s].link \in Nat /\ task[s].link <= Len(links)
      /\ Len(links) \in Nat /\ DOMAIN links = 1 .. Len(links)
      /\ task[s].pc \in {"starting", "looping", "sending"} \/ task[s].listed
                => task[s].link \in DOMAIN links
  BY OfTask
<1>2. /\ task \in [Terminal -> Task] /\ worker \in 0 .. Len(links) /\ registered \in 0 .. Len(links)
      /\ TaskOK(task[s], Len(links))
  BY DEF PollInv, TasksOK, LinksOK
<1>3. UNCHANGED links /\ LinkUnchanged => LinksOK' /\ PollsOK' /\ OrderOK' /\ Len(links') = Len(links)
  BY DEF PollInv, LinksOK, PollsOK, OrderOK, LinkUnchanged
<1>4. CASE TerminalPicksLink(s)
  <2> DEFINE t1 == [task[s] EXCEPT !.pc = "starting"]
             t == [t1 EXCEPT !.link = registered]
  <2>1. /\ task[s].pc = "idle" /\ registered # 0 /\ task' = [task EXCEPT ![s] = t]
        /\ UNCHANGED <<links, worker>> /\ LinkUnchanged
    BY <1>2, <1>4 DEF TerminalPicksLink, TaskAt
  <2>2. t \in Task /\ t.pc = "starting" /\ t.link = registered
    <3>1. t1 \in Task /\ t1.pc = "starting"
      BY <1>1 DEF Task
    <3>2. registered \in Nat
      BY <1>2
    <3> HIDE DEF t1
    <3>3. QED
      BY <3>1, <3>2 DEF Task
  <2> HIDE DEF t
  <2>3. TaskOK(t, Len(links))
    BY <1>1, <1>2, <2>1, <2>2 DEF TaskOK
  <2>4. TasksOK'
    BY <1>2, <2>1, <2>3, TaskMoves
  <2>5. QED
    BY <1>3, <2>1, <2>4 DEF PollInv
<1>5. CASE TerminalStarts(s)
  <2> DEFINE t1 == [task[s] EXCEPT !.pc = "looping"]
             t == [t1 EXCEPT !.listed = TRUE]
  <2>1. /\ task[s].pc = "starting" /\ SendCommand(task[s].link) /\ task' = [task EXCEPT ![s] = t]
        /\ UNCHANGED worker /\ LinkUnchanged
    BY <1>2, <1>5 DEF TerminalStarts, TaskAt
  <2>2. LinksOK' /\ PollsOK' /\ OrderOK' /\ Len(links') = Len(links)
    BY <1>1, <2>1, CommandSent DEF LinkUnchanged
  <2>3. t \in Task /\ t.link = task[s].link
    <3>1. t1 \in Task /\ t1.link = task[s].link
      BY <1>1 DEF Task
    <3> HIDE DEF t1
    <3>2. QED
      BY <3>1 DEF Task
  <2> HIDE DEF t
  <2>4. TaskOK(t, Len(links))
    BY <1>1, <1>2, <2>1, <2>3 DEF TaskOK
  <2>5. TasksOK'
    BY <1>2, <2>1, <2>2, <2>4, TaskMoves
  <2>6. QED
    BY <2>2, <2>5 DEF PollInv
<1>6. CASE BrowserSends(s) \/ BrowserEnds(s) \/ FrameForwarded(s) \/ EventRelayed(s)
  <2>1. LinksOK' /\ PollsOK' /\ OrderOK' /\ Len(links') = Len(links)
    <3>1. CASE BrowserSends(s) \/ BrowserEnds(s)
      BY <1>3, <3>1 DEF BrowserSends, BrowserEnds
    <3>2. CASE FrameForwarded(s)
      BY <1>1, <3>2, CommandSent DEF FrameForwarded, LinkUnchanged, TaskAt
    <3>3. CASE EventRelayed(s)
      BY <1>1, <3>3, EventTaken DEF EventRelayed, LinkUnchanged, TaskAt
    <3>4. QED
      BY <1>6, <3>1, <3>2, <3>3
  <2>2. CASE EventRelayed(s)
    <3>1. TasksOK'
      BY <1>2, <2>1, <2>2 DEF EventRelayed, PollInv, TasksOK
    <3>2. QED
      BY <2>1, <3>1 DEF PollInv
  <2>3. CASE ~EventRelayed(s)
    <3>1. PICK pc \in {"sending", "looping", "done"} : task' = [task EXCEPT ![s].pc = pc]
      BY <1>6, <2>3 DEF BrowserSends, BrowserEnds, FrameForwarded
    <3>2. task[s].pc \in {"looping", "sending"} /\ UNCHANGED worker
      BY <1>6, <2>3 DEF BrowserSends, BrowserEnds, FrameForwarded, TaskAt
    <3> DEFINE t == [task[s] EXCEPT !.pc = pc]
    <3>3. t \in Task /\ t.link = task[s].link /\ task' = [task EXCEPT ![s] = t]
      BY <1>1, <1>2, <3>1 DEF Task
    <3> HIDE DEF t
    <3>4. TaskOK(t, Len(links))
      BY <1>1, <1>2, <3>2, <3>3 DEF TaskOK
    <3>5. TasksOK'
      BY <1>2, <2>1, <3>2, <3>3, <3>4, TaskMoves
    <3>6. QED
      BY <2>1, <3>5 DEF PollInv
  <2>4. QED
    BY <2>2, <2>3
<1>7. CASE WorkerExpires(s)
  <2> DEFINE t == [task[s] EXCEPT !.listed = FALSE]
  <2>1. /\ task' = [task EXCEPT ![s] = t] /\ worker' = task[s].link /\ task[s].listed
        /\ UNCHANGED links /\ LinkUnchanged
    BY <1>2, <1>7 DEF WorkerExpires
  <2>2. t \in Task /\ t.link = task[s].link /\ t.pc = task[s].pc
    BY <1>1 DEF Task
  <2> HIDE DEF t
  <2>3. TaskOK(t, Len(links))
    BY <1>1, <1>2, <2>1, <2>2 DEF TaskOK
  <2>4. worker' \in 0 .. Len(links) /\ Len(links') = Len(links)
    BY <1>1, <2>1
  <2>5. TasksOK'
    BY <2>1, <2>3, <2>4, TaskMoves
  <2>6. QED
    BY <1>3, <2>1, <2>5 DEF PollInv
<1>8. QED
  BY <1>4, <1>5, <1>6, <1>7 DEF TaskStep

LEMMA WorkerSteps ==
    ASSUME PollInv, WorkerSends \/ EntryLost
    PROVE  PollInv'
<1>1. Len(links) \in Nat /\ worker \in 0 .. Len(links) /\ DOMAIN links = 1 .. Len(links)
  BY DEF PollInv, LinksOK, TasksOK
<1>2. CASE EntryLost
  BY <1>1, <1>2 DEF EntryLost, PollInv, LinksOK, PollsOK, TasksOK, OrderOK
<1>3. CASE WorkerSends
  <2>1. LinksOK' /\ PollsOK' /\ OrderOK' /\ Len(links') = Len(links)
    <3>1. CASE SendCommand(worker)
      BY <1>1, <1>3, <3>1, CommandSent DEF WorkerSends, LinkUnchanged
    <3>2. CASE UNCHANGED links
      BY <1>3, <3>2 DEF WorkerSends, LinkUnchanged, PollInv, LinksOK, PollsOK, OrderOK
    <3>3. QED
      BY <1>3, <3>1, <3>2 DEF WorkerSends
  <2>2. TasksOK'
    BY <1>1, <1>3, <2>1 DEF WorkerSends, PollInv, TasksOK
  <2>3. QED
    BY <2>1, <2>2 DEF PollInv
<1>4. QED
  BY <1>2, <1>3

LEMMA PollInitially == PollInit => PollInv
<1> SUFFICES ASSUME PollInit PROVE PollInv
  OBVIOUS
<1>1. NoPoll \in Poll /\ NoPoll.pc = "idle" /\ NoPoll.link = 0 /\ NoPoll.answer = <<>>
  <2>1. 0 \in Nat /\ <<>> \in Seq(Word) /\ <<>> \in Seq(Envelope)
    OBVIOUS
  <2>2. QED
    BY <2>1 DEF NoPoll, Poll
<1>2. /\ Len(links) = 0 /\ DOMAIN links = {} /\ links \in Seq(Link) /\ registered = 0
      /\ answered \in Seq(SUBSET Envelope) /\ Len(answered) = 0 /\ worker = 0
  BY DEF PollInit
<1>3. LinksOK /\ OrderOK
  BY <1>2 DEF LinksOK, OrderOK
<1>4. PollsOK
  <2>1. PollOK(NoPoll, 0)
    BY <1>1, NoCommands DEF PollOK
  <2>2. QED
    BY <1>1, <1>2, <2>1 DEF PollInit, PollsOK
<1>5. TasksOK
  <2> DEFINE t == [pc |-> "idle", link |-> 0, listed |-> FALSE]
  <2>1. t \in Task /\ t.pc = "idle" /\ t.link = 0 /\ ~t.listed
    BY DEF Task
  <2>2. task = [s \in Terminal |-> t]
    BY DEF PollInit
  <2> HIDE DEF t
  <2>3. TaskOK(t, 0)
    BY <2>1 DEF TaskOK
  <2>4. QED
    BY <1>2, <2>1, <2>2, <2>3 DEF TasksOK
<1>6. QED
  BY <1>3, <1>4, <1>5 DEF PollInv

LEMMA PollInvariant == PollSpec => []PollInv
<1>1. PollInv /\ [PollNext]_pollVars => PollInv'
  <2> SUFFICES ASSUME PollInv, [PollNext]_pollVars PROVE PollInv'
    OBVIOUS
  <2>1. CASE UNCHANGED pollVars
    BY <2>1 DEF pollVars, PollInv, LinksOK, PollsOK, TasksOK, OrderOK
  <2>2. ASSUME NEW p \in Caller, Arrive(p) \/ PollStep(p) \/ HangUp(p) PROVE PollInv'
    BY <2>2, RequestMoves, EnsureStep, EnvelopeStep, CommandStep, RespondStep DEF PollStep
  <2>3. ASSUME NEW s \in Terminal,
               \/ TerminalPicksLink(s) \/ TaskStep(s) \/ BrowserSends(s) \/ BrowserEnds(s)
               \/ WorkerExpires(s)
        PROVE  PollInv'
    BY <2>3, TerminalSteps
  <2>4. QED
    BY <2>1, <2>2, <2>3, WorkerSteps DEF PollNext
<1>2. QED
  BY <1>1, PollInitially, PTL DEF PollSpec

(* Every link, every request and every terminal's handler has the fields    *)
(* the handlers write, none names a link that was never registered, and no  *)
(* channel of a link holds more than its capacity.                          *)
THEOREM PollTypeCorrect == PollSpec => []PollTypeOK
<1>1. PollInv => PollTypeOK
  <2> SUFFICES ASSUME PollInv PROVE PollTypeOK
    OBVIOUS
  <2>1. Len(links) \in Nat
    BY DEF PollInv, LinksOK
  <2>2. ASSUME NEW p \in Caller
        PROVE  poll[p] \in [pc : {"idle", "negotiated", "registered", "events", "waiting", "draining"},
                            link : 0 .. Len(links), todo : Seq({"ping", "output", "stray"}),
                            answer : Seq(Envelope)]
    <3>1. poll[p] \in Poll /\ poll[p].link \in 0 .. Len(links)
      BY <2>1, OfRequest
    <3>2. QED
      BY <3>1 DEF Poll, Word
  <2>3. ASSUME NEW s \in Terminal
        PROVE  task[s] \in [pc : {"idle", "starting", "looping", "sending", "done"},
                            link : 0 .. Len(links), listed : BOOLEAN]
    <3>1. task[s] \in Task /\ task[s].link \in 0 .. Len(links)
      BY <2>1, OfTask
    <3>2. QED
      BY <3>1 DEF Task
  <2>4. \A n \in DOMAIN links : Len(links[n].queue) <= QueueCap
    BY DEF PollInv, LinksOK, LinkOK
  <2>5. QED
    BY <2>2, <2>3, <2>4 DEF PollInv, LinksOK, PollsOK, TasksOK, PollTypeOK, Link
<1>2. QED
  BY <1>1, PollInvariant, PTL

(* Requests of one node that overlap and are dropped at any await lose no   *)
(* command that was sent and give none twice, and their message ids order   *)
(* the commands as they were sent.                                          *)
THEOREM IdsAlwaysOrderCommands == PollSpec => []IdsOrderCommands
<1>1. PollInv => IdsOrderCommands
  <2> SUFFICES ASSUME PollInv, NEW n \in DOMAIN links
               PROVE  LET given == CommandsDrawn(n)
                          taken  == links[n].sent - Len(links[n].queue)
                      IN  /\ {e.command : e \in given} = 1 .. taken
                          /\ \A i \in DOMAIN links[n].queue : links[n].queue[i] = taken + i
                          /\ \A d, e \in given : d.id < e.id <=> d.command < e.command
    BY DEF IdsOrderCommands
  <2>1. Ordered(CommandsDrawn(n), links[n])
    BY DEF PollInv, OrderOK, CommandsDrawn, Given
  <2>2. links[n].queue \in Seq(Nat)
    BY DEF PollInv, LinksOK, LinkOK, Link
  <2>3. DOMAIN links[n].queue = 1 .. Len(links[n].queue)
    BY <2>2
  <2>4. {e.command : e \in CommandsDrawn(n)} = 1 .. links[n].sent - Len(links[n].queue)
    BY <2>1 DEF Ordered
  <2>5. QED
    BY <2>1, <2>3, <2>4 DEF Ordered
<1>2. QED
  BY <1>1, PollInvariant, PTL
=============================================================================
