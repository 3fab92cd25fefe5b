------------------------ MODULE SessionEventsProofs ------------------------
(***************************************************************************)
(* SessionEvents for any number of publishers and any bounds.              *)
(*                                                                         *)
(* The argument: whatever is under way to the panel is already in the      *)
(* table; the dedupe set is what the list holds, at each trim too; and an  *)
(* event a response may owe the client is shown, in the replay's batch,    *)
(* queued, or recorded as lost or as fallen into the gap.                  *)
(***************************************************************************)
EXTENDS SessionEvents, SequenceTheorems, TLAPS

Stored(n) == n \in EventNos /\ n <= last

\* Everything under way is in the table.
UnderWay ==
  /\ \A p \in Publishers : unsent[p] <= last
  /\ \A k \in 1 .. Len(batch) : Stored(batch[k])
  /\ \A k \in 1 .. Len(channel) : Stored(channel[k])

\* The hook's state against what it has shown.
HookInv ==
  /\ \A n \in EventNos : shown[n] > 0 => n <= last
  /\ \A n \in seen : shown[n] > 0
  /\ seen = {events[k] : k \in 1 .. Len(events)}
  /\ \A i, k \in 1 .. Len(events) : i # k => events[i] # events[k]

InBatch(n) == \E k \in 1 .. Len(batch) : batch[k] = n

\* An event published after the replay query.
Tracked(n) == shown[n] > 0 \/ Queued(n) \/ n \in lost \/ n \in gap

\* What the current response owes the client.
ReplayInv ==
  conn # "none" =>
    \A n \in EventNos :
      /\ since < n /\ n <= base /\ n <= since + ReplayLimit =>
           shown[n] > 0 \/ (conn = "replay" /\ InBatch(n))
      /\ base < n /\ n <= last => Tracked(n)

IInv == TypeOK /\ UnderWay /\ HookInv /\ ReplayInv

-----------------------------------------------------------------------------

\* What the assumption says of the bounds, one by one.
LEMMA Bounds ==
  /\ MaxEvents \in Nat /\ ReplayLimit \in Nat /\ ReplayLimit > 0 /\ Window \in Nat /\ Window > 0
  /\ \A n \in EventNos : n \in Nat /\ 0 < n /\ n <= MaxEvents
BY SessionAssumption DEF EventNos

\* The tail of a queue is the queue without its head.
LEMMA TailFacts ==
  ASSUME NEW S, NEW s \in Seq(S), s # << >>
  PROVE  /\ Head(s) = s[1] /\ s[1] \in S /\ Len(s) \in Nat /\ Len(s) > 0
         /\ Tail(s) \in Seq(S) /\ Len(Tail(s)) = Len(s) - 1
         /\ \A k \in 1 .. Len(Tail(s)) : k + 1 \in 1 .. Len(s) /\ Tail(s)[k] = s[k + 1]
<1>1. /\ Tail(s) \in Seq(S) /\ Len(Tail(s)) = Len(s) - 1 /\ Len(s) \in Nat /\ Len(s) > 0
      /\ Head(s) = s[1] /\ s[1] \in S
  OBVIOUS
<1>2. \A k \in 1 .. Len(Tail(s)) : Tail(s)[k] = s[k + 1]
  OBVIOUS
<1>3. \A k \in 1 .. Len(Tail(s)) : k + 1 \in 1 .. Len(s)
  BY <1>1
<1> QED
  BY <1>1, <1>2, <1>3

\* The rows after the cursor, up to the page limit.
LEMMA ReplayFacts ==
  ASSUME last \in 0 .. MaxEvents, NEW from \in 0 .. MaxEvents
  PROVE  LET r == ReplayRows(from) IN
           /\ r \in Seq(EventNos)
           /\ \A k \in 1 .. Len(r) : Stored(r[k])
           /\ \A n \in EventNos : from < n /\ n <= last /\ n <= from + ReplayLimit =>
                \E k \in 1 .. Len(r) : r[k] = n
<1> DEFINE missed == last - from
           count == IF missed < ReplayLimit THEN missed ELSE ReplayLimit
           size == IF count < 0 THEN 0 ELSE count
           r == ReplayRows(from)
<1>1. /\ missed \in Int /\ count \in Int /\ size \in Nat /\ count <= missed
      /\ (1 .. count = 1 .. size /\ from + size <= last) \/ size = 0
      /\ \A n \in EventNos : from < n /\ n <= last /\ n <= from + ReplayLimit =>
           n - from \in 1 .. size /\ from + (n - from) = n
  BY Bounds
<1>2. r = [k \in 1 .. size |-> from + k]
  BY <1>1 DEF ReplayRows
<1> HIDE DEF r, count, size
<1>3. \A k \in 1 .. size : from + k \in EventNos /\ from + k <= last
  BY <1>1, Bounds DEF EventNos
<1>4. r \in [1 .. size -> EventNos]
  BY <1>2, <1>3
<1>5. r \in Seq(EventNos) /\ Len(r) = size
  BY <1>1, <1>4
<1>6. \A k \in 1 .. size : r[k] = from + k
  BY <1>2
<1>7. ASSUME NEW n \in EventNos, from < n, n <= last, n <= from + ReplayLimit
      PROVE  \E k \in 1 .. Len(r) : r[k] = n
  <2>1. n - from \in 1 .. size /\ from + (n - from) = n
    BY <1>1, <1>7
  <2> QED
    BY <1>5, <1>6, <2>1
<1> QED
  BY <1>3, <1>5, <1>6, <1>7 DEF Stored, r

\* What a frame does to the hook.
LEMMA ReceiveFacts ==
  ASSUME IInv, NEW n, Stored(n), Receive(n), last' = last
  PROVE  /\ seen' \subseteq EventNos /\ lastSeqNo' \in 0 .. MaxEvents
         /\ events' \in Seq(EventNos) /\ Len(events') <= Window /\ shown' \in [EventNos -> Nat]
         /\ HookInv'
         /\ shown'[n] > 0 /\ \A m \in EventNos : shown[m] > 0 => shown'[m] > 0
<1>1. /\ n \in EventNos /\ n <= last /\ n \in Nat /\ n <= MaxEvents
  BY Bounds DEF Stored
<1>2. /\ seen \subseteq EventNos /\ lastSeqNo \in 0 .. MaxEvents /\ events \in Seq(EventNos)
      /\ Len(events) <= Window /\ Len(events) \in Nat /\ shown \in [EventNos -> Nat] /\ last \in Nat
  BY DEF IInv, TypeOK
<1>3. HookInv
  BY DEF IInv
<1>4. CASE n \in seen
  <2>1. UNCHANGED hookVars
    BY <1>4 DEF Receive
  <2>2. HookInv'
    BY <1>3, <2>1 DEF HookInv, hookVars
  <2> QED
    BY <1>2, <1>3, <1>4, <2>1, <2>2 DEF hookVars, HookInv
<1>5. CASE n \notin seen
  <2> DEFINE list == Append(events, n)
             kept == IF Len(list) > Window THEN Tail(list) ELSE list
  <2>1. /\ list \in Seq(EventNos) /\ Len(list) = Len(events) + 1 /\ list # << >>
        /\ list[Len(events) + 1] = n /\ \A k \in 1 .. Len(events) : list[k] = events[k]
    BY <1>1, <1>2
  <2>2. /\ events' = kept /\ shown' = [shown EXCEPT ![n] = @ + 1]
        /\ seen' = IF Len(list) > Window THEN {kept[k] : k \in DOMAIN kept} ELSE seen \cup {n}
        /\ lastSeqNo' = IF n > lastSeqNo THEN n ELSE lastSeqNo
    BY <1>5 DEF Receive
  <2>3. /\ shown' \in [EventNos -> Nat] /\ shown'[n] = shown[n] + 1
        /\ \A m \in EventNos : m # n => shown'[m] = shown[m]
    BY <1>1, <1>2, <2>2
  <2>4. shown'[n] > 0 /\ \A m \in EventNos : shown[m] > 0 => shown'[m] > 0
    BY <1>1, <1>2, <2>3
  <2> HIDE DEF list
  <2>5. /\ n \notin {events[k] : k \in 1 .. Len(events)}
        /\ \A i, k \in 1 .. Len(events) : i # k => events[i] # events[k]
    BY <1>3, <1>5 DEF HookInv
  <2>6. \A i, k \in 1 .. Len(list) : i # k => list[i] # list[k]
    <3> SUFFICES ASSUME NEW i \in 1 .. Len(list), NEW k \in 1 .. Len(list), i # k
                 PROVE  list[i] # list[k]
      OBVIOUS
    <3>1. /\ i \in 1 .. Len(events) \/ i = Len(events) + 1
          /\ k \in 1 .. Len(events) \/ k = Len(events) + 1
      BY <1>2, <2>1
    <3> QED
      BY <2>1, <2>5, <3>1
  <2>7. \A k \in 1 .. Len(list) : list[k] \in EventNos /\ (list[k] \in seen \/ list[k] = n)
    <3> SUFFICES ASSUME NEW k \in 1 .. Len(list)
                 PROVE  list[k] \in EventNos /\ (list[k] \in seen \/ list[k] = n)
      OBVIOUS
    <3>1. k \in 1 .. Len(events) \/ k = Len(events) + 1
      BY <1>2, <2>1
    <3>2. list[k] \in EventNos
      BY <2>1
    <3> QED
      BY <1>3, <2>1, <3>1, <3>2 DEF HookInv
  <2>8. \A m \in seen \cup {n} : \E k \in 1 .. Len(list) : list[k] = m
    <3> SUFFICES ASSUME NEW m \in seen \cup {n} PROVE \E k \in 1 .. Len(list) : list[k] = m
      OBVIOUS
    <3>1. CASE m = n
      <4>1. Len(events) + 1 \in 1 .. Len(list)
        BY <1>2, <2>1
      <4> QED
        BY <2>1, <3>1, <4>1
    <3>2. CASE m \in seen
      <4>1. PICK k \in 1 .. Len(events) : events[k] = m
        BY <1>3, <3>2 DEF HookInv
      <4>2. k \in 1 .. Len(list)
        BY <1>2, <2>1
      <4> QED
        BY <2>1, <4>1, <4>2
    <3> QED
      BY <3>1, <3>2
  <2>9. /\ kept \in Seq(EventNos) /\ Len(kept) <= Window
        /\ \A i, k \in 1 .. Len(kept) : i # k => kept[i] # kept[k]
        /\ \A k \in 1 .. Len(kept) : kept[k] \in seen \/ kept[k] = n
        /\ seen' = {kept[k] : k \in 1 .. Len(kept)}
    <3>1. CASE Len(list) > Window
      <4>1. /\ Tail(list) \in Seq(EventNos) /\ Len(Tail(list)) = Len(list) - 1
            /\ \A k \in 1 .. Len(Tail(list)) : k + 1 \in 1 .. Len(list) /\ Tail(list)[k] = list[k + 1]
        BY <2>1, TailFacts
      <4>2. Len(list) - 1 <= Window
        BY <1>2, <2>1
      <4>3. kept = Tail(list) /\ seen' = {kept[k] : k \in DOMAIN kept}
        BY <2>2, <3>1
      <4> HIDE DEF kept
      <4>4. DOMAIN kept = 1 .. Len(kept)
        BY <4>1, <4>3
      <4>5. \A i, k \in 1 .. Len(kept) : i # k => i + 1 # k + 1
        BY <4>1
      <4>6. \A i, k \in 1 .. Len(kept) : i # k => kept[i] # kept[k]
        BY <2>6, <4>1, <4>3, <4>5
      <4> QED
        BY <2>7, <4>1, <4>2, <4>3, <4>4, <4>6
    <3>2. CASE ~(Len(list) > Window)
      <4>1. kept = list /\ Len(list) <= Window /\ seen' = seen \cup {n}
        BY <1>2, <2>1, <2>2, <3>2, Bounds
      <4> HIDE DEF kept
      <4>2. seen \cup {n} = {list[k] : k \in 1 .. Len(list)}
        BY <2>7, <2>8
      <4> QED
        BY <2>1, <2>6, <2>7, <4>1, <4>2
    <3> QED
      BY <3>1, <3>2
  <2> HIDE DEF kept
  <2>10. seen' \subseteq EventNos /\ \A m \in seen' : shown'[m] > 0
    <3>1. \A m \in seen' : m \in seen \/ m = n
      BY <2>9
    <3> QED
      BY <1>1, <1>2, <1>3, <2>4, <3>1 DEF HookInv
  <2>11. lastSeqNo' \in 0 .. MaxEvents
    BY <1>1, <1>2, <2>2
  <2>12. \A m \in EventNos : shown'[m] > 0 => m <= last
    BY <1>1, <1>3, <2>3 DEF HookInv
  <2>13. HookInv'
    BY <2>2, <2>9, <2>10, <2>12 DEF HookInv
  <2> QED
    BY <2>2, <2>3, <2>4, <2>9, <2>10, <2>11, <2>13
<1> QED
  BY <1>4, <1>5

-----------------------------------------------------------------------------

\* A hook that has shown nothing satisfies its invariant.
LEMMA FreshIsInv ==
  ASSUME seen = {}, lastSeqNo = 0, events = << >>, shown = [n \in EventNos |-> 0]
  PROVE  HookInv
<1>1. \A n \in EventNos : shown[n] = 0
  OBVIOUS
<1>2. 1 .. Len(events) = {}
  OBVIOUS
<1> QED
  BY <1>1, <1>2 DEF HookInv

\* The invariant holds at first.
LEMMA InitEstablishes == Init => IInv
<1> SUFFICES ASSUME Init PROVE IInv
  OBVIOUS
<1>1. TypeOK
  BY Bounds DEF Init, TypeOK, FreshHook
<1>2. UnderWay
  BY DEF Init, UnderWay
<1>3. HookInv
  BY FreshIsInv DEF Init, FreshHook
<1>4. ReplayInv
  BY DEF Init, ReplayInv
<1> QED
  BY <1>1, <1>2, <1>3, <1>4 DEF IInv

\* Committing and fanning out an event.
LEMMA PublishKeeps ==
  ASSUME IInv, NEW p \in Publishers, Persist(p) \/ FanOut(p) \/ FanOutLost(p)
  PROVE  IInv'
<1>1. /\ last \in Nat /\ last <= MaxEvents /\ unsent \in [Publishers -> 0 .. MaxEvents]
      /\ batch \in Seq(EventNos) /\ channel \in Seq(EventNos) /\ lost \subseteq EventNos
      /\ unsent[p] \in 0 .. MaxEvents /\ unsent[p] <= last
  BY Bounds DEF IInv, TypeOK, UnderWay
<1>2. CASE Persist(p)
  <2>1. /\ last' = last + 1 /\ unsent' = [unsent EXCEPT ![p] = last + 1]
        /\ last < MaxEvents /\ UNCHANGED <<lost, connVars, hookVars>>
    BY <1>2 DEF Persist
  <2>2. TypeOK'
    BY <1>1, <2>1, Bounds DEF IInv, TypeOK, connVars, hookVars
  <2>3. \A n : Stored(n) => Stored(n)'
    BY <1>1, <2>1, Bounds DEF Stored
  <2>4. \A q \in Publishers : unsent'[q] <= last'
    BY <1>1, <2>1 DEF IInv, UnderWay
  <2>5. UnderWay'
    BY <2>1, <2>3, <2>4 DEF IInv, UnderWay, connVars
  <2>6. HookInv'
    <3>1. \A n \in EventNos : shown[n] > 0 => n <= last'
      BY <1>1, <2>1, Bounds DEF IInv, HookInv
    <3> QED
      BY <2>1, <3>1 DEF IInv, HookInv, hookVars
  <2>7. ReplayInv'
    <3>1. unsent'[p] = last + 1 /\ \A q \in Publishers : q # p => unsent'[q] = unsent[q]
      BY <1>1, <2>1
    <3>2. unsent[p] = 0
      BY <1>2 DEF Persist
    <3>3. \A n \in EventNos : Tracked(n) => Tracked(n)'
      BY <2>1, <3>1, <3>2, Bounds DEF Tracked, Queued, connVars, hookVars
    <3>4. \A n \in EventNos : n <= last' => n <= last \/ n = last + 1
      BY <1>1, <2>1, Bounds
    <3>5. \A n \in EventNos : n = last + 1 => Tracked(n)'
      BY <3>1 DEF Tracked, Queued
    <3> QED
      BY <2>1, <3>3, <3>4, <3>5 DEF IInv, ReplayInv, InBatch, connVars, hookVars
  <2> QED
    BY <2>2, <2>5, <2>6, <2>7 DEF IInv
<1>3. CASE FanOut(p)
  <2>1. /\ channel' = channel \/ (channel' = Append(channel, unsent[p]) /\ unsent[p] # 0)
        /\ channel' = IF conn = "tail" THEN Append(channel, unsent[p]) ELSE channel
        /\ gap' = IF conn = "replay" THEN gap \cup {unsent[p]} ELSE gap
        /\ unsent[p] # 0 /\ unsent' = [unsent EXCEPT ![p] = 0]
        /\ UNCHANGED <<last, lost, conn, batch, since, base, hookVars>>
    BY <1>3 DEF FanOut
  <2>2. unsent[p] # 0 => Stored(unsent[p])
    BY <1>1, Bounds DEF Stored, EventNos
  <2>3. channel' \in Seq(EventNos) /\ \A k \in 1 .. Len(channel') : Stored(channel'[k])
    <3>1. CASE channel' = channel
      BY <1>1, <3>1 DEF IInv, UnderWay
    <3>2. CASE channel' = Append(channel, unsent[p]) /\ unsent[p] # 0
      BY <1>1, <2>2, <3>2 DEF IInv, UnderWay, Stored
    <3> QED
      BY <2>1, <3>1, <3>2
  <2>4. TypeOK'
    BY <1>1, <2>1, <2>2, <2>3, Bounds DEF IInv, TypeOK, Stored, hookVars
  <2>5. \A q \in Publishers : unsent'[q] <= last
    BY <1>1, <2>1 DEF IInv, UnderWay
  <2>6. UnderWay'
    BY <2>1, <2>3, <2>5 DEF IInv, UnderWay, Stored
  <2>7. HookInv'
    BY <2>1 DEF IInv, HookInv, hookVars
  <2>8. ReplayInv'
    <3>1. unsent'[p] = 0 /\ \A q \in Publishers : q # p => unsent'[q] = unsent[q]
      BY <1>1, <2>1
    <3>2. ASSUME NEW n \in EventNos, conn # "none", Tracked(n) PROVE Tracked(n)'
      <4>1. CASE \E k \in DOMAIN channel : channel[k] = n
        <5>1. PICK k \in DOMAIN channel : channel[k] = n
          BY <4>1
        <5>2. k \in DOMAIN channel' /\ channel'[k] = channel[k]
          BY <1>1, <2>1, <2>2 DEF Stored
        <5> QED
          BY <5>1, <5>2 DEF Tracked, Queued
      <4>2. CASE n = unsent[p]
        <5>1. CASE conn = "tail"
          <6>1. channel' = Append(channel, unsent[p]) /\ unsent[p] \in EventNos
            BY <2>1, <2>2, <5>1 DEF Stored
          <6>2. Len(channel) + 1 \in DOMAIN channel' /\ channel'[Len(channel) + 1] = unsent[p]
            BY <1>1, <6>1
          <6> QED
            BY <4>2, <6>2 DEF Tracked, Queued
        <5>2. CASE conn = "replay"
          BY <2>1, <4>2, <5>2 DEF Tracked
        <5> QED
          BY <3>2, <5>1, <5>2 DEF IInv, TypeOK
      <4>3. CASE \E q \in Publishers : unsent[q] = n /\ n # unsent[p]
        BY <3>1, <4>3 DEF Tracked, Queued
      <4>4. CASE shown[n] > 0 \/ n \in lost \/ n \in gap
        BY <2>1, <4>4 DEF Tracked, hookVars
      <4> QED
        BY <3>2, <4>1, <4>2, <4>3, <4>4 DEF Tracked, Queued
    <3> QED
      BY <2>1, <3>2 DEF IInv, ReplayInv, InBatch, hookVars
  <2> QED
    BY <2>4, <2>6, <2>7, <2>8 DEF IInv
<1>4. CASE FanOutLost(p)
  <2>1. /\ unsent' = [unsent EXCEPT ![p] = 0] /\ lost' = lost \cup {unsent[p]} /\ unsent[p] # 0
        /\ UNCHANGED <<last, connVars, hookVars>>
    BY <1>4 DEF FanOutLost
  <2>2. unsent[p] \in EventNos
    BY <1>1, <2>1, Bounds DEF EventNos
  <2>3. TypeOK'
    BY <1>1, <2>1, <2>2, Bounds DEF IInv, TypeOK, connVars, hookVars
  <2>4. \A q \in Publishers : unsent'[q] <= last
    BY <1>1, <2>1 DEF IInv, UnderWay
  <2>5. UnderWay'
    BY <2>1, <2>4 DEF IInv, UnderWay, Stored, connVars
  <2>6. HookInv'
    BY <2>1 DEF IInv, HookInv, hookVars
  <2>7. ReplayInv'
    <3>1. \A q \in Publishers : unsent'[q] = unsent[q] \/ unsent[q] \in lost'
      BY <1>1, <2>1
    <3>2. \A n \in EventNos : Tracked(n) => Tracked(n)'
      BY <2>1, <3>1 DEF Tracked, Queued, connVars, hookVars
    <3> QED
      BY <2>1, <3>2 DEF IInv, ReplayInv, InBatch, connVars, hookVars
  <2> QED
    BY <2>3, <2>5, <2>6, <2>7 DEF IInv
<1> QED
  BY <1>2, <1>3, <1>4

\* Opening a connection: the replay query, then the subscription.
LEMMA ConnectKeeps ==
  ASSUME IInv, Connect \/ SubscribeRedis
  PROVE  IInv'
<1>1. CASE Connect
  <2>1. /\ conn' = "replay" /\ since' = lastSeqNo /\ base' = last /\ batch' = ReplayRows(lastSeqNo)
        /\ gap' = {} /\ UNCHANGED <<last, lost, unsent, channel, hookVars>>
    BY <1>1 DEF Connect
  <2>2. last \in 0 .. MaxEvents /\ lastSeqNo \in 0 .. MaxEvents
    BY DEF IInv, TypeOK
  <2>3. /\ batch' \in Seq(EventNos)
        /\ \A k \in 1 .. Len(batch') : Stored(batch'[k])
        /\ \A n \in EventNos : lastSeqNo < n /\ n <= last /\ n <= lastSeqNo + ReplayLimit =>
             \E k \in 1 .. Len(batch') : batch'[k] = n
    BY <2>1, <2>2, ReplayFacts
  <2>4. TypeOK'
    BY <2>1, <2>2, <2>3 DEF IInv, TypeOK, hookVars
  <2>5. UnderWay'
    BY <2>1, <2>3 DEF IInv, UnderWay, Stored
  <2>6. HookInv'
    BY <2>1 DEF IInv, HookInv, hookVars
  <2>7. ReplayInv'
    <3>1. \A n \in EventNos : ~(base' < n /\ n <= last')
      BY <2>1, <2>2, Bounds
    <3> QED
      BY <2>1, <2>3, <3>1 DEF ReplayInv, InBatch
  <2> QED
    BY <2>4, <2>5, <2>6, <2>7 DEF IInv
<1>2. CASE SubscribeRedis
  <2>1. /\ conn = "replay" /\ batch = << >> /\ conn' = "tail"
        /\ UNCHANGED <<last, lost, unsent, batch, channel, gap, since, base, hookVars>>
    BY <1>2 DEF SubscribeRedis
  <2>2. 1 .. Len(batch) = {}
    BY <2>1
  <2>3. TypeOK' /\ UnderWay' /\ HookInv'
    BY <2>1 DEF IInv, TypeOK, UnderWay, HookInv, Stored, hookVars
  <2>4. ReplayInv'
    BY <2>1, <2>2 DEF IInv, ReplayInv, InBatch, Tracked, Queued, hookVars
  <2> QED
    BY <2>3, <2>4 DEF IInv
<1> QED
  BY <1>1, <1>2

\* A frame of the replay or of the live tail.
LEMMA FrameKeeps ==
  ASSUME IInv, ReplayFrame \/ LiveFrame
  PROVE  IInv'
<1>1. /\ batch \in Seq(EventNos) /\ channel \in Seq(EventNos)
      /\ \A k \in 1 .. Len(batch) : Stored(batch[k])
      /\ \A k \in 1 .. Len(channel) : Stored(channel[k])
  BY DEF IInv, TypeOK, UnderWay
<1>2. CASE ReplayFrame
  <2>1. /\ conn = "replay" /\ batch # << >> /\ Receive(Head(batch)) /\ batch' = Tail(batch)
        /\ UNCHANGED <<last, lost, unsent, conn, channel, gap, since, base>>
    BY <1>2 DEF ReplayFrame
  <2>2. /\ Head(batch) = batch[1] /\ Len(batch) \in Nat /\ Len(batch) > 0
        /\ batch' \in Seq(EventNos) /\ Len(batch') = Len(batch) - 1
        /\ \A k \in 1 .. Len(batch') : k + 1 \in 1 .. Len(batch) /\ batch'[k] = batch[k + 1]
    BY <1>1, <2>1, TailFacts
  <2>3. Stored(batch[1])
    BY <1>1, <2>2
  <2>4. /\ seen' \subseteq EventNos /\ lastSeqNo' \in 0 .. MaxEvents
        /\ events' \in Seq(EventNos) /\ Len(events') <= Window /\ shown' \in [EventNos -> Nat]
        /\ HookInv'
        /\ shown'[batch[1]] > 0 /\ \A m \in EventNos : shown[m] > 0 => shown'[m] > 0
    BY <2>1, <2>2, <2>3, ReceiveFacts
  <2>5. TypeOK'
    BY <2>1, <2>2, <2>4 DEF IInv, TypeOK
  <2>6. UnderWay'
    BY <1>1, <2>1, <2>2 DEF IInv, UnderWay, Stored
  <2>7. ReplayInv'
    <3>1. ASSUME NEW n \in EventNos, base < n, n <= last PROVE Tracked(n)'
      BY <2>1, <2>4, <3>1 DEF IInv, ReplayInv, Tracked, Queued
    <3>2. ASSUME NEW n \in EventNos, since < n, n <= base, n <= since + ReplayLimit
          PROVE  shown'[n] > 0 \/ \E k \in 1 .. Len(batch') : batch'[k] = n
      <4>1. shown[n] > 0 \/ \E k \in 1 .. Len(batch) : batch[k] = n
        BY <2>1, <3>2 DEF IInv, ReplayInv, InBatch
      <4>2. ASSUME NEW k \in 1 .. Len(batch), batch[k] = n, k # 1
            PROVE  \E i \in 1 .. Len(batch') : batch'[i] = n
        <5>1. k - 1 \in 1 .. Len(batch') /\ (k - 1) + 1 = k
          BY <2>2, <4>2
        <5> QED
          BY <2>2, <4>2, <5>1
      <4> QED
        BY <2>4, <4>1, <4>2
    <3> QED
      BY <2>1, <3>1, <3>2 DEF ReplayInv, InBatch
  <2> QED
    BY <2>4, <2>5, <2>6, <2>7 DEF IInv
<1>3. CASE LiveFrame
  <2>1. /\ conn = "tail" /\ channel # << >> /\ Receive(Head(channel)) /\ channel' = Tail(channel)
        /\ UNCHANGED <<last, lost, unsent, conn, batch, gap, since, base>>
    BY <1>3 DEF LiveFrame
  <2>2. /\ Head(channel) = channel[1] /\ Len(channel) \in Nat /\ Len(channel) > 0
        /\ channel' \in Seq(EventNos) /\ Len(channel') = Len(channel) - 1
        /\ \A k \in 1 .. Len(channel') : k + 1 \in 1 .. Len(channel) /\ channel'[k] = channel[k + 1]
    BY <1>1, <2>1, TailFacts
  <2>3. Stored(channel[1])
    BY <1>1, <2>2
  <2>4. /\ seen' \subseteq EventNos /\ lastSeqNo' \in 0 .. MaxEvents
        /\ events' \in Seq(EventNos) /\ Len(events') <= Window /\ shown' \in [EventNos -> Nat]
        /\ HookInv'
        /\ shown'[channel[1]] > 0 /\ \A m \in EventNos : shown[m] > 0 => shown'[m] > 0
    BY <2>1, <2>2, <2>3, ReceiveFacts
  <2>5. TypeOK'
    BY <2>1, <2>2, <2>4 DEF IInv, TypeOK
  <2>6. UnderWay'
    BY <1>1, <2>1, <2>2 DEF IInv, UnderWay, Stored
  <2>7. ReplayInv'
    <3>1. DOMAIN channel = 1 .. Len(channel) /\ DOMAIN channel' = 1 .. Len(channel')
      BY <1>1, <2>2
    <3>2. ASSUME NEW k \in DOMAIN channel, k # 1
          PROVE  \E i \in DOMAIN channel' : channel'[i] = channel[k]
      <4>1. k - 1 \in 1 .. Len(channel') /\ (k - 1) + 1 = k
        BY <2>2, <3>1, <3>2
      <4> QED
        BY <2>2, <3>1, <4>1
    <3>3. \A n \in EventNos : Tracked(n) => Tracked(n)'
      BY <2>1, <2>4, <3>2 DEF Tracked, Queued
    <3> QED
      BY <2>1, <2>4, <3>3 DEF IInv, ReplayInv, InBatch
  <2> QED
    BY <2>4, <2>5, <2>6, <2>7 DEF IInv
<1> QED
  BY <1>2, <1>3

\* A dropped connection, and a hook bound to another session.
LEMMA EndKeeps ==
  ASSUME IInv, Drop \/ Rebind
  PROVE  IInv'
<1>1. /\ conn' = "none" /\ batch' = << >> /\ channel' = << >>
      /\ UNCHANGED <<gap, since, base, last, lost, unsent>>
  BY DEF Drop, Rebind, Hangup
<1>2. << >> \in Seq(EventNos) /\ 1 .. Len(batch') = {} /\ 1 .. Len(channel') = {}
  BY <1>1
<1>3. UnderWay' /\ ReplayInv'
  BY <1>1, <1>2 DEF IInv, UnderWay, ReplayInv
<1>4. CASE Drop
  <2>1. UNCHANGED hookVars
    BY <1>4 DEF Drop
  <2>2. TypeOK' /\ HookInv'
    BY <1>1, <1>2, <2>1 DEF IInv, TypeOK, HookInv, hookVars
  <2> QED
    BY <1>3, <2>2 DEF IInv
<1>5. CASE Rebind
  <2>1. seen' = {} /\ lastSeqNo' = 0 /\ events' = << >> /\ shown' = [n \in EventNos |-> 0]
    BY <1>5 DEF Rebind
  <2>2. TypeOK'
    BY <1>1, <1>2, <2>1, Bounds DEF IInv, TypeOK
  <2>3. HookInv'
    <3>1. \A n \in EventNos : shown'[n] = 0
      BY <2>1
    <3>2. 1 .. Len(events') = {}
      BY <2>1
    <3> QED
      BY <2>1, <3>1, <3>2 DEF HookInv
  <2> QED
    BY <1>3, <2>2, <2>3 DEF IInv
<1> QED
  BY <1>4, <1>5

\* Every step keeps the invariant.
LEMMA NextKeeps == IInv /\ [Next]_vars => IInv'
<1> SUFFICES ASSUME IInv, [Next]_vars PROVE IInv'
  OBVIOUS
<1>1. CASE UNCHANGED vars
  BY <1>1 DEF vars, connVars, hookVars, IInv, TypeOK, UnderWay, HookInv, ReplayInv, Stored,
           Tracked, Queued, InBatch
<1> QED
  BY <1>1, PublishKeeps, ConnectKeeps, FrameKeeps, EndKeeps DEF Next

-----------------------------------------------------------------------------
(* The theorems                                                            *)

\* The invariant the other theorems rest on.
THEOREM SessionInvariant == Spec => []IInv
<1>1. Init => IInv
  BY InitEstablishes
<1>2. IInv /\ [Next]_vars => IInv'
  BY NextKeeps
<1> QED
  BY <1>1, <1>2, PTL DEF Spec

\* Every variable of the publishers, the response and the hook keeps its type;
\* the panel never holds more than its window.
THEOREM TypeCorrect == Spec => []TypeOK
<1>1. IInv => TypeOK
  BY DEF IInv
<1> QED
  BY <1>1, SessionInvariant, PTL

\* Nothing is shown that is not in the table, whatever the page and window
\* sizes.
THEOREM ShownEventsAreStored == Spec => []ShownIsReplayable
<1>1. IInv => ShownIsReplayable
  BY DEF IInv, HookInv, ShownIsReplayable
<1> QED
  BY <1>1, SessionInvariant, PTL

\* The panel's list never has an event twice, for any window, however replays,
\* live deliveries, late fan-outs and trims interleave.
THEOREM PanelHasNoDoubles == Spec => []NoEventListedTwice
<1>1. ASSUME IInv PROVE NoEventListedTwice
  <2>1. DOMAIN events = 1 .. Len(events)
    BY <1>1 DEF IInv, TypeOK
  <2> QED
    BY <1>1, <2>1 DEF IInv, HookInv, NoEventListedTwice
<1> QED
  BY <1>1, SessionInvariant, PTL

\* For any page size: a response that has gone live has shown what its page
\* could hold, and lacks of the later events only those that are on their way,
\* that were lost in their fan-out, or that fell between query and subscription.
THEOREM MissesAreExplained == Spec => []MissesHaveCauses
<1>1. IInv => MissesHaveCauses
  BY DEF IInv, ReplayInv, Tracked, MissesHaveCauses
<1> QED
  BY <1>1, SessionInvariant, PTL
=============================================================================
