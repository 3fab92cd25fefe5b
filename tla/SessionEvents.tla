--------------------------- MODULE SessionEvents ---------------------------
(***************************************************************************)
(* The v2 session event protocol end to end, for one chat session and one  *)
(* open panel: publish_session_event persists an event and then fans it    *)
(* out over Redis; GET /api/v2/sessions/{id}/events replays the table and  *)
(* then tails Redis; the useV2SessionEvents hook dedupes, trims its window *)
(* and reconnects with since = the highest seq_no it has seen.             *)
(*                                                                         *)
(* The table is the interval 1 .. last, as EventLog shows; event_id and    *)
(* seq_no identify the same event, so an event is its seq_no.              *)
(***************************************************************************)
EXTENDS Naturals, Sequences

CONSTANTS
  Publishers,   \* concurrent callers of publish_session_event
  MaxEvents,    \* bound on the events of the session, for model checking
  ReplayLimit,  \* _MAX_REPLAY_LIMIT, 500 in the code
  Window        \* MAX_EVENTS of the hook, 200 in the code

ASSUME SessionAssumption ==
  /\ MaxEvents \in Nat
  /\ ReplayLimit \in Nat \ {0}
  /\ Window \in Nat \ {0}

VARIABLES
  last,      \* MAX(seq_no) of session_events
  lost,      \* the events whose fan-out failed (history)
  unsent,    \* unsent[p]: the event p has committed and not fanned out, or 0
  conn,      \* the SSE generator: "none", "replay" or "tail"
  batch,     \* replayed rows not yet yielded
  channel,   \* Redis messages queued for this subscriber
  gap,       \* events fanned out between the replay query and the subscription (history)
  since,     \* the since= of the current connection
  base,      \* last, when its replay query ran
  seen,      \* seenIds of the hook
  lastSeqNo, \* lastSeqNo of the hook; 0 for null
  events,    \* the panel's list
  shown      \* shown[n]: how often event n was added to the list (history)

hookVars == <<seen, lastSeqNo, events, shown>>
connVars == <<conn, batch, channel, gap, since, base>>
vars == <<last, lost, unsent, connVars, hookVars>>

EventNos == 1 .. MaxEvents

TypeOK ==
  /\ last \in 0 .. MaxEvents /\ lost \subseteq EventNos
  /\ unsent \in [Publishers -> 0 .. MaxEvents]
  /\ conn \in {"none", "replay", "tail"}
  /\ batch \in Seq(EventNos) /\ channel \in Seq(EventNos)
  /\ since \in 0 .. MaxEvents /\ base \in 0 .. MaxEvents /\ gap \subseteq EventNos
  /\ seen \subseteq EventNos
  /\ lastSeqNo \in 0 .. MaxEvents
  /\ events \in Seq(EventNos) /\ Len(events) <= Window
  /\ shown \in [EventNos -> Nat]

FreshHook ==
  /\ seen = {} /\ lastSeqNo = 0 /\ events = <<>>
  /\ shown = [n \in EventNos |-> 0]

Init ==
  /\ last = 0 /\ lost = {}
  /\ unsent = [p \in Publishers |-> 0]
  /\ conn = "none" /\ batch = <<>> /\ channel = <<>> /\ gap = {}
  /\ since = 0 /\ base = 0
  /\ FreshHook

-----------------------------------------------------------------------------
(* publish_session_event: commit first, fan out after, outside the lock     *)

\* Mutant of Persist: the fan-out is queued before the row is committed.
Persist_NotCommitted(p) ==
  /\ unsent[p] = 0 /\ last < MaxEvents
  /\ unsent' = [unsent EXCEPT ![p] = last + 1]
  /\ UNCHANGED <<last, lost, connVars, hookVars>>

Persist(p) ==
  /\ unsent[p] = 0 /\ last < MaxEvents
  /\ last' = last + 1
  /\ unsent' = [unsent EXCEPT ![p] = last + 1]
  /\ UNCHANGED <<lost, connVars, hookVars>>

\* Redis hands the message to whoever is subscribed now; nobody else.
FanOut(p) ==
  /\ unsent[p] # 0
  /\ channel' = IF conn = "tail" THEN Append(channel, unsent[p]) ELSE channel
  /\ gap' = IF conn = "replay" THEN gap \cup {unsent[p]} ELSE gap
  /\ unsent' = [unsent EXCEPT ![p] = 0]
  /\ UNCHANGED <<last, lost, conn, batch, since, base, hookVars>>

\* Redis refuses (logged, not raised) or the process dies after the commit.
FanOutLost(p) ==
  /\ unsent[p] # 0
  /\ unsent' = [unsent EXCEPT ![p] = 0]
  /\ lost' = lost \cup {unsent[p]}
  /\ UNCHANGED <<last, connVars, hookVars>>

-----------------------------------------------------------------------------
(* The SSE response, _sse_stream                                           *)

\* Mutant of ReplayRows: a resumed client is sent the newest row only.
ReplayRows_NewestOnly(from) == IF last > from THEN <<last>> ELSE <<>>

ReplayRows(from) ==
  LET missed == last - from
      count == IF missed < ReplayLimit THEN missed ELSE ReplayLimit
  IN  [k \in 1 .. count |-> from + k]

\* The hook connects (first time, or after its backoff); the handler's
\* replay SELECT runs.
Connect ==
  /\ conn = "none"
  /\ conn' = "replay"
  /\ since' = lastSeqNo
  /\ base' = last
  /\ batch' = ReplayRows(lastSeqNo)
  /\ gap' = {}
  /\ UNCHANGED <<last, lost, unsent, channel, hookVars>>

\* The generator subscribes only once the client has consumed the replay.
SubscribeRedis ==
  /\ conn = "replay" /\ batch = <<>>
  /\ conn' = "tail"
  /\ UNCHANGED <<last, lost, unsent, batch, channel, gap, since, base, hookVars>>

\* Mutant of Receive: a trim forgets what the window still shows.
Receive_ClearsSeen(n) ==
  IF n \in seen
    THEN UNCHANGED hookVars
    ELSE LET list == Append(events, n)
         IN /\ events' = IF Len(list) > Window THEN Tail(list) ELSE list
            /\ seen' = IF Len(list) > Window THEN {n} ELSE seen \cup {n}
            /\ lastSeqNo' = IF n > lastSeqNo THEN n ELSE lastSeqNo
            /\ shown' = [shown EXCEPT ![n] = @ + 1]

\* One data: frame reaches the hook.  A trimmed event leaves the dedupe set.
Receive(n) ==
  IF n \in seen
    THEN UNCHANGED hookVars
    ELSE LET list == Append(events, n)
             kept == IF Len(list) > Window THEN Tail(list) ELSE list
         IN /\ events' = kept
            /\ seen' = IF Len(list) > Window
                         THEN {kept[k] : k \in DOMAIN kept}
                         ELSE seen \cup {n}
            /\ lastSeqNo' = IF n > lastSeqNo THEN n ELSE lastSeqNo
            /\ shown' = [shown EXCEPT ![n] = @ + 1]

ReplayFrame ==
  /\ conn = "replay" /\ batch # <<>>
  /\ Receive(Head(batch))
  /\ batch' = Tail(batch)
  /\ UNCHANGED <<last, lost, unsent, conn, channel, gap, since, base>>

LiveFrame ==
  /\ conn = "tail" /\ channel # <<>>
  /\ Receive(Head(channel))
  /\ channel' = Tail(channel)
  /\ UNCHANGED <<last, lost, unsent, conn, batch, gap, since, base>>

\* A proxy, the network or Redis ends the response; frames in flight and
\* queued messages are lost, the hook keeps its state.
Hangup ==
  /\ conn' = "none" /\ batch' = <<>> /\ channel' = <<>>
  /\ UNCHANGED <<gap, since, base>>

Drop ==
  /\ conn # "none"
  /\ Hangup
  /\ UNCHANGED <<last, lost, unsent, hookVars>>

\* The panel is bound to the session anew: the effect resets its refs.
Rebind ==
  /\ lastSeqNo # 0
  /\ Hangup
  /\ seen' = {} /\ lastSeqNo' = 0 /\ events' = <<>>
  /\ shown' = [n \in EventNos |-> 0]
  /\ UNCHANGED <<last, lost, unsent>>

Next ==
  \/ \E p \in Publishers : Persist(p) \/ FanOut(p) \/ FanOutLost(p)
  \/ Connect \/ SubscribeRedis \/ ReplayFrame \/ LiveFrame \/ Drop \/ Rebind

Spec == Init /\ [][Next]_vars

-----------------------------------------------------------------------------
(* What must hold                                                          *)

\* An event is never shown before it is in the table: persistence comes
\* first, so whatever the user saw can be asked for again.  (A reload asks
\* from 0 and gets one page, so it shows it again only in that page.)
ShownIsReplayable ==
  \A n \in EventNos : shown[n] > 0 => n <= last

\* However replay, live delivery and late fan-outs overlap, and whatever the
\* window has trimmed, the panel never has an event twice in its list: the
\* dedupe set, rebuilt at each trim, is what the list holds.  (An event that
\* was trimmed may come again, and is then added again.)
NoEventListedTwice ==
  \A i, k \in DOMAIN events : i # k => events[i] # events[k]

Queued(n) ==
  \/ \E k \in DOMAIN channel : channel[k] = n
  \/ \E p \in Publishers : unsent[p] = n

\* While a response is live, whatever the client lacks of the events after
\* since has one of three causes.  What the replay query could give has been
\* shown, up to the page limit; of what came after the query, an event is
\* shown, on its way, lost in its fan-out, or it was fanned out before the
\* generator had subscribed.  (session_events.py "first replays any missed
\* events, then continues with the live stream".)
MissesHaveCauses ==
  conn = "tail" =>
    \A n \in EventNos :
      /\ since < n /\ n <= base /\ n <= since + ReplayLimit => shown[n] > 0
      /\ base < n /\ n <= last => shown[n] > 0 \/ Queued(n) \/ n \in lost \cup gap

\* collaboration_events.py:13 "Live SSE listeners miss it but the next
\* reconnect-with-since=seq_no replay recovers it": an event whose Redis
\* publish failed is on the panel once a later response has replayed.
ReconnectRecovers ==
  conn = "tail" => \A n \in lost : n <= base => shown[n] > 0
=============================================================================
