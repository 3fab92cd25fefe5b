--------------------------- MODULE ChatJobStream ---------------------------
(***************************************************************************)
(* GET /chat/jobs/{job_id}/events composed with the job it follows: the    *)
(* server-side generator that polls the event log and the job row, and the *)
(* web client (subscribeJob) that reconnects from the highest seq it has   *)
(* rendered.  Generator and worker share only the two tables; every read   *)
(* is a transaction of its own, so the worker moves between any two.       *)
(*                                                                         *)
(* Each job has one follower.  Frames of one HTTP response arrive in order *)
(* and a cut connection loses a suffix of them, so a frame is delivered    *)
(* when it is yielded or never.                                            *)
(***************************************************************************)
EXTENDS ChatJobs

CONSTANT MaxIters   \* iterations of one response's poll loop; 600 in the code

ASSUME MaxItersAssumption == MaxIters \in Nat \ {0}

VARIABLES
  client,    \* "idle", "opening", "open", or how the subscription ended
  got,       \* the events handed to onEvent, in order
  lastSeq,   \* the highest seq rendered; from_seq of the next connection
  frame,     \* the status in the terminal frame, once there is one
  gen,       \* where the response's generator is; "none" without a response
  batch,     \* the rows it has read and not yet yielded
  iters      \* loop iterations it has left

readerVars == <<client, got, lastSeq, frame, gen, batch, iters>>
streamVars == <<vars, readerVars>>

Ended == {"terminal", "notFound", "stopped"}

StreamTypeOK ==
  /\ client \in [Jobs -> {"idle", "opening", "open"} \cup Ended]
  /\ got \in [Jobs -> Seq(Events)]
  /\ lastSeq \in [Jobs -> Nat]
  /\ frame \in [Jobs -> TerminalStatuses \cup {"none"}]
  /\ gen \in [Jobs -> {"none", "initial", "read", "emit"}]
  /\ batch \in [Jobs -> Seq([seq : Nat \ {0}, event : Events])]
  /\ iters \in [Jobs -> 0 .. MaxIters]

StreamInit ==
  /\ Init
  /\ client = [j \in Jobs |-> "idle"]
  /\ got = [j \in Jobs |-> <<>>]
  /\ lastSeq = [j \in Jobs |-> 0]
  /\ frame = [j \in Jobs |-> "none"]
  /\ gen = [j \in Jobs |-> "none"]
  /\ batch = [j \in Jobs |-> <<>>]
  /\ iters = [j \in Jobs |-> 0]

\* Mutant of read_events: seq >= from, so the last rendered row comes again.
read_events_Inclusive(j, from) ==
  LET lo == IF from = 0 THEN 1 ELSE from
  IN  [k \in 1 .. Len(log[j]) + 1 - lo |->
         [seq |-> lo + k - 1, event |-> log[j][lo + k - 1]]]

\* The rows with seq > from, ascending.  A job logs at most five events, so
\* the page limit of 2000 never cuts the result.
read_events(j, from) ==
  [k \in 1 .. Len(log[j]) - from |-> [seq |-> from + k, event |-> log[j][from + k]]]

\* The response ends without a terminal frame: the client reconnects.
EndResponse(j) ==
  /\ gen' = [gen EXCEPT ![j] = "none"]
  /\ batch' = [batch EXCEPT ![j] = <<>>]
  /\ client' = [client EXCEPT ![j] = "opening"]

-----------------------------------------------------------------------------

\* postMessageStart has returned the job id; subscribeJob is called with it.
Subscribe(j) ==
  /\ client[j] = "idle" /\ pc[j] \notin {"none", "dispatch"}
  /\ client' = [client EXCEPT ![j] = "opening"]
  /\ UNCHANGED <<vars, got, lastSeq, frame, gen, batch, iters>>

\* The pre-flight get_job answers 404 for a row that is gone.
Connect(j) ==
  /\ client[j] = "opening"
  /\ IF Present(j)
       THEN /\ client' = [client EXCEPT ![j] = "open"]
            /\ gen' = [gen EXCEPT ![j] = "initial"]
            /\ iters' = [iters EXCEPT ![j] = MaxIters]
       ELSE /\ client' = [client EXCEPT ![j] = "notFound"]
            /\ UNCHANGED <<gen, iters>>
  /\ UNCHANGED <<vars, got, lastSeq, frame, batch>>

\* The read before the loop; its rows, if any, are the first iteration's.
ReadInitial(j) ==
  /\ gen[j] = "initial"
  /\ batch' = [batch EXCEPT ![j] = read_events(j, lastSeq[j])]
  /\ gen' = [gen EXCEPT ![j] = IF batch'[j] # <<>> THEN "emit" ELSE "read"]
  /\ UNCHANGED <<vars, client, got, lastSeq, frame, iters>>

ReadEvents(j) ==
  /\ gen[j] = "read" /\ iters[j] > 0
  /\ batch' = [batch EXCEPT ![j] = read_events(j, lastSeq[j])]
  /\ gen' = [gen EXCEPT ![j] = "emit"]
  /\ UNCHANGED <<vars, client, got, lastSeq, frame, iters>>

\* One data: line; the client keeps the maximum seq.
Emit(j) ==
  /\ gen[j] = "emit" /\ batch[j] # <<>>
  /\ LET ev == Head(batch[j]) IN
       /\ got' = [got EXCEPT ![j] = Append(@, ev.event)]
       /\ lastSeq' = [lastSeq EXCEPT ![j] = IF ev.seq > @ THEN ev.seq ELSE @]
  /\ batch' = [batch EXCEPT ![j] = Tail(@)]
  /\ UNCHANGED <<vars, client, frame, gen, iters>>

\* A poll that ends the response when the condition over holds, with frame f.
PollEnding(j, over, f) ==
  /\ gen[j] = "emit" /\ batch[j] = <<>>
  /\ IF over
       THEN /\ frame' = [frame EXCEPT ![j] = f]
            /\ client' = [client EXCEPT ![j] = "terminal"]
            /\ gen' = [gen EXCEPT ![j] = "none"]
            /\ UNCHANGED iters
       ELSE /\ gen' = [gen EXCEPT ![j] = "read"]
            /\ iters' = [iters EXCEPT ![j] = @ - 1]
            /\ UNCHANGED <<client, frame>>
  /\ UNCHANGED <<vars, got, lastSeq, batch>>

\* Mutant of CheckStatus: a requested cancel is taken for a cancelled job.
CheckStatus_TrustsFlag(j) ==
  PollEnding(j, Terminal(j) \/ is_cancel_requested(j),
             IF Terminal(j) THEN status[j] ELSE "cancelled")

\* Mutant of CheckStatus: failed is missing from the terminal statuses.
CheckStatus_IgnoresFailed(j) ==
  PollEnding(j, status[j] \in {"done", "cancelled"}, status[j])

\* "After draining new events, check terminal status": get_job is a read of
\* its own, made after every row of the batch has been yielded.
CheckStatus(j) == PollEnding(j, Terminal(j), status[j])

\* max_iters exhausted: the client ignores the timeout frame, sees the body
\* end, and reconnects.
TimeoutFrame(j) ==
  /\ gen[j] = "read" /\ iters[j] = 0
  /\ EndResponse(j)
  /\ UNCHANGED <<vars, got, lastSeq, frame, iters>>

GeneratorStep(j) ==
  \/ ReadInitial(j) \/ ReadEvents(j) \/ Emit(j) \/ CheckStatus(j) \/ TimeoutFrame(j)

\* The network, a proxy or the API process ends the response.
Drop(j) ==
  /\ gen[j] # "none"
  /\ EndResponse(j)
  /\ UNCHANGED <<vars, got, lastSeq, frame, iters>>

\* The controller's stop(): the tab is closed or the user leaves.
Stop(j) ==
  /\ client[j] \in {"opening", "open"}
  /\ client' = [client EXCEPT ![j] = "stopped"]
  /\ gen' = [gen EXCEPT ![j] = "none"]
  /\ batch' = [batch EXCEPT ![j] = <<>>]
  /\ UNCHANGED <<vars, got, lastSeq, frame, iters>>

StreamNext ==
  \/ Next /\ UNCHANGED readerVars
  \/ \E j \in Jobs :
       \/ Subscribe(j) \/ Connect(j) \/ GeneratorStep(j) \/ Drop(j) \/ Stop(j)

StreamSpec == StreamInit /\ [][StreamNext]_streamVars

\* The worker's fairness, the client's reconnect timer, and a server that
\* runs its generators.  The strong conditions say that the network does not
\* cut every single response at the same point.
StreamFairness ==
  /\ \A j \in Jobs : /\ WF_streamVars(Dispatch(j) /\ UNCHANGED readerVars)
                     /\ WF_streamVars(WorkerStep(j) /\ UNCHANGED readerVars)
  /\ \A j \in Jobs : /\ WF_streamVars(Connect(j))
                     /\ WF_streamVars(GeneratorStep(j))
                     /\ SF_streamVars(ReadInitial(j)) /\ SF_streamVars(ReadEvents(j))
                     /\ SF_streamVars(Emit(j))        /\ SF_streamVars(CheckStatus(j))

FairStreamSpec == StreamSpec /\ StreamFairness

-----------------------------------------------------------------------------
(* What must hold                                                          *)

\* Over any number of dropped responses and reconnects the client renders
\* the log from its first event on, each event once, in order, no gap.
StreamIsPrefix ==
  \A j \in Jobs :
    /\ lastSeq[j] = Len(got[j])
    /\ Present(j) => /\ Len(got[j]) <= Len(log[j])
                     /\ got[j] = SubSeq(log[j], 1, Len(got[j]))

\* The outcome a follower was told, after which it listens no more, is the
\* outcome the row keeps: no write of the worker or the canceller follows.
TerminalFrameStays ==
  \A j \in Jobs : client[j] = "terminal" => (Present(j) => status[j] = frame[j])

\* A follower of a settled job gets its terminal frame (or a 404, or stops).
FollowerLearnsOutcome ==
  \A j \in Jobs : (Terminal(j) /\ client[j] = "opening") ~> client[j] \in Ended
=============================================================================
