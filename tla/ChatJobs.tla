------------------------------ MODULE ChatJobs ------------------------------
(***************************************************************************)
(* The server half of the asynchronous chat turn: the rows of chat_jobs    *)
(* and chat_job_events, the POST /messages/start handler that creates a    *)
(* job, the daemon thread that runs it, and the cancel endpoint that races *)
(* it.  One action is one committed transaction (every helper of           *)
(* services/chat_jobs.py ends with db.commit()) or one read.               *)
(*                                                                         *)
(* append_event is atomic here; EventLog shows that the advisory lock and  *)
(* MAX(seq)+1 make it so, and that seq is the index in log[j].             *)
(***************************************************************************)
EXTENDS Naturals, Sequences

CONSTANT Jobs

VARIABLES
  status,           \* chat_jobs.status, or "absent" when there is no row
  cancelRequested,  \* chat_jobs.cancel_requested
  log,              \* the lifecycle and chunk rows of chat_job_events, by seq
  messages,         \* the turn's chat_messages: none, the user's, or both
  pc,               \* where the job's worker thread is
  broken            \* the thread's SQLAlchemy session needs a rollback

vars == <<status, cancelRequested, log, messages, pc, broken>>

JobStatuses == {"queued", "running", "done", "failed", "cancelled"}
TerminalStatuses == {"done", "failed", "cancelled"}
LiveStatuses == JobStatuses \ TerminalStatuses

Events == {"started", "chunk", "done", "cancelled", "error"}

\* _bail_if_cancelled() is called at four places; a check that finds no
\* cancel request goes on here.
AfterCheck == [check1 |-> "logStarted", check2 |-> "post",
               check3 |-> "logChunk",   check4 |-> "finish"]
Checks == DOMAIN AfterCheck

\* The statements inside the thread's try block.
Body == Checks \cup {"start", "logStarted", "session", "logVanished",
                     "failVanished", "post", "generate", "logChunk", "logDone",
                     "finish", "logCancelled", "observe"}
Handler == {"handleEvent", "handleFail"}
\* "dispatch": the request handler has inserted the row, no thread yet.
Active == Body \cup Handler \cup {"dispatch"}
PCs == Active \cup {"none", "exit", "dead"}

Present(j) == status[j] # "absent"
Live(j) == status[j] \in LiveStatuses
Terminal(j) == status[j] \in TerminalStatuses

TypeOK ==
  /\ status \in [Jobs -> JobStatuses \cup {"absent"}]
  /\ cancelRequested \in [Jobs -> BOOLEAN]
  /\ log \in [Jobs -> Seq(Events)]
  /\ messages \in [Jobs -> {"none", "user", "both"}]
  /\ pc \in [Jobs -> PCs]
  /\ broken \in [Jobs -> BOOLEAN]

Init ==
  /\ status = [j \in Jobs |-> "absent"]
  /\ cancelRequested = [j \in Jobs |-> FALSE]
  /\ log = [j \in Jobs |-> <<>>]
  /\ messages = [j \in Jobs |-> "none"]
  /\ pc = [j \in Jobs |-> "none"]
  /\ broken = [j \in Jobs |-> FALSE]

Goto(j, l) == pc' = [pc EXCEPT ![j] = l]

-----------------------------------------------------------------------------
(* The transactions of services/chat_jobs.py.  An UPDATE whose WHERE clause
   matches no row changes nothing and does not raise.                      *)

\* UPDATE ... SET status = s WHERE status IN from.
SetStatus(j, from, s) ==
  status' = [status EXCEPT ![j] = IF @ \in from THEN s ELSE @]

create_job(j) ==
  /\ status' = [status EXCEPT ![j] = "queued"]
  /\ UNCHANGED <<cancelRequested, log>>

\* Mutant of start_job: the WHERE clause forgets the status.
start_job_AnyStatus(j) == SetStatus(j, JobStatuses, "running")

start_job(j)  == SetStatus(j, {"queued"}, "running")
finish_job(j) == SetStatus(j, LiveStatuses, "done")

fail_job(j)   == SetStatus(j, LiveStatuses, "failed")

observe_cancel(j) == SetStatus(j, LiveStatuses, "cancelled")

\* Mutant of cancel_job: a queued row is flipped without raising the flag.
cancel_job_QueuedKeepsFlag(j) ==
  /\ cancelRequested' = [cancelRequested EXCEPT ![j] = @ \/ status[j] = "running"]
  /\ SetStatus(j, {"queued"}, "cancelled")

cancel_job(j) ==
  /\ cancelRequested' = [cancelRequested EXCEPT ![j] = @ \/ Live(j)]
  /\ SetStatus(j, {"queued"}, "cancelled")

\* The flag of a row that is gone reads as FALSE.
is_cancel_requested(j) == Present(j) /\ cancelRequested[j]

append_event(j, e) == log' = [log EXCEPT ![j] = Append(@, e)]

-----------------------------------------------------------------------------
(* POST /sessions/{id}/messages/start                                      *)

CreateJob(j) ==
  /\ pc[j] = "none"
  /\ create_job(j)
  /\ Goto(j, "dispatch")
  /\ UNCHANGED <<messages, broken>>

\* threading.Thread(...).start(); the response now carries the job id.
Dispatch(j) ==
  /\ pc[j] = "dispatch"
  /\ Goto(j, "start")
  /\ UNCHANGED <<status, cancelRequested, log, messages, broken>>

-----------------------------------------------------------------------------
(* The worker thread, _run_job                                             *)

\* The result of start_job (was the row still queued?) is ignored.
StartJob(j) ==
  /\ pc[j] = "start"
  /\ start_job(j)
  /\ Goto(j, "check1")
  /\ UNCHANGED <<cancelRequested, log, messages, broken>>

\* Mutant of CheckCancel: acknowledges without logging the event.
CheckCancel_Silent(j) ==
  /\ pc[j] \in Checks
  /\ Goto(j, IF is_cancel_requested(j) THEN "observe" ELSE AfterCheck[pc[j]])
  /\ UNCHANGED <<status, cancelRequested, log, messages, broken>>

CheckCancel(j) ==
  /\ pc[j] \in Checks
  /\ Goto(j, IF is_cancel_requested(j) THEN "logCancelled" ELSE AfterCheck[pc[j]])
  /\ UNCHANGED <<status, cancelRequested, log, messages, broken>>

\* An append from the try block.  Without its chat_jobs row the INSERT
\* violates the foreign key: the thread's transaction is aborted and the
\* exception reaches the handler.
LogFromBody(j, here, e, next) ==
  /\ pc[j] = here
  /\ IF Present(j)
       THEN append_event(j, e) /\ Goto(j, next) /\ UNCHANGED broken
       ELSE /\ Goto(j, "handleEvent")
            /\ broken' = [broken EXCEPT ![j] = TRUE]
            /\ UNCHANGED log
  /\ UNCHANGED <<status, cancelRequested, messages>>

\* Mutant of LogCancelled: returns without observe_cancel.
LogCancelled_NoObserve(j) == LogFromBody(j, "logCancelled", "cancelled", "exit")

LogCancelled(j) == LogFromBody(j, "logCancelled", "cancelled", "observe")

ObserveCancel(j) ==
  /\ pc[j] = "observe"
  /\ observe_cancel(j)
  /\ Goto(j, "exit")
  /\ UNCHANGED <<cancelRequested, log, messages, broken>>

LogStarted(j) == LogFromBody(j, "logStarted", "started", "session")

\* chat_service.get_session may no longer find the session for the tenant.
GetSession(j) ==
  /\ pc[j] = "session"
  /\ \E found \in BOOLEAN : Goto(j, IF found THEN "check2" ELSE "logVanished")
  /\ UNCHANGED <<status, cancelRequested, log, messages, broken>>

LogVanished(j) == LogFromBody(j, "logVanished", "error", "failVanished")

\* Mutant of FailVanished: returns after logging, without fail_job.
FailVanished_JustReturns(j) ==
  /\ pc[j] = "failVanished"
  /\ Goto(j, "exit")
  /\ UNCHANGED <<status, cancelRequested, log, messages, broken>>

FailVanished(j) ==
  /\ pc[j] = "failVanished"
  /\ fail_job(j)
  /\ Goto(j, "exit")
  /\ UNCHANGED <<cancelRequested, log, messages, broken>>

\* post_user_message commits the user's message, runs the CLI for minutes,
\* then commits the assistant's; it cannot be interrupted in between.
PostUserMessage(j) ==
  /\ pc[j] = "post"
  /\ messages' = [messages EXCEPT ![j] = "user"]
  /\ Goto(j, "generate")
  /\ UNCHANGED <<status, cancelRequested, log, broken>>

Generate(j) ==
  /\ pc[j] = "generate"
  /\ messages' = [messages EXCEPT ![j] = "both"]
  /\ Goto(j, "check3")
  /\ UNCHANGED <<status, cancelRequested, log, broken>>

LogChunk(j) == LogFromBody(j, "logChunk", "chunk", "logDone")
LogDone(j)  == LogFromBody(j, "logDone", "done", "check4")

FinishJob(j) ==
  /\ pc[j] = "finish"
  /\ finish_job(j)
  /\ Goto(j, "exit")
  /\ UNCHANGED <<cancelRequested, log, messages, broken>>

\* Any statement of the try block may raise: the CLI turn itself, or the
\* database, which leaves the thread's session unusable (nothing in
\* _run_job rolls it back) unless no transaction had begun.
Raise(j) ==
  /\ pc[j] \in Body
  /\ Goto(j, "handleEvent")
  /\ \E dirty \in BOOLEAN : broken' = [broken EXCEPT ![j] = dirty]
  /\ UNCHANGED <<status, cancelRequested, log, messages>>

\* The except block: two calls, each with its own try/except/pass.
HandleEvent(j) ==
  /\ pc[j] = "handleEvent"
  /\ Goto(j, "handleFail")
  /\ \/ /\ ~broken[j] /\ Present(j)
        /\ append_event(j, "error")
        /\ UNCHANGED broken
     \/ /\ broken' = [broken EXCEPT ![j] = TRUE]
        /\ UNCHANGED log
  /\ UNCHANGED <<status, cancelRequested, messages>>

HandleFail(j) ==
  /\ pc[j] = "handleFail"
  /\ Goto(j, "exit")
  /\ \/ /\ ~broken[j]
        /\ fail_job(j)
        /\ UNCHANGED broken
     \/ /\ broken' = [broken EXCEPT ![j] = TRUE]
        /\ UNCHANGED status
  /\ UNCHANGED <<cancelRequested, log, messages>>

WorkerStep(j) ==
  \/ StartJob(j)   \/ CheckCancel(j)     \/ LogCancelled(j) \/ ObserveCancel(j)
  \/ LogStarted(j) \/ GetSession(j)      \/ LogVanished(j)  \/ FailVanished(j)
  \/ PostUserMessage(j) \/ Generate(j)   \/ LogChunk(j)     \/ LogDone(j)
  \/ FinishJob(j)  \/ HandleEvent(j)     \/ HandleFail(j)

-----------------------------------------------------------------------------
(* The rest of the system                                                  *)

\* POST /jobs/{job_id}/cancel, by a client that was given the id.
Cancel(j) ==
  /\ pc[j] \notin {"none", "dispatch"}
  /\ Present(j)
  /\ cancel_job(j)
  /\ UNCHANGED <<log, messages, pc, broken>>

\* The API process stops: daemon threads die with it, and nothing picks a
\* queued or running row up again.
ProcessDies ==
  /\ \E j \in Jobs : pc[j] \in Active
  /\ pc' = [j \in Jobs |-> IF pc[j] \in Active THEN "dead" ELSE pc[j]]
  /\ UNCHANGED <<status, cancelRequested, log, messages, broken>>

RemoveRow(j) ==
  /\ status' = [status EXCEPT ![j] = "absent"]
  /\ log' = [log EXCEPT ![j] = <<>>]
  /\ UNCHANGED <<cancelRequested, messages, pc, broken>>

\* The janitor deletes a job finished 24 hours ago, its events by cascade;
\* no worker lives that long.
purge_finished_jobs(j) ==
  /\ Terminal(j)
  /\ pc[j] \notin Active
  /\ RemoveRow(j)

\* Deleting the chat session, the user or the tenant cascades to the row.
DeleteSession(j) ==
  /\ Present(j)
  /\ RemoveRow(j)

Next ==
  \/ \E j \in Jobs :
       \/ CreateJob(j) \/ Dispatch(j) \/ WorkerStep(j) \/ Raise(j)
       \/ Cancel(j) \/ purge_finished_jobs(j) \/ DeleteSession(j)
  \/ ProcessDies

Spec == Init /\ [][Next]_vars

\* The operating system runs a started thread; nothing makes a client
\* cancel, a statement raise, the process die or a row disappear.
Fairness == \A j \in Jobs : WF_vars(Dispatch(j)) /\ WF_vars(WorkerStep(j))

FairSpec == Spec /\ Fairness

-----------------------------------------------------------------------------
(* What must hold                                                          *)

\* Once GET /jobs/{id} reports done, failed or cancelled it never reports
\* anything else while the row exists, however cancel_job, finish_job,
\* fail_job and observe_cancel interleave ("idempotent on terminal states").
TerminalIsFinal ==
  [][\A j \in Jobs : Terminal(j) => status'[j] \in {status[j], "absent"}]_vars

\* The CLI is run, and the transcript extended, for a running job only: a
\* job cancelled while queued costs nothing although its thread still
\* starts and start_job's result is ignored.
OnlyRunningJobsGenerate ==
  [][\A j \in Jobs : messages'[j] # messages[j] => status[j] \in {"running", "absent"}]_vars

\* What the event log ends with, and what the row says, tell one story, with
\* one exception.  A done job has logged done, a failed one ends in error,
\* and a job whose cancel the thread observed while it ran ends in
\* cancelled.  The exception is a job cancelled while queued: its row is
\* final before its thread logs anything, and when that thread then raises
\* (in start_job, in a check, after logging cancelled) its log ends in error
\* although the row says cancelled, and fail_job changes nothing.
LogMatchesStatus ==
  \A j \in Jobs :
    /\ status[j] = "done" =>
         log[j] = <<"started", "chunk", "done">> /\ messages[j] = "both"
    /\ status[j] = "failed" =>
         Len(log[j]) > 0 /\ log[j][Len(log[j])] = "error"
    /\ status[j] = "cancelled" =>
         \/ log[j] \in {<<>>, <<"cancelled">>, <<"error">>, <<"cancelled", "error">>}
         \/ log[j][1] = "started" /\ log[j][Len(log[j])] = "cancelled"
    /\ status[j] = "queued" => log[j] \in {<<>>, <<"error">>}

\* However the thread leaves _run_job, the row is terminal, unless the
\* database session it would have used to say so was unusable.
ThreadExitSettlesRow ==
  \A j \in Jobs : pc[j] = "exit" /\ ~broken[j] => ~Live(j)

\* The rows refine the state machine of the module docstring extended by
\* queued -> failed: in any interleaving of the thread and the endpoint no
\* terminal status changes and only a running job becomes done.
Lifecycle == INSTANCE JobLifecycle WITH phase <- status
LifecycleSpec == Lifecycle!Spec

\* chat_jobs.py:202 "running -> failed. Idempotent on terminal states.", and
\* the drawing at chat_jobs.py:26-34: only a running job fails.
DocumentedLifecycle == Lifecycle!DrawnSpec

\* Every job settles, unless the process died under it or its thread's
\* database session broke.
JobsSettle ==
  \A j \in Jobs : Live(j) ~> (~Live(j) \/ pc[j] = "dead" \/ broken[j])

\* chat.py:650 "even if the cancel beat us here, observe_cancel(running ->
\* cancelled) makes this UPDATE a no-op. Race-free by SQL constraint.":
\* a cancel the endpoint accepted before finish_job is not answered by done.
CancelBeatsFinish ==
  \A j \in Jobs : ~(status[j] = "done" /\ cancelRequested[j])
=============================================================================
