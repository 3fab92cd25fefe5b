--------------------------- MODULE ChatJobsProofs ---------------------------
(***************************************************************************)
(* ChatJobs for any set of jobs, and ChatJobStream over it.                *)
(*                                                                         *)
(* The argument: the row is written by its worker, by one cancel endpoint  *)
(* and by deletion.  A cancel moves a queued row only, and then raises the *)
(* flag that the first check reads; so past that check the row is running  *)
(* or gone, and what the thread has logged is a function of where it is.   *)
(* A follower holds a prefix of the log and, read but not yet yielded, what *)
(* comes next in it; a log only grows until its row is gone for good.      *)
(***************************************************************************)
EXTENDS ChatJobStream, SequenceTheorems, TLAPS

LastEvent(j) == log[j][Len(log[j])]

\* Where the thread is past the first check and on its way to done.
OnTheWay == {"logStarted", "session", "logVanished", "failVanished", "check2",
             "post", "generate", "check3", "logChunk", "logDone", "check4", "finish"}

\* What the row can say, by where its thread is.
StatusAt(j) ==
  /\ pc[j] = "none" => status[j] = "absent"
  /\ pc[j] \in {"dispatch", "start"} => status[j] \in {"queued", "cancelled", "absent"}
  /\ pc[j] \in {"check1", "logCancelled", "observe"} =>
       status[j] \in {"running", "cancelled", "absent"}
  /\ pc[j] \in OnTheWay => status[j] \in {"running", "absent"}
  /\ pc[j] \in Handler => status[j] \in {"queued", "running", "cancelled", "absent"}
  /\ pc[j] = "exit" /\ ~broken[j] => ~Live(j)
  /\ pc[j] \in {"dispatch", "start", "check1"} /\ status[j] = "cancelled" =>
       cancelRequested[j]

\* What the thread has written before it gets where it is.
LogAt(j) ==
  /\ pc[j] \in {"none", "dispatch", "start", "check1", "logStarted"} => log[j] = << >>
  /\ pc[j] \in {"session", "logVanished", "check2", "post", "generate", "check3", "logChunk"} =>
       log[j] = <<"started">>
  /\ pc[j] = "logDone" => log[j] = <<"started", "chunk">>
  /\ pc[j] \in {"check4", "finish"} => log[j] = <<"started", "chunk", "done">>
  /\ pc[j] = "failVanished" => Len(log[j]) > 0 /\ LastEvent(j) = "error"
  /\ pc[j] = "observe" => Len(log[j]) > 0 /\ LastEvent(j) = "cancelled"
  /\ pc[j] = "handleFail" /\ ~broken[j] => Len(log[j]) > 0 /\ LastEvent(j) = "error"
  /\ pc[j] \in {"check3", "logChunk", "logDone", "check4", "finish"} => messages[j] = "both"

\* A row cancelled while it was queued: its thread logs at most a cancel.
CancelledLog(j) ==
  /\ pc[j] = "logCancelled" =>
       log[j] = << >> \/ (log[j][1] = "started" /\ status[j] # "cancelled")
  /\ pc[j] = "observe" => log[j] = <<"cancelled">> \/ log[j][1] = "started"
  /\ pc[j] \in {"observe", "handleEvent"} /\ status[j] = "cancelled" =>
       log[j] \in {<< >>, <<"cancelled">>}
  /\ pc[j] = "handleEvent" /\ status[j] = "queued" => log[j] = << >>

\* LogMatchesStatus for one job.
OutcomeLogged(j) ==
  /\ status[j] = "done" =>
       log[j] = <<"started", "chunk", "done">> /\ messages[j] = "both"
  /\ status[j] = "failed" => Len(log[j]) > 0 /\ LastEvent(j) = "error"
  /\ status[j] = "cancelled" =>
       \/ log[j] \in {<< >>, <<"cancelled">>, <<"error">>, <<"cancelled", "error">>}
       \/ log[j][1] = "started" /\ LastEvent(j) = "cancelled"
  /\ status[j] = "queued" => log[j] \in {<< >>, <<"error">>}

JobInv(j) ==
  /\ StatusAt(j)
  /\ Present(j) => LogAt(j) /\ CancelledLog(j) /\ OutcomeLogged(j)
  /\ ~Present(j) => log[j] = << >>

IInv == TypeOK /\ \A j \in Jobs : JobInv(j)

-----------------------------------------------------------------------------
(* Sequences                                                               *)

\* An appended event is the last one; the first one stays.
LEMMA AppendFacts ==
  ASSUME NEW s \in Seq(Events), NEW e \in Events
  PROVE  /\ Append(s, e) \in Seq(Events)
         /\ Len(Append(s, e)) > 0
         /\ Append(s, e)[Len(Append(s, e))] = e
         /\ s # << >> => Append(s, e)[1] = s[1]
         /\ s = << >> => Append(s, e)[1] = e
  OBVIOUS

\* What the main path logs, literally.
LEMMA HappyLog ==
  /\ Append(<< >>, "started") = <<"started">>
  /\ Append(<<"started">>, "chunk") = <<"started", "chunk">>
  /\ Append(<<"started", "chunk">>, "done") = <<"started", "chunk", "done">>
  /\ Append(<< >>, "error") = <<"error">>
  /\ Append(<< >>, "cancelled") = <<"cancelled">>
  /\ Append(<<"cancelled">>, "error") = <<"cancelled", "error">>
<1>1. Append(<< >>, "started") = <<"started">>
  <2>1. Append(<< >>, "started") \in Seq(Events) /\ <<"started">> \in Seq(Events)
    BY DEF Events
  <2> QED
    BY <2>1, SeqEqual
<1>2. Append(<<"started">>, "chunk") = <<"started", "chunk">>
  <2>1. /\ Append(<<"started">>, "chunk") \in Seq(Events)
        /\ <<"started", "chunk">> \in Seq(Events)
    BY DEF Events
  <2> DEFINE s == Append(<<"started">>, "chunk")
             t == <<"started", "chunk">>
  <2>2. Len(s) = 2 /\ s[1] = "started" /\ s[2] = "chunk"
    OBVIOUS
  <2>3. Len(t) = 2 /\ t[1] = "started" /\ t[2] = "chunk"
    OBVIOUS
  <2>4. s \in Seq(Events) /\ t \in Seq(Events)
    BY <2>1
  <2> HIDE DEF s, t
  <2>5. s = t
    BY <2>2, <2>3, <2>4, SeqEqual
  <2> QED
    BY <2>5 DEF s, t
<1>3. Append(<<"started", "chunk">>, "done") = <<"started", "chunk", "done">>
  <2>1. /\ Append(<<"started", "chunk">>, "done") \in Seq(Events)
        /\ <<"started", "chunk", "done">> \in Seq(Events)
    BY DEF Events
  <2> DEFINE s == Append(<<"started", "chunk">>, "done")
             t == <<"started", "chunk", "done">>
  <2>2. Len(s) = 3 /\ s[1] = "started" /\ s[2] = "chunk" /\ s[3] = "done"
    OBVIOUS
  <2>3. Len(t) = 3 /\ t[1] = "started" /\ t[2] = "chunk" /\ t[3] = "done"
    OBVIOUS
  <2>4. s \in Seq(Events) /\ t \in Seq(Events)
    BY <2>1
  <2> HIDE DEF s, t
  <2>5. s = t
    BY <2>2, <2>3, <2>4, SeqEqual
  <2> QED
    BY <2>5 DEF s, t
<1>4. Append(<< >>, "error") = <<"error">>
  <2>1. Append(<< >>, "error") \in Seq(Events) /\ <<"error">> \in Seq(Events)
    BY DEF Events
  <2> QED
    BY <2>1, SeqEqual
<1>5. Append(<< >>, "cancelled") = <<"cancelled">>
  <2>1. Append(<< >>, "cancelled") \in Seq(Events) /\ <<"cancelled">> \in Seq(Events)
    BY DEF Events
  <2> QED
    BY <2>1, SeqEqual
<1>6. Append(<<"cancelled">>, "error") = <<"cancelled", "error">>
  <2>1. /\ Append(<<"cancelled">>, "error") \in Seq(Events)
        /\ <<"cancelled", "error">> \in Seq(Events)
    BY DEF Events
  <2> DEFINE s == Append(<<"cancelled">>, "error")
             t == <<"cancelled", "error">>
  <2>2. Len(s) = 2 /\ s[1] = "cancelled" /\ s[2] = "error"
    OBVIOUS
  <2>3. Len(t) = 2 /\ t[1] = "cancelled" /\ t[2] = "error"
    OBVIOUS
  <2>4. s \in Seq(Events) /\ t \in Seq(Events)
    BY <2>1
  <2> HIDE DEF s, t
  <2>5. s = t
    BY <2>2, <2>3, <2>4, SeqEqual
  <2> QED
    BY <2>5 DEF s, t
<1> QED
  BY <1>1, <1>2, <1>3, <1>4, <1>5, <1>6

-----------------------------------------------------------------------------
(* One job                                                                 *)

SameJob(j) ==
  /\ status'[j] = status[j]
  /\ cancelRequested'[j] = cancelRequested[j]
  /\ log'[j] = log[j]
  /\ messages'[j] = messages[j]
  /\ pc'[j] = pc[j]
  /\ broken'[j] = broken[j]

\* A job that a step leaves alone keeps its invariant.
LEMMA SameJobKeepsInv ==
  ASSUME NEW j \in Jobs, JobInv(j), SameJob(j)
  PROVE  JobInv(j)'
  BY DEF SameJob, JobInv, StatusAt, LogAt, CancelledLog, OutcomeLogged,
         Present, Live, LastEvent

\* The actions of one job.
JobStep(j) ==
  \/ CreateJob(j) \/ Dispatch(j) \/ WorkerStep(j) \/ Raise(j)
  \/ Cancel(j) \/ purge_finished_jobs(j) \/ DeleteSession(j)

\* Nothing an action of one job does touches another's.
LEMMA OtherJobs ==
  ASSUME TypeOK, NEW j \in Jobs, NEW k \in Jobs, k # j, JobStep(j)
  PROVE  SameJob(k)
<1> USE DEF TypeOK, SameJob, Goto, SetStatus, append_event
<1>1. CASE CreateJob(j)
  BY <1>1 DEF CreateJob, create_job
<1>2. CASE Dispatch(j)
  BY <1>2 DEF Dispatch
<1>3. CASE WorkerStep(j)
  BY <1>3 DEF WorkerStep, StartJob, start_job, CheckCancel, LogCancelled, ObserveCancel,
     observe_cancel, LogStarted, GetSession, LogVanished, FailVanished, fail_job,
     PostUserMessage, Generate, LogChunk, LogDone, FinishJob, finish_job,
     HandleEvent, HandleFail, LogFromBody
<1>4. CASE Raise(j)
  BY <1>4 DEF Raise
<1>5. CASE Cancel(j)
  BY <1>5 DEF Cancel, cancel_job
<1>6. CASE purge_finished_jobs(j)
  BY <1>6 DEF purge_finished_jobs, RemoveRow
<1>7. CASE DeleteSession(j)
  BY <1>7 DEF DeleteSession, RemoveRow
<1> QED
  BY <1>1, <1>2, <1>3, <1>4, <1>5, <1>6, <1>7 DEF JobStep

\* Every step of a job keeps the types.
LEMMA StepTypes ==
  ASSUME TypeOK, NEW j \in Jobs, JobStep(j)
  PROVE  TypeOK'
<1>1. /\ "queued" \in JobStatuses /\ "running" \in JobStatuses /\ "done" \in JobStatuses
      /\ "failed" \in JobStatuses /\ "cancelled" \in JobStatuses
  BY DEF JobStatuses
<1>2. \A e \in Events : Append(log[j], e) \in Seq(Events)
  BY DEF TypeOK
<1>3. /\ "started" \in Events /\ "chunk" \in Events /\ "done" \in Events
      /\ "cancelled" \in Events /\ "error" \in Events
  BY DEF Events
<1>4. Checks = {"check1", "check2", "check3", "check4"}
  BY DEF Checks, AfterCheck
<1>5. PCs = {"check1", "check2", "check3", "check4", "start", "logStarted", "session",
             "logVanished", "failVanished", "post", "generate", "logChunk", "logDone",
             "finish", "logCancelled", "observe", "handleEvent", "handleFail", "dispatch",
             "none", "exit", "dead"}
  BY <1>4 DEF PCs, Active, Body, Handler
<1> USE <1>1, <1>3, <1>5 DEF TypeOK, Goto, SetStatus, append_event
<1>6. CASE CreateJob(j)
  BY <1>6 DEF CreateJob, create_job
<1>7. CASE Dispatch(j)
  BY <1>7 DEF Dispatch
<1>8. CASE WorkerStep(j)
  <2>1. ASSUME NEW here \in PCs, NEW e \in Events, NEW next \in PCs,
               LogFromBody(j, here, e, next)
        PROVE  TypeOK'
    BY <1>2, <2>1 DEF LogFromBody
  <2>2. CASE StartJob(j) \/ ObserveCancel(j) \/ FailVanished(j) \/ FinishJob(j) \/ HandleFail(j)
    <3>1. ASSUME NEW from, NEW st \in JobStatuses, SetStatus(j, from, st)
          PROVE  status' \in [Jobs -> JobStatuses \cup {"absent"}]
      BY <3>1
    <3>2. CASE StartJob(j) \/ ObserveCancel(j)
      BY <3>1, <3>2 DEF StartJob, start_job, ObserveCancel, observe_cancel
    <3>3. CASE FailVanished(j) \/ FinishJob(j)
      BY <3>1, <3>3 DEF FailVanished, fail_job, FinishJob, finish_job
    <3>4. CASE HandleFail(j)
      BY <3>1, <3>4 DEF HandleFail, fail_job
    <3> QED
      BY <2>2, <3>2, <3>3, <3>4
  <2>3. CASE CheckCancel(j)
    <3>1. pc[j] \in Checks => AfterCheck[pc[j]] \in PCs
      BY <1>4 DEF AfterCheck
    <3> QED
      BY <2>3, <3>1 DEF CheckCancel
  <2>4. CASE GetSession(j) \/ PostUserMessage(j) \/ Generate(j)
    BY <2>4 DEF GetSession, PostUserMessage, Generate
  <2>5. CASE LogCancelled(j) \/ LogStarted(j) \/ LogVanished(j) \/ LogChunk(j) \/ LogDone(j)
    BY <2>1, <2>5 DEF LogCancelled, LogStarted, LogVanished, LogChunk, LogDone
  <2>6. CASE HandleEvent(j)
    BY <1>2, <2>6 DEF HandleEvent
  <2> QED
    BY <1>8, <2>2, <2>3, <2>4, <2>5, <2>6 DEF WorkerStep
<1>9. CASE Raise(j)
  BY <1>9 DEF Raise
<1>10. CASE Cancel(j)
  BY <1>10 DEF Cancel, cancel_job
<1>11. CASE purge_finished_jobs(j) \/ DeleteSession(j)
  <2>1. << >> \in Seq(Events)
    OBVIOUS
  <2>2. RemoveRow(j)
    BY <1>11 DEF purge_finished_jobs, DeleteSession
  <2> QED
    BY <2>1, <2>2 DEF RemoveRow
<1> QED
  BY <1>6, <1>7, <1>8, <1>9, <1>10, <1>11 DEF JobStep

-----------------------------------------------------------------------------
(* Each action keeps its job's invariant                                   *)

\* Creating the row and dispatching its thread.
LEMMA RequestKeepsInv ==
  ASSUME IInv, NEW j \in Jobs, CreateJob(j) \/ Dispatch(j)
  PROVE  JobInv(j)'
<1> USE DEF IInv, JobInv, StatusAt, LogAt, CancelledLog, OutcomeLogged,
            Present, Live, LastEvent, TypeOK, Goto, OnTheWay, Handler,
            LiveStatuses, JobStatuses, TerminalStatuses
<1>1. CASE CreateJob(j)
  BY <1>1 DEF CreateJob, create_job
<1>2. CASE Dispatch(j)
  BY <1>2 DEF Dispatch
<1> QED
  BY <1>1, <1>2

\* The guarded updates of the row.
LEMMA RowUpdateKeepsInv ==
  ASSUME IInv, NEW j \in Jobs,
         StartJob(j) \/ ObserveCancel(j) \/ FailVanished(j) \/ FinishJob(j) \/ HandleFail(j)
  PROVE  JobInv(j)'
<1> USE DEF IInv, JobInv, StatusAt, LogAt, CancelledLog, OutcomeLogged,
            Present, Live, LastEvent, TypeOK, Goto, SetStatus, OnTheWay, Handler,
            LiveStatuses, JobStatuses, TerminalStatuses
<1>1. CASE StartJob(j)
  BY <1>1 DEF StartJob, start_job
<1>2. CASE ObserveCancel(j)
  <2>1. /\ pc[j] = "observe" /\ pc'[j] = "exit" /\ log' = log
        /\ status'[j] = IF Live(j) THEN "cancelled" ELSE status[j]
        /\ messages' = messages /\ cancelRequested' = cancelRequested /\ broken' = broken
    BY <1>2 DEF ObserveCancel, observe_cancel
  <2>2. Present(j) => OutcomeLogged(j)'
    BY <2>1
  <2> QED
    BY <2>1, <2>2
<1>3. CASE FailVanished(j)
  BY <1>3 DEF FailVanished, fail_job
<1>4. CASE FinishJob(j)
  BY <1>4 DEF FinishJob, finish_job
<1>5. CASE HandleFail(j)
  BY <1>5 DEF HandleFail, fail_job
<1> QED
  BY <1>1, <1>2, <1>3, <1>4, <1>5

\* Steps of the thread that write neither row nor log.
LEMMA ThreadMoveKeepsInv ==
  ASSUME IInv, NEW j \in Jobs,
         CheckCancel(j) \/ GetSession(j) \/ PostUserMessage(j) \/ Generate(j) \/ Raise(j)
  PROVE  JobInv(j)'
<1> USE DEF IInv, JobInv, StatusAt, LogAt, CancelledLog, OutcomeLogged,
            Present, Live, LastEvent, TypeOK, Goto, OnTheWay, Handler,
            LiveStatuses, JobStatuses, TerminalStatuses, Checks, AfterCheck
<1>1. CASE CheckCancel(j)
  BY <1>1 DEF CheckCancel, is_cancel_requested
<1>2. CASE GetSession(j)
  BY <1>2 DEF GetSession
<1>3. CASE PostUserMessage(j)
  BY <1>3 DEF PostUserMessage
<1>4. CASE Generate(j)
  BY <1>4 DEF Generate
<1>5. CASE Raise(j)
  BY <1>5 DEF Raise, Body
<1> QED
  BY <1>1, <1>2, <1>3, <1>4, <1>5

\* An accepted cancel raises the flag of a live row, and lowers none.
LEMMA CancelRaisesFlag ==
  ASSUME TypeOK, NEW j \in Jobs, Cancel(j)
  PROVE  Live(j) \/ cancelRequested[j] => cancelRequested'[j]
<1>1. cancelRequested' = [cancelRequested EXCEPT ![j] = @ \/ Live(j)]
  BY DEF Cancel, cancel_job
<1>2. cancelRequested \in [Jobs -> BOOLEAN]
  BY DEF TypeOK
<1>3. cancelRequested'[j] = (cancelRequested[j] \/ Live(j))
  BY <1>1, <1>2, Zenon
<1> QED
  BY <1>3

\* What others do to the row: cancel, purge, cascade.
LEMMA OutsideKeepsInv ==
  ASSUME IInv, NEW j \in Jobs,
         Cancel(j) \/ purge_finished_jobs(j) \/ DeleteSession(j)
  PROVE  JobInv(j)'
<1> USE DEF IInv, JobInv, StatusAt, LogAt, CancelledLog, OutcomeLogged,
            Present, Live, LastEvent, TypeOK, OnTheWay, Handler,
            LiveStatuses, JobStatuses, TerminalStatuses
<1>1. CASE Cancel(j)
  <2>1. /\ status'[j] = IF status[j] = "queued" THEN "cancelled" ELSE status[j]
        /\ log' = log /\ messages' = messages /\ pc' = pc /\ broken' = broken
    BY <1>1 DEF Cancel, cancel_job, SetStatus
  <2>2. Live(j) \/ cancelRequested[j] => cancelRequested'[j]
    BY <1>1, CancelRaisesFlag
  <2>3. Present(j) /\ Present(j)'
    BY <1>1, <2>1 DEF Cancel
  <2>4. StatusAt(j)'
    BY <2>1, <2>2, <2>3
  <2>5. LogAt(j)'
    BY <2>1, <2>3
  <2>6. CancelledLog(j)'
    BY <2>1, <2>3
  <2>7. OutcomeLogged(j)'
    <3>1. Len(<<"error">>) = 1 /\ <<"error">>[1] = "error" /\ Len(<< >>) = 0
      OBVIOUS
    <3> QED
      BY <2>1, <2>3, <3>1
  <2> QED
    BY <2>3, <2>4, <2>5, <2>6, <2>7
<1>2. CASE purge_finished_jobs(j) \/ DeleteSession(j)
  BY <1>2 DEF purge_finished_jobs, DeleteSession, RemoveRow
<1> QED
  BY <1>1, <1>2

\* What an append does to the log, in the words of the invariant.
LEMMA AppendEvent ==
  ASSUME TypeOK, NEW j \in Jobs, NEW e \in Events, append_event(j, e)
  PROVE  /\ log'[j] = Append(log[j], e)
         /\ Len(log'[j]) > 0
         /\ log'[j][Len(log'[j])] = e
         /\ log[j] # << >> => log'[j][1] = log[j][1]
         /\ log[j] = << >> => log'[j][1] = e
<1>1. log'[j] = Append(log[j], e) /\ log[j] \in Seq(Events)
  BY DEF append_event, TypeOK
<1> QED
  BY <1>1, AppendFacts

\* An append of the try block: the step that the log advances by, or the
\* exception of an INSERT without its parent row.
LEMMA BodyAppend ==
  ASSUME TypeOK, NEW j \in Jobs, NEW here, NEW e \in Events, NEW next,
         LogFromBody(j, here, e, next)
  PROVE  /\ pc[j] = here
         /\ status'[j] = status[j]
         /\ cancelRequested'[j] = cancelRequested[j]
         /\ messages'[j] = messages[j]
         /\ Present(j) => /\ pc'[j] = next
                          /\ broken'[j] = broken[j]
                          /\ log'[j] = Append(log[j], e)
                          /\ Len(log'[j]) > 0
                          /\ log'[j][Len(log'[j])] = e
                          /\ log[j] # << >> => log'[j][1] = log[j][1]
                          /\ log[j] = << >> => log'[j][1] = e
         /\ ~Present(j) => pc'[j] = "handleEvent" /\ log'[j] = log[j]
<1>1. CASE Present(j)
  <2>1. append_event(j, e) /\ Goto(j, next) /\ UNCHANGED broken
    BY <1>1 DEF LogFromBody
  <2> QED
    BY <1>1, <2>1, AppendEvent DEF LogFromBody, Goto, TypeOK
<1>2. CASE ~Present(j)
  BY <1>2 DEF LogFromBody, Goto, TypeOK
<1> QED
  BY <1>1, <1>2

\* The appends of the main path and of the handlers.
LEMMA AppendKeepsInv ==
  ASSUME IInv, NEW j \in Jobs,
         \/ LogStarted(j) \/ LogChunk(j) \/ LogDone(j)
         \/ LogVanished(j) \/ LogCancelled(j) \/ HandleEvent(j)
  PROVE  JobInv(j)'
<1>1. /\ "started" \in Events /\ "chunk" \in Events /\ "done" \in Events
      /\ "cancelled" \in Events /\ "error" \in Events
  BY DEF Events
<1>2. <<"started">> # << >> /\ <<"started">>[1] = "started"
  OBVIOUS
<1>3. TypeOK /\ JobInv(j)
  BY DEF IInv
<1> USE DEF JobInv, StatusAt, LogAt, CancelledLog, OutcomeLogged,
            Present, Live, LastEvent, OnTheWay, Handler,
            LiveStatuses, JobStatuses, TerminalStatuses
<1>4. CASE LogStarted(j)
  <2>1. LogFromBody(j, "logStarted", "started", "session")
    BY <1>4 DEF LogStarted
  <2> QED
    BY <1>1, <1>3, <2>1, BodyAppend, HappyLog
<1>5. CASE LogChunk(j)
  <2>1. LogFromBody(j, "logChunk", "chunk", "logDone")
    BY <1>5 DEF LogChunk
  <2>2. CASE Present(j)
    <3>1. /\ status'[j] = "running" /\ pc'[j] = "logDone"
          /\ log[j] = <<"started">> /\ log'[j] = Append(log[j], "chunk")
          /\ messages'[j] = "both"
      BY <1>1, <1>3, <2>1, <2>2, BodyAppend
    <3>2. log'[j] = <<"started", "chunk">>
      BY <3>1, HappyLog
    <3> QED
      BY <3>1, <3>2
  <2>3. CASE ~Present(j)
    BY <1>1, <1>3, <2>1, <2>3, BodyAppend
  <2> QED
    BY <2>2, <2>3
<1>6. CASE LogDone(j)
  <2>1. LogFromBody(j, "logDone", "done", "check4")
    BY <1>6 DEF LogDone
  <2>2. CASE Present(j)
    <3>1. /\ status'[j] = "running" /\ pc'[j] = "check4"
          /\ log[j] = <<"started", "chunk">> /\ log'[j] = Append(log[j], "done")
          /\ messages'[j] = "both"
      BY <1>1, <1>3, <2>1, <2>2, BodyAppend
    <3>2. log'[j] = <<"started", "chunk", "done">>
      BY <3>1, HappyLog
    <3> QED
      BY <3>1, <3>2
  <2>3. CASE ~Present(j)
    BY <1>1, <1>3, <2>1, <2>3, BodyAppend
  <2> QED
    BY <2>2, <2>3
<1>7. CASE LogVanished(j)
  <2>1. LogFromBody(j, "logVanished", "error", "failVanished")
    BY <1>7 DEF LogVanished
  <2>2. CASE Present(j)
    <3>1. /\ pc[j] = "logVanished" /\ pc'[j] = "failVanished"
          /\ status'[j] = status[j] /\ status[j] = "running"
          /\ Len(log'[j]) > 0 /\ log'[j][Len(log'[j])] = "error"
      BY <1>1, <1>3, <2>1, <2>2, BodyAppend
    <3> QED
      BY <2>2, <3>1
  <2>3. CASE ~Present(j)
    BY <1>1, <1>3, <2>1, <2>3, BodyAppend
  <2> QED
    BY <2>2, <2>3
<1>8. CASE LogCancelled(j)
  <2>1. LogFromBody(j, "logCancelled", "cancelled", "observe")
    BY <1>8 DEF LogCancelled
  <2>2. CASE Present(j)
    <3>1. /\ pc[j] = "logCancelled" /\ pc'[j] = "observe"
          /\ status'[j] = status[j] /\ status[j] \in {"running", "cancelled"}
          /\ Len(log'[j]) > 0 /\ log'[j][Len(log'[j])] = "cancelled"
          /\ log[j] # << >> => log'[j][1] = log[j][1]
          /\ log'[j] = Append(log[j], "cancelled")
      BY <1>1, <1>3, <2>1, <2>2, BodyAppend
    <3>2. \/ log[j] = << >>
          \/ log[j] # << >> /\ log[j][1] = "started" /\ status[j] # "cancelled"
      BY <1>3, <2>2, <3>1
    <3>3. log'[j] = <<"cancelled">> \/ (log'[j][1] = "started" /\ status[j] # "cancelled")
      BY <3>1, <3>2, HappyLog
    <3> QED
      BY <2>2, <3>1, <3>3
  <2>3. CASE ~Present(j)
    BY <1>1, <1>3, <2>1, <2>3, BodyAppend
  <2> QED
    BY <2>2, <2>3
<1>9. CASE HandleEvent(j)
  <2>1. /\ pc[j] = "handleEvent" /\ pc'[j] = "handleFail"
        /\ status'[j] = status[j] /\ messages'[j] = messages[j]
    BY <1>3, <1>9 DEF HandleEvent, Goto, TypeOK
  <2>2. CASE Present(j) /\ append_event(j, "error")
    <3>1. /\ log'[j] = Append(log[j], "error") /\ Len(log'[j]) > 0
          /\ log'[j][Len(log'[j])] = "error"
      BY <1>1, <1>3, <2>2, AppendEvent
    <3>2. status[j] = "queued" => log'[j] = <<"error">>
      BY <1>3, <2>1, <2>2, <3>1, HappyLog
    <3>3. status[j] = "cancelled" => log'[j] \in {<<"error">>, <<"cancelled", "error">>}
      BY <1>3, <2>1, <2>2, <3>1, HappyLog
    <3>4. status[j] # "done"
      BY <1>3, <2>1, <2>2
    <3> QED
      BY <1>3, <2>1, <2>2, <3>1, <3>2, <3>3, <3>4
  <2>3. CASE log' = log /\ broken'[j]
    BY <1>3, <2>1, <2>3
  <2> QED
    BY <1>3, <1>9, <2>2, <2>3 DEF HandleEvent, TypeOK
<1> QED
  BY <1>4, <1>5, <1>6, <1>7, <1>8, <1>9

-----------------------------------------------------------------------------
(* The specification                                                       *)

\* The invariant holds at first.
LEMMA InitEstablishes == Init => IInv
<1>1. ASSUME Init, NEW j \in Jobs PROVE JobInv(j)
  BY <1>1 DEF Init, JobInv, StatusAt, LogAt, CancelledLog, OutcomeLogged, Present, Live,
              OnTheWay, Handler, LiveStatuses, JobStatuses, TerminalStatuses
<1>2. Init => TypeOK
  <2>1. << >> \in Seq(Events) /\ "none" \in PCs
    BY DEF PCs
  <2> QED
    BY <2>1 DEF Init, TypeOK
<1> QED
  BY <1>1, <1>2 DEF IInv

\* Every step of a job keeps its invariant.
LEMMA JobStepKeepsInv ==
  ASSUME IInv, NEW j \in Jobs, JobStep(j)
  PROVE  JobInv(j)'
  BY RequestKeepsInv, RowUpdateKeepsInv, ThreadMoveKeepsInv, AppendKeepsInv,
     OutsideKeepsInv DEF JobStep, WorkerStep

\* A process that dies leaves the rows and their log as they are.
LEMMA DeathKeepsInv ==
  ASSUME IInv, ProcessDies
  PROVE  IInv'
<1>1. TypeOK'
  <2>1. "dead" \in PCs
    BY DEF PCs
  <2> QED
    BY <2>1 DEF IInv, ProcessDies, TypeOK
<1>2. ASSUME NEW j \in Jobs PROVE JobInv(j)'
  <2>1. JobInv(j) /\ (pc'[j] = pc[j] \/ pc'[j] = "dead")
    BY DEF IInv, ProcessDies, TypeOK
  <2>2. /\ status'[j] = status[j] /\ cancelRequested'[j] = cancelRequested[j]
        /\ log'[j] = log[j] /\ messages'[j] = messages[j] /\ broken'[j] = broken[j]
    BY DEF ProcessDies
  <2>3. CASE pc'[j] = pc[j]
    BY <2>1, <2>2, <2>3, SameJobKeepsInv DEF SameJob
  <2>4. CASE pc'[j] = "dead"
    BY <2>1, <2>2, <2>4 DEF JobInv, StatusAt, LogAt, CancelledLog, OutcomeLogged, Present,
                            Live, LastEvent, OnTheWay, Handler
  <2> QED
    BY <2>1, <2>3, <2>4
<1> QED
  BY <1>1, <1>2 DEF IInv

\* Every step keeps the invariant.
LEMMA StepPreserves == IInv /\ [Next]_vars => IInv'
<1> SUFFICES ASSUME IInv, [Next]_vars PROVE IInv'
  OBVIOUS
<1>1. ASSUME NEW j \in Jobs, JobStep(j) PROVE IInv'
  <2>1. TypeOK'
    BY <1>1, StepTypes DEF IInv
  <2>2. ASSUME NEW k \in Jobs, k # j PROVE JobInv(k)'
    BY <1>1, <2>2, OtherJobs, SameJobKeepsInv DEF IInv
  <2>3. JobInv(j)'
    BY <1>1, JobStepKeepsInv
  <2> QED
    BY <2>1, <2>2, <2>3 DEF IInv
<1>2. CASE ProcessDies
  BY <1>2, DeathKeepsInv
<1>3. CASE UNCHANGED vars
  <2>1. TypeOK'
    BY <1>3 DEF IInv, vars, TypeOK
  <2>2. ASSUME NEW k \in Jobs PROVE JobInv(k)'
    BY <1>3, <2>2, SameJobKeepsInv DEF IInv, SameJob, vars
  <2> QED
    BY <2>1, <2>2 DEF IInv
<1> QED
  BY <1>1, <1>2, <1>3 DEF Next, JobStep

\* The inductive invariant holds in every reachable state.
THEOREM ChatJobsInvariant == Spec => []IInv
  BY InitEstablishes, StepPreserves, PTL DEF Spec

\* For any set of jobs, every reachable state is well typed.
THEOREM TypeCorrect == Spec => []TypeOK
<1>1. IInv => TypeOK
  BY DEF IInv
<1> QED
  BY <1>1, ChatJobsInvariant, PTL

\* The log of a done job ends in done, that of a failed one in error, and a
\* cancelled one that started ends in cancelled, in every interleaving of
\* the worker with cancels, exceptions, deletion and process death; only a
\* job cancelled while queued may log an error that its row does not have.
THEOREM OutcomesAreLogged == Spec => []LogMatchesStatus
<1>1. IInv => LogMatchesStatus
  <2>1. ASSUME IInv, NEW j \in Jobs, Present(j) PROVE OutcomeLogged(j)
    BY <2>1 DEF IInv, JobInv
  <2> QED
    BY <2>1 DEF LogMatchesStatus, OutcomeLogged, LastEvent, Present
<1> QED
  BY <1>1, ChatJobsInvariant, PTL

\* A worker that left _run_job with a usable database session has settled
\* its row.
THEOREM ExitsSettle == Spec => []ThreadExitSettlesRow
<1>1. IInv => ThreadExitSettlesRow
  BY DEF IInv, JobInv, StatusAt, ThreadExitSettlesRow
<1> QED
  BY <1>1, ChatJobsInvariant, PTL

\* How each step may change the rows' statuses.
StatusMoves ==
  \/ \E j \in Jobs : Lifecycle!Create(j)
  \/ \E j \in Jobs : Lifecycle!Start(j)
  \/ \E j \in Jobs : Lifecycle!Finish(j)
  \/ \E j \in Jobs : Lifecycle!Fail(j)
  \/ \E j \in Jobs : Lifecycle!FailUnstarted(j)
  \/ \E j \in Jobs : Lifecycle!Cancel(j)
  \/ \E j \in Jobs : Lifecycle!Remove(j)
  \/ UNCHANGED status

\* Every step moves a status as JobLifecycle does, or not at all.
LEMMA StepsMoveStatus == IInv /\ [Next]_vars => StatusMoves
<1> SUFFICES ASSUME IInv, [Next]_vars PROVE StatusMoves
  OBVIOUS
<1>0. status \in [Jobs -> JobStatuses \cup {"absent"}]
  BY DEF IInv, TypeOK
<1>1. ASSUME NEW j \in Jobs, NEW from, NEW s, SetStatus(j, from, s)
      PROVE  \/ status[j] \in from /\ Lifecycle!Becomes(j, s)
             \/ UNCHANGED status
  BY <1>0, <1>1 DEF SetStatus, Lifecycle!Becomes
<1>2. LiveStatuses = Lifecycle!LiveStatuses
  BY DEF LiveStatuses, JobStatuses, TerminalStatuses, Lifecycle!LiveStatuses,
         Lifecycle!JobStatuses, Lifecycle!TerminalStatuses
<1>3. ASSUME NEW j \in Jobs, JobStep(j) PROVE StatusMoves
  <2>1. JobInv(j)
    BY DEF IInv
  <2>2. CASE CreateJob(j)
    <3>1. Lifecycle!Create(j)
      BY <2>1, <2>2 DEF CreateJob, create_job, JobInv, StatusAt, Lifecycle!Create,
                        Lifecycle!Becomes
    <3> QED
      BY <3>1 DEF StatusMoves
  <2>3. CASE StartJob(j)
    BY <1>1, <2>3 DEF StartJob, start_job, StatusMoves, Lifecycle!Start
  <2>4. CASE ObserveCancel(j)
    BY <1>1, <1>2, <2>4 DEF ObserveCancel, observe_cancel, StatusMoves, Lifecycle!Cancel
  <2>5. CASE FailVanished(j) \/ HandleFail(j)
    <3>1. fail_job(j) \/ UNCHANGED status
      BY <2>5 DEF FailVanished, HandleFail
    <3> QED
      BY <1>1, <1>2, <3>1 DEF fail_job, StatusMoves, Lifecycle!Fail, LiveStatuses,
           Lifecycle!FailUnstarted, JobStatuses, TerminalStatuses
  <2>6. CASE FinishJob(j)
    <3>1. status[j] \in {"running", "absent"}
      BY <2>1, <2>6 DEF FinishJob, JobInv, StatusAt, OnTheWay
    <3>2. "absent" \notin LiveStatuses
      BY DEF LiveStatuses, JobStatuses
    <3> QED
      BY <1>1, <2>6, <3>1, <3>2 DEF FinishJob, finish_job, StatusMoves, Lifecycle!Finish
  <2>7. CASE Cancel(j)
    <3>1. "queued" \in Lifecycle!LiveStatuses
      BY DEF Lifecycle!LiveStatuses, Lifecycle!JobStatuses, Lifecycle!TerminalStatuses
    <3> QED
      BY <1>1, <2>7, <3>1 DEF Cancel, cancel_job, StatusMoves, Lifecycle!Cancel
  <2>8. CASE purge_finished_jobs(j) \/ DeleteSession(j)
    <3>1. status[j] # "absent"
      BY <2>8 DEF purge_finished_jobs, DeleteSession, Present, Terminal, TerminalStatuses
    <3> QED
      BY <2>8, <3>1 DEF purge_finished_jobs, DeleteSession, RemoveRow, StatusMoves,
                        Lifecycle!Remove, Lifecycle!Becomes
  <2>9. CASE UNCHANGED status
    BY <2>9 DEF StatusMoves
  <2> QED
    BY <1>3, <2>2, <2>3, <2>4, <2>5, <2>6, <2>7, <2>8, <2>9
       DEF JobStep, WorkerStep, Dispatch, Raise, CheckCancel, LogCancelled, LogStarted,
           GetSession, LogVanished, PostUserMessage, Generate, LogChunk, LogDone,
           HandleEvent, LogFromBody
<1>4. CASE ProcessDies \/ UNCHANGED vars
  BY <1>4 DEF ProcessDies, vars, StatusMoves
<1> QED
  BY <1>3, <1>4 DEF Next, JobStep

\* The rows implement JobLifecycle, the docstring's state machine with
\* queued -> failed added: in particular only a running row becomes done,
\* although finish_job's WHERE clause also admits a queued one.
THEOREM RowsImplementLifecycle == Spec => LifecycleSpec
<1>1. Init => Lifecycle!Init
  BY DEF Init, Lifecycle!Init
<1>2. StatusMoves => [Lifecycle!Next]_status
  BY DEF StatusMoves, Lifecycle!Next, Lifecycle!Drawn
<1>3. IInv /\ [Next]_vars => [Lifecycle!Next]_status
  BY <1>2, StepsMoveStatus
<1> QED
  BY <1>1, <1>3, ChatJobsInvariant, PTL DEF Spec, LifecycleSpec, Lifecycle!Spec

\* A move keeps a terminal status, or removes the row.
LEMMA MovesKeepTerminal ==
  ASSUME StatusMoves, TypeOK, NEW j \in Jobs, Terminal(j)
  PROVE  status'[j] \in {status[j], "absent"}
BY DEF StatusMoves, TypeOK, Terminal, TerminalStatuses, Lifecycle!Create,
       Lifecycle!Start, Lifecycle!Finish, Lifecycle!Fail, Lifecycle!FailUnstarted,
       Lifecycle!Cancel, Lifecycle!Remove, Lifecycle!Becomes, Lifecycle!LiveStatuses,
       Lifecycle!JobStatuses, Lifecycle!TerminalStatuses

\* A terminal status never changes while the row exists.
THEOREM TerminalStatusesStay == Spec => TerminalIsFinal
<1>1. IInv /\ [Next]_vars =>
        [\A j \in Jobs : Terminal(j) => status'[j] \in {status[j], "absent"}]_vars
  BY MovesKeepTerminal, StepsMoveStatus DEF IInv
<1> QED
  BY <1>1, ChatJobsInvariant, PTL DEF Spec, TerminalIsFinal

\* The transcript is extended for a running job (or a deleted one) only: a
\* job cancelled in the queue never runs the CLI.
THEOREM QueuedCancelCostsNothing == Spec => OnlyRunningJobsGenerate
<1>1. IInv /\ [Next]_vars =>
        [\A j \in Jobs : messages'[j] # messages[j] => status[j] \in {"running", "absent"}]_vars
  <2> SUFFICES ASSUME IInv, [Next]_vars, NEW j \in Jobs, messages'[j] # messages[j]
               PROVE  status[j] \in {"running", "absent"}
    OBVIOUS
  <2>1. PICK k \in Jobs : JobStep(k)
    BY DEF Next, JobStep, ProcessDies, vars
  <2>2. k = j
    BY <2>1, OtherJobs DEF IInv, SameJob
  <2>3. pc[j] \in {"post", "generate"}
    BY <2>1, <2>2 DEF JobStep, CreateJob, Dispatch, Raise, Cancel, purge_finished_jobs,
       DeleteSession, RemoveRow, WorkerStep, StartJob, CheckCancel, LogCancelled,
       ObserveCancel, LogStarted, GetSession, LogVanished, FailVanished, PostUserMessage,
       Generate, LogChunk, LogDone, FinishJob, HandleEvent, HandleFail, LogFromBody
  <2> QED
    BY <2>3 DEF IInv, JobInv, StatusAt, OnTheWay
<1> QED
  BY <1>1, ChatJobsInvariant, PTL DEF Spec, OnlyRunningJobsGenerate

-----------------------------------------------------------------------------
(* The follower                                                            *)

Frames == [seq : Nat \ {0}, event : Events]

\* What the follower of one job has, has been sent, and was told.
FollowerInv(j) ==
  /\ pc[j] = "none" => client[j] = "idle"
  /\ client[j] = "idle" => got[j] = << >> /\ batch[j] = << >> /\ gen[j] = "none"
  /\ lastSeq[j] = Len(got[j])
  /\ \A k \in 1 .. Len(batch[j]) : batch[j][k].seq = lastSeq[j] + k
  /\ Present(j) =>
       /\ lastSeq[j] + Len(batch[j]) <= Len(log[j])
       /\ \A k \in 1 .. Len(got[j]) : got[j][k] = log[j][k]
       /\ \A k \in 1 .. Len(batch[j]) : batch[j][k].event = log[j][lastSeq[j] + k]
  /\ client[j] = "terminal" => frame[j] \in TerminalStatuses /\ (Present(j) => status[j] = frame[j])
  /\ gen[j] \in {"initial", "emit"} => iters[j] > 0

SInv == IInv /\ StreamTypeOK /\ \A j \in Jobs : FollowerInv(j)

\* The index after k in a sequence that is one longer.
LEMMA NextIndex ==
  \A m, n \in Nat : \A k \in 1 .. m : k + 1 \in 1 .. (m + 1) /\ n + (k + 1) = n + 1 + k
  OBVIOUS

\* A part of a sum is within the sum's bound.
LEMMA LeftOfSum == \A a, b, c \in Nat : a + b <= c => a <= c
  OBVIOUS

\* The rows after the cursor, numbered on from it.
LEMMA ReadFacts ==
  ASSUME NEW j \in Jobs, NEW from \in Nat, log[j] \in Seq(Events)
  PROVE  LET r == read_events(j, from) IN
           /\ r \in Seq(Frames)
           /\ Len(r) = IF from < Len(log[j]) THEN Len(log[j]) - from ELSE 0
           /\ \A k \in 1 .. Len(r) : r[k].seq = from + k /\ r[k].event = log[j][from + k]
<1> DEFINE r == read_events(j, from)
           n == IF from < Len(log[j]) THEN Len(log[j]) - from ELSE 0
<1>1. Len(log[j]) \in Nat /\ n \in Nat
  OBVIOUS
<1>2. 1 .. Len(log[j]) - from = 1 .. n
  BY <1>1
<1>3. \A k \in 1 .. n : from + k \in Nat \ {0} /\ log[j][from + k] \in Events
  BY <1>1
<1>4. r = [k \in 1 .. n |-> [seq |-> from + k, event |-> log[j][from + k]]]
  BY <1>2 DEF read_events
<1> HIDE DEF n, r
<1>5. r \in [1 .. n -> Frames]
  BY <1>3, <1>4 DEF Frames
<1>6. r \in Seq(Frames) /\ Len(r) = n
  BY <1>1, <1>5
<1>7. \A k \in 1 .. n : r[k].seq = from + k /\ r[k].event = log[j][from + k]
  BY <1>4
<1> QED
  BY <1>6, <1>7 DEF n, r

\* The log of a job whose row stays only grows; a row appears once.
Grows(j) ==
  /\ pc'[j] = "none" => pc[j] = "none"
  /\ Present(j)' => Present(j) \/ pc[j] = "none"
  /\ Present(j)' => \/ log'[j] = log[j]
                    \/ \E e \in Events : log'[j] = Append(log[j], e)
  /\ Terminal(j) => status'[j] \in {status[j], "absent"}

\* A step of the job lengthens its log, or removes it with the row.
LEMMA StepGrows ==
  ASSUME IInv, [Next]_vars, NEW j \in Jobs
  PROVE  Grows(j)
<1>1. Terminal(j) => status'[j] \in {status[j], "absent"}
  BY StepsMoveStatus, MovesKeepTerminal DEF IInv
<1>2. /\ "started" \in Events /\ "chunk" \in Events /\ "done" \in Events
      /\ "cancelled" \in Events /\ "error" \in Events
  BY DEF Events
<1>3. TypeOK
  BY DEF IInv
<1>4. ASSUME JobStep(j) PROVE Grows(j)
  <2>1. Present(j)' => Present(j) \/ pc[j] = "none"
    BY <1>3, <1>4 DEF TypeOK, JobStep, WorkerStep, Present, CreateJob, Dispatch, Raise, Cancel, cancel_job,
       SetStatus, purge_finished_jobs, DeleteSession, RemoveRow, StartJob, start_job, CheckCancel,
       LogCancelled, ObserveCancel, observe_cancel, LogStarted, GetSession, LogVanished,
       FailVanished, fail_job, PostUserMessage, Generate, LogChunk, LogDone, FinishJob,
       finish_job, HandleEvent, HandleFail, LogFromBody, LiveStatuses, JobStatuses
  <2>2. pc'[j] # "none"  \/ pc[j] = "none"
    BY <1>3, <1>4 DEF TypeOK, JobStep, WorkerStep, CreateJob, Dispatch, Raise, Cancel, Goto,
       purge_finished_jobs, DeleteSession, RemoveRow, StartJob, CheckCancel, AfterCheck, Checks,
       LogCancelled, ObserveCancel, LogStarted, GetSession, LogVanished,
       FailVanished, PostUserMessage, Generate, LogChunk, LogDone, FinishJob,
       HandleEvent, HandleFail, LogFromBody
  <2>3. Present(j)' => \/ log'[j] = log[j]
                      \/ \E e \in Events : log'[j] = Append(log[j], e)
    BY <1>2, <1>3, <1>4 DEF TypeOK, JobStep, WorkerStep, Present, CreateJob, create_job, Dispatch, Raise, Cancel,
       purge_finished_jobs, DeleteSession, RemoveRow, StartJob, CheckCancel, append_event,
       LogCancelled, ObserveCancel, LogStarted, GetSession, LogVanished,
       FailVanished, PostUserMessage, Generate, LogChunk, LogDone, FinishJob,
       HandleEvent, HandleFail, LogFromBody
  <2> QED
    BY <1>1, <2>1, <2>2, <2>3 DEF Grows
<1>5. ASSUME NEW k \in Jobs, k # j, JobStep(k) PROVE Grows(j)
  BY <1>1, <1>3, <1>5, OtherJobs DEF SameJob, Grows, Present
<1>6. ASSUME ProcessDies \/ UNCHANGED vars PROVE Grows(j)
  BY <1>1, <1>3, <1>6 DEF ProcessDies, vars, Grows, Present, TypeOK
<1> QED
  BY <1>4, <1>5, <1>6 DEF Next, JobStep

\* A step of the job under its follower.
LEMMA JobMovesKeepFollower ==
  ASSUME SInv, [Next]_vars, UNCHANGED readerVars, NEW j \in Jobs
  PROVE  FollowerInv(j)'
<1>1. Grows(j)
  BY StepGrows DEF SInv
<1>2. /\ client'[j] = client[j] /\ got'[j] = got[j] /\ lastSeq'[j] = lastSeq[j]
      /\ frame'[j] = frame[j] /\ gen'[j] = gen[j] /\ batch'[j] = batch[j] /\ iters'[j] = iters[j]
  BY DEF readerVars
<1>3. FollowerInv(j) /\ log[j] \in Seq(Events) /\ got[j] \in Seq(Events)
      /\ batch[j] \in Seq(Frames) /\ lastSeq[j] \in Nat
  BY DEF SInv, IInv, TypeOK, StreamTypeOK, Frames
<1>4. log'[j] \in Seq(Events)
  BY StepPreserves DEF SInv, IInv, TypeOK
<1>5. ASSUME Present(j)'
      PROVE  /\ lastSeq[j] + Len(batch[j]) <= Len(log'[j])
             /\ \A k \in 1 .. Len(got[j]) : got[j][k] = log'[j][k]
             /\ \A k \in 1 .. Len(batch[j]) : batch[j][k].event = log'[j][lastSeq[j] + k]
  <2>1. CASE Present(j)
    <3>1. Len(log[j]) <= Len(log'[j]) /\ \A k \in 1 .. Len(log[j]) : log'[j][k] = log[j][k]
      BY <1>1, <1>3, <1>5 DEF Grows
    <3>2. /\ \A k \in 1 .. Len(got[j]) : got[j][k] = log[j][k]
          /\ \A k \in 1 .. Len(batch[j]) : batch[j][k].event = log[j][lastSeq[j] + k]
      BY <1>3, <2>1 DEF FollowerInv
    <3>2a. lastSeq[j] + Len(batch[j]) <= Len(log[j])
      BY <1>3, <2>1 DEF FollowerInv
    <3>2b. lastSeq[j] = Len(got[j])
      BY <1>3 DEF FollowerInv
    <3>3. /\ Len(log[j]) \in Nat /\ Len(log'[j]) \in Nat /\ Len(batch[j]) \in Nat
          /\ Len(got[j]) \in Nat /\ lastSeq[j] \in Nat
      BY <1>3, <1>4
    <3>4. \A k \in 1 .. lastSeq[j] : k \in 1 .. Len(log[j])
      BY <3>2a, <3>3
    <3>5. \A k \in 1 .. Len(batch[j]) : lastSeq[j] + k \in 1 .. Len(log[j])
      BY <3>2a, <3>3
    <3>6. lastSeq[j] + Len(batch[j]) <= Len(log'[j])
      BY <3>1, <3>2a, <3>3
    <3> QED
      BY <3>1, <3>2, <3>2b, <3>4, <3>5, <3>6
  <2>2. CASE ~Present(j)
    <3>1. got[j] = << >> /\ batch[j] = << >> /\ lastSeq[j] = 0
      BY <1>1, <1>3, <1>5, <2>2 DEF Grows, FollowerInv
    <3> QED
      BY <1>4, <3>1
  <2> QED
    BY <2>1, <2>2
<1>6. ASSUME client[j] = "terminal", Present(j)'
      PROVE  status'[j] = frame[j]
  <2>1. Present(j)
    BY <1>1, <1>3, <1>6 DEF Grows, FollowerInv
  <2>2. Terminal(j) /\ status[j] = frame[j]
    BY <1>3, <1>6, <2>1 DEF FollowerInv, Terminal
  <2> QED
    BY <1>1, <1>6, <2>2 DEF Grows, Present
<1>7. pc'[j] = "none" => client[j] = "idle"
  BY <1>1, <1>3 DEF Grows, FollowerInv
<1> QED
  BY <1>2, <1>3, <1>5, <1>6, <1>7 DEF FollowerInv, Present

ReaderStep(j) ==
  \/ Subscribe(j) \/ Connect(j) \/ GeneratorStep(j) \/ Drop(j) \/ Stop(j)

SameFollower(j) ==
  /\ client'[j] = client[j] /\ got'[j] = got[j] /\ lastSeq'[j] = lastSeq[j]
  /\ frame'[j] = frame[j] /\ gen'[j] = gen[j] /\ batch'[j] = batch[j] /\ iters'[j] = iters[j]

\* A step of one follower touches no job and no other follower.
LEMMA OtherFollowers ==
  ASSUME StreamTypeOK, NEW j \in Jobs, NEW k \in Jobs, k # j, ReaderStep(j)
  PROVE  UNCHANGED vars /\ SameFollower(k)
<1> USE DEF StreamTypeOK, SameFollower
<1>1. CASE Subscribe(j)
  BY <1>1 DEF Subscribe
<1>2. CASE Connect(j)
  BY <1>2 DEF Connect
<1>3. CASE ReadInitial(j) \/ ReadEvents(j)
  BY <1>3 DEF ReadInitial, ReadEvents
<1>4. CASE Emit(j)
  BY <1>4 DEF Emit
<1>5. CASE CheckStatus(j)
  BY <1>5 DEF CheckStatus, PollEnding
<1>6. CASE TimeoutFrame(j) \/ Drop(j)
  BY <1>6 DEF TimeoutFrame, Drop, EndResponse
<1>7. CASE Stop(j)
  BY <1>7 DEF Stop
<1> QED
  BY <1>1, <1>2, <1>3, <1>4, <1>5, <1>6, <1>7 DEF ReaderStep, GeneratorStep

\* What one follower's own step does to it.
LEMMA FollowerSteps ==
  ASSUME SInv, NEW j \in Jobs, ReaderStep(j)
  PROVE  StreamTypeOK' /\ FollowerInv(j)'
<1>1. FollowerInv(j) /\ StreamTypeOK
  BY DEF SInv
<1>2. log[j] \in Seq(Events) /\ got[j] \in Seq(Events) /\ batch[j] \in Seq(Frames)
      /\ lastSeq[j] \in Nat
  BY DEF SInv, IInv, TypeOK, StreamTypeOK, Frames
<1>2a. /\ Len(batch[j]) \in Nat /\ Len(log[j]) \in Nat /\ Len(got[j]) \in Nat
       /\ lastSeq[j] \in Nat
  BY <1>2
<1>2b. lastSeq[j] = Len(got[j])
  BY <1>1 DEF FollowerInv
<1>2d. Present(j) => lastSeq[j] + Len(batch[j]) <= Len(log[j])
  BY <1>1 DEF FollowerInv
<1>2c. Present(j) => lastSeq[j] <= Len(log[j])
  BY <1>2a, <1>2d
<1>3. UNCHANGED vars
  BY DEF ReaderStep, GeneratorStep, Subscribe, Connect, ReadInitial, ReadEvents, Emit, CheckStatus,
         PollEnding, TimeoutFrame, Drop, Stop
<1>4. UNCHANGED <<pc[j], status[j], log[j]>> /\ Present(j)' = Present(j)
  BY <1>3 DEF vars, Present
<1>5. MaxIters \in Nat \ {0}
  BY MaxItersAssumption
<1>6. CASE Subscribe(j)
  <2>1. StreamTypeOK'
    BY <1>1, <1>6 DEF Subscribe, StreamTypeOK, Ended
  <2>2. client'[j] = "opening" /\ pc[j] # "none"
    BY <1>1, <1>6 DEF Subscribe, StreamTypeOK
  <2> QED
    BY <1>1, <1>4, <1>6, <2>1, <2>2 DEF Subscribe, FollowerInv
<1>7. CASE Connect(j)
  <2>1. StreamTypeOK'
    <3>1. client' \in [Jobs -> {"idle", "opening", "open"} \cup Ended]
      <4>1. client' = [client EXCEPT ![j] = "open"] \/ client' = [client EXCEPT ![j] = "notFound"]
        BY <1>7 DEF Connect
      <4> QED
        BY <1>1, <4>1 DEF StreamTypeOK, Ended
    <3>2. gen' \in [Jobs -> {"none", "initial", "read", "emit"}]
      BY <1>1, <1>7 DEF Connect, StreamTypeOK
    <3>3. MaxIters \in 0 .. MaxIters
      BY <1>5
    <3>4. iters' \in [Jobs -> 0 .. MaxIters]
      BY <1>1, <1>7, <3>3 DEF Connect, StreamTypeOK
    <3> QED
      BY <1>1, <1>7, <3>1, <3>2, <3>4 DEF Connect, StreamTypeOK
  <2>2. /\ client'[j] \in {"open", "notFound"} /\ client[j] = "opening"
        /\ gen'[j] \in {"initial", "emit"} => iters'[j] > 0
    BY <1>1, <1>5, <1>7 DEF Connect, StreamTypeOK, FollowerInv
  <2> QED
    BY <1>1, <1>4, <1>7, <2>1, <2>2 DEF Connect, FollowerInv
<1>8. CASE ReadInitial(j) \/ ReadEvents(j)
  <2> DEFINE r == read_events(j, lastSeq[j])
  <2>1. /\ r \in Seq(Frames)
        /\ Len(r) = IF lastSeq[j] < Len(log[j]) THEN Len(log[j]) - lastSeq[j] ELSE 0
        /\ \A k \in 1 .. Len(r) : r[k].seq = lastSeq[j] + k /\ r[k].event = log[j][lastSeq[j] + k]
    BY <1>2, ReadFacts
  <2>2. batch' = [batch EXCEPT ![j] = r] /\ UNCHANGED <<client, got, lastSeq, frame, iters>>
    BY <1>8 DEF ReadInitial, ReadEvents
  <2> HIDE DEF r
  <2>3. batch'[j] = r
    BY <1>1, <2>2 DEF StreamTypeOK
  <2>4. /\ gen' \in [Jobs -> {"none", "initial", "read", "emit"}]
        /\ gen'[j] \in {"read", "emit"} /\ (gen'[j] = "emit" => iters[j] > 0)
    BY <1>1, <1>8 DEF ReadInitial, ReadEvents, StreamTypeOK, FollowerInv
  <2>5. batch' \in [Jobs -> Seq(Frames)]
    BY <1>1, <2>1, <2>2 DEF StreamTypeOK, Frames
  <2>6. StreamTypeOK'
    BY <1>1, <2>2, <2>4, <2>5 DEF StreamTypeOK, Frames
  <2>7. Present(j) => lastSeq[j] + Len(r) <= Len(log[j])
    BY <1>2, <1>2a, <1>2c, <2>1
  <2> QED
    <3>1. /\ client'[j] = client[j] /\ got'[j] = got[j] /\ lastSeq'[j] = lastSeq[j]
          /\ frame'[j] = frame[j] /\ iters'[j] = iters[j]
      BY <2>2
    <3> QED
      <4>1. \A k \in 1 .. Len(batch'[j]) : batch'[j][k].seq = lastSeq[j] + k
        BY <2>1, <2>3
      <4>2. Present(j) =>
              /\ lastSeq[j] + Len(batch'[j]) <= Len(log[j])
              /\ \A k \in 1 .. Len(batch'[j]) : batch'[j][k].event = log[j][lastSeq[j] + k]
        BY <2>1, <2>3, <2>7
      <4>3. /\ pc[j] = "none" => client[j] = "idle"
            /\ client[j] = "idle" => got[j] = << >> /\ batch'[j] = << >> /\ gen'[j] = "none"
        <5>1. client[j] # "idle"
          BY <1>1, <1>8 DEF ReadInitial, ReadEvents, FollowerInv
        <5> QED
          BY <1>1, <5>1 DEF FollowerInv
      <4>4. gen'[j] \in {"initial", "emit"} => iters[j] > 0
        BY <2>4
      <4>5. /\ lastSeq[j] = Len(got[j])
            /\ Present(j) => \A k \in 1 .. Len(got[j]) : got[j][k] = log[j][k]
            /\ client[j] = "terminal" => frame[j] \in TerminalStatuses /\ (Present(j) => status[j] = frame[j])
        BY <1>1 DEF FollowerInv
      <4> QED
        BY <1>4, <2>6, <3>1, <4>1, <4>2, <4>3, <4>4, <4>5 DEF FollowerInv
<1>9. CASE Emit(j)
  <2> DEFINE ev == batch[j][1]  rest == Tail(batch[j])  more == Append(got[j], ev.event)
  <2>1. gen[j] = "emit" /\ batch[j] # << >> /\ Head(batch[j]) = ev
    BY <1>2, <1>9 DEF Emit
  <2>2. ev \in Frames /\ ev.seq = lastSeq[j] + 1 /\ Len(batch[j]) > 0
    BY <1>1, <1>2, <2>1 DEF FollowerInv
  <2>3. /\ rest \in Seq(Frames) /\ Len(rest) = Len(batch[j]) - 1
        /\ \A k \in 1 .. Len(rest) : rest[k] = batch[j][k + 1]
    BY <1>2, <2>2
  <2>4. /\ more \in Seq(Events) /\ Len(more) = Len(got[j]) + 1
        /\ more[Len(got[j]) + 1] = ev.event
        /\ \A k \in 1 .. Len(got[j]) : more[k] = got[j][k]
    BY <1>2, <2>2 DEF Frames
  <2>5. /\ got' = [got EXCEPT ![j] = more] /\ batch' = [batch EXCEPT ![j] = rest]
        /\ lastSeq' = [lastSeq EXCEPT ![j] = IF ev.seq > @ THEN ev.seq ELSE @]
        /\ UNCHANGED <<client, frame, gen, iters>>
    BY <1>1, <1>9, <2>1 DEF Emit, StreamTypeOK
  <2> HIDE DEF ev, rest, more
  <2>6. got'[j] = more /\ batch'[j] = rest /\ lastSeq'[j] = lastSeq[j] + 1
    BY <1>1, <1>2, <2>2, <2>5 DEF StreamTypeOK
  <2>7. StreamTypeOK'
    <3>1. got' \in [Jobs -> Seq(Events)] /\ batch' \in [Jobs -> Seq(Frames)]
      BY <1>1, <2>3, <2>4, <2>5 DEF StreamTypeOK, Frames
    <3>2. lastSeq' \in [Jobs -> Nat]
      BY <1>1, <2>2, <2>5 DEF StreamTypeOK, Frames
    <3> QED
      BY <1>1, <2>5, <3>1, <3>2 DEF StreamTypeOK, Frames
  <2>8. client[j] # "idle"
    BY <1>1, <2>1 DEF FollowerInv
  <2>9. \A k \in 1 .. Len(rest) : rest[k].seq = lastSeq[j] + 1 + k
    <3>1. \A k \in 1 .. Len(rest) : k + 1 \in 1 .. Len(batch[j]) /\ lastSeq[j] + (k + 1) = lastSeq[j] + 1 + k
      <4>1. Len(rest) \in Nat /\ Len(batch[j]) = Len(rest) + 1
        BY <1>2a, <2>3
      <4> QED
        BY <1>2a, <4>1, NextIndex
    <3> QED
      BY <1>1, <2>3, <3>1 DEF FollowerInv
  <2>10. lastSeq[j] = Len(got[j]) /\ lastSeq'[j] = Len(more)
    BY <1>1, <2>4, <2>6 DEF FollowerInv
  <2>11. ASSUME Present(j)
         PROVE  /\ lastSeq[j] + 1 + Len(rest) <= Len(log[j])
                /\ \A k \in 1 .. Len(more) : more[k] = log[j][k]
                /\ \A k \in 1 .. Len(rest) : rest[k].event = log[j][lastSeq[j] + 1 + k]
    <3>1. /\ lastSeq[j] + Len(batch[j]) <= Len(log[j])
          /\ \A k \in 1 .. Len(got[j]) : got[j][k] = log[j][k]
          /\ \A k \in 1 .. Len(batch[j]) : batch[j][k].event = log[j][lastSeq[j] + k]
      BY <1>1, <2>11 DEF FollowerInv
    <3>2. ev.event = log[j][lastSeq[j] + 1]
      BY <1>2, <1>2a, <2>2, <3>1 DEF ev
    <3>3. \A k \in 1 .. Len(more) : more[k] = log[j][k]
      <4> SUFFICES ASSUME NEW k \in 1 .. Len(more) PROVE more[k] = log[j][k]
        OBVIOUS
      <4>1. k \in 1 .. Len(got[j]) \/ k = Len(got[j]) + 1
        BY <1>2a, <2>4
      <4> QED
        BY <1>2b, <2>4, <3>1, <3>2, <4>1
    <3>4. \A k \in 1 .. Len(rest) : rest[k].event = log[j][lastSeq[j] + 1 + k]
      <4> SUFFICES ASSUME NEW k \in 1 .. Len(rest)
                   PROVE  rest[k].event = log[j][lastSeq[j] + 1 + k]
        OBVIOUS
      <4>1. k + 1 \in 1 .. Len(batch[j])
        BY <1>2a, <2>3
      <4>2. rest[k] = batch[j][k + 1]
        BY <2>3
      <4>3. \A n \in 1 .. Len(batch[j]) : batch[j][n].event = log[j][lastSeq[j] + n]
        BY <3>1
      <4>4. batch[j][k + 1].event = log[j][lastSeq[j] + (k + 1)]
        BY <4>1, <4>3
      <4>5. lastSeq[j] + (k + 1) = lastSeq[j] + 1 + k
        BY <1>2a
      <4> QED
        BY <4>2, <4>4, <4>5
    <3>5. lastSeq[j] + 1 + Len(rest) <= Len(log[j])
      <4>1. lastSeq[j] + Len(batch[j]) <= Len(log[j])
        BY <3>1
      <4> QED
        BY <1>2a, <2>3, <4>1
    <3> QED
      BY <3>3, <3>4, <3>5
  <2>12. iters[j] > 0
    BY <1>1, <2>1 DEF FollowerInv
  <2> QED
    BY <1>1, <1>4, <2>5, <2>6, <2>7, <2>8, <2>9, <2>10, <2>11, <2>12 DEF FollowerInv
<1>10. CASE CheckStatus(j)
  <2>1. iters[j] > 0 /\ iters[j] \in 0 .. MaxIters /\ gen[j] = "emit" /\ client[j] # "idle"
    BY <1>1, <1>10 DEF CheckStatus, PollEnding, FollowerInv, StreamTypeOK
  <2>2. CASE Terminal(j)
    <3>1. /\ frame' = [frame EXCEPT ![j] = status[j]] /\ client' = [client EXCEPT ![j] = "terminal"]
          /\ gen' = [gen EXCEPT ![j] = "none"] /\ UNCHANGED <<got, lastSeq, batch, iters>>
      BY <1>10, <2>2 DEF CheckStatus, PollEnding
    <3>2. StreamTypeOK'
      BY <1>1, <2>2, <3>1 DEF StreamTypeOK, Ended, Terminal
    <3>3. client'[j] = "terminal" /\ frame'[j] = status[j] /\ gen'[j] = "none"
      BY <1>1, <3>1 DEF StreamTypeOK
    <3>4. pc[j] # "none"
      BY <1>1, <2>1 DEF FollowerInv
    <3> QED
      BY <1>1, <1>4, <2>2, <3>1, <3>2, <3>3, <3>4 DEF FollowerInv, Terminal
  <2>3. CASE ~Terminal(j)
    <3>1. /\ gen' = [gen EXCEPT ![j] = "read"] /\ iters' = [iters EXCEPT ![j] = @ - 1]
          /\ UNCHANGED <<client, frame, got, lastSeq, batch>>
      BY <1>10, <2>3 DEF CheckStatus, PollEnding
    <3>2. StreamTypeOK'
      <4>1. iters[j] - 1 \in 0 .. MaxIters
        BY <1>5, <2>1
      <4>2. iters' \in [Jobs -> 0 .. MaxIters]
        BY <1>1, <3>1, <4>1 DEF StreamTypeOK
      <4> QED
        BY <1>1, <3>1, <4>2 DEF StreamTypeOK
    <3>3. gen'[j] = "read"
      BY <1>1, <3>1 DEF StreamTypeOK
    <3> QED
      <4>1. /\ client'[j] = client[j] /\ got'[j] = got[j] /\ lastSeq'[j] = lastSeq[j]
            /\ frame'[j] = frame[j] /\ batch'[j] = batch[j]
        BY <3>1
      <4> QED
        BY <1>1, <1>4, <2>1, <3>2, <3>3, <4>1 DEF FollowerInv
  <2> QED
    BY <2>2, <2>3
<1>11. CASE TimeoutFrame(j) \/ Drop(j) \/ Stop(j)
  <2>1. /\ gen' = [gen EXCEPT ![j] = "none"] /\ batch' = [batch EXCEPT ![j] = << >>]
        /\ client' = [client EXCEPT ![j] = "opening"] \/ client' = [client EXCEPT ![j] = "stopped"]
        /\ UNCHANGED <<got, lastSeq, frame, iters>>
    BY <1>11 DEF TimeoutFrame, Drop, Stop, EndResponse
  <2>2. client[j] # "idle"
    BY <1>1, <1>11 DEF TimeoutFrame, Drop, Stop, FollowerInv
  <2>3. << >> \in Seq(Frames)
    OBVIOUS
  <2>4. StreamTypeOK'
    BY <1>1, <2>1, <2>3 DEF StreamTypeOK, Ended, Frames
  <2>5. gen'[j] = "none" /\ batch'[j] = << >> /\ client'[j] \in {"opening", "stopped"}
    BY <1>1, <2>1 DEF StreamTypeOK
  <2>6. pc[j] # "none"
    BY <1>1, <2>2 DEF FollowerInv
  <2>7. Len(batch'[j]) = 0 /\ 1 .. Len(batch'[j]) = {} /\ lastSeq[j] + Len(batch'[j]) = lastSeq[j]
    BY <1>2, <2>5
  <2>8. /\ got'[j] = got[j] /\ lastSeq'[j] = lastSeq[j]
    BY <2>1
  <2> QED
    BY <1>1, <1>2c, <1>4, <2>4, <2>5, <2>6, <2>7, <2>8 DEF FollowerInv
<1> QED
  BY <1>6, <1>7, <1>8, <1>9, <1>10, <1>11 DEF ReaderStep, GeneratorStep

\* The invariant of job and follower holds at first.
LEMMA StreamInitEstablishes == StreamInit => SInv
<1> SUFFICES ASSUME StreamInit PROVE SInv
  OBVIOUS
<1>1. IInv
  BY InitEstablishes DEF StreamInit
<1>2. << >> \in Seq(Events) /\ << >> \in Seq(Frames) /\ MaxIters \in Nat
  BY MaxItersAssumption
<1>3. StreamTypeOK
  <2>1. 0 \in 0 .. MaxIters
    BY <1>2
  <2> QED
    BY <1>2, <2>1 DEF StreamInit, StreamTypeOK, Frames
<1>4. ASSUME NEW j \in Jobs PROVE FollowerInv(j)
  <2>1. /\ status[j] = "absent" /\ client[j] = "idle" /\ got[j] = << >> /\ batch[j] = << >>
        /\ lastSeq[j] = 0 /\ gen[j] = "none"
    BY DEF StreamInit, Init
  <2>2. Len(got[j]) = 0 /\ 1 .. Len(batch[j]) = {}
    BY <2>1
  <2> QED
    BY <2>1, <2>2 DEF FollowerInv, Present
<1> QED
  BY <1>1, <1>3, <1>4 DEF SInv

\* Every step of job or follower keeps it.
LEMMA StreamStepKeeps == SInv /\ [StreamNext]_streamVars => SInv'
<1> SUFFICES ASSUME SInv, [StreamNext]_streamVars PROVE SInv'
  OBVIOUS
<1>1. CASE Next /\ UNCHANGED readerVars
  <2>1. IInv'
    BY <1>1, StepPreserves DEF SInv
  <2>2. StreamTypeOK'
    BY <1>1 DEF SInv, StreamTypeOK, readerVars
  <2>3. \A j \in Jobs : FollowerInv(j)'
    BY <1>1, JobMovesKeepFollower
  <2> QED
    BY <2>1, <2>2, <2>3 DEF SInv
<1>2. ASSUME NEW j \in Jobs, ReaderStep(j) PROVE SInv'
  <2>1. UNCHANGED vars
    BY <1>2 DEF ReaderStep, GeneratorStep, Subscribe, Connect, ReadInitial, ReadEvents, Emit,
       CheckStatus, PollEnding, TimeoutFrame, Drop, Stop
  <2>2. IInv'
    BY <2>1, StepPreserves DEF SInv
  <2>3. StreamTypeOK' /\ FollowerInv(j)'
    BY <1>2, FollowerSteps
  <2>4. ASSUME NEW k \in Jobs, k # j PROVE FollowerInv(k)'
    <3>1. SameFollower(k)
      BY <1>2, <2>4, OtherFollowers DEF SInv
    <3>2. FollowerInv(k)
      BY DEF SInv
    <3> QED
      BY <2>1, <3>1, <3>2 DEF SameFollower, FollowerInv, vars, Present
  <2> QED
    BY <2>2, <2>3, <2>4 DEF SInv
<1>3. CASE UNCHANGED streamVars
  <2>1. UNCHANGED vars /\ UNCHANGED readerVars
    BY <1>3 DEF streamVars, readerVars, vars
  <2>2. IInv'
    BY <2>1, StepPreserves DEF SInv
  <2>3. StreamTypeOK'
    BY <2>1 DEF SInv, StreamTypeOK, readerVars
  <2>4. \A j \in Jobs : FollowerInv(j)'
    BY <2>1, JobMovesKeepFollower
  <2> QED
    BY <2>2, <2>3, <2>4 DEF SInv
<1> QED
  BY <1>1, <1>2, <1>3 DEF StreamNext, ReaderStep

\* Jobs and followers together: the invariant of the composition.
THEOREM StreamInvariant == StreamSpec => []SInv
<1>1. StreamInit => SInv
  BY StreamInitEstablishes
<1>2. SInv /\ [StreamNext]_streamVars => SInv'
  BY StreamStepKeeps
<1> QED
  BY <1>1, <1>2, PTL DEF StreamSpec

\* Every variable of the generator and the client keeps its type.
THEOREM StreamTypeCorrect == StreamSpec => []StreamTypeOK
<1>1. SInv => StreamTypeOK
  BY DEF SInv
<1> QED
  BY <1>1, StreamInvariant, PTL

\* Over any number of cuts, timeouts and reconnects of any number of followers,
\* each renders a prefix of its job's log.
THEOREM FollowersRenderPrefixes == StreamSpec => []StreamIsPrefix
<1>1. SInv => StreamIsPrefix
  <2> SUFFICES ASSUME SInv, NEW j \in Jobs
               PROVE  /\ lastSeq[j] = Len(got[j])
                      /\ Present(j) => /\ Len(got[j]) <= Len(log[j])
                                       /\ got[j] = SubSeq(log[j], 1, Len(got[j]))
    BY DEF StreamIsPrefix
  <2>1. got[j] \in Seq(Events) /\ log[j] \in Seq(Events) /\ batch[j] \in Seq(Frames)
    BY DEF SInv, IInv, TypeOK, StreamTypeOK, Frames
  <2>2. FollowerInv(j)
    BY DEF SInv
  <2>3. ASSUME Present(j)
        PROVE  Len(got[j]) <= Len(log[j]) /\ got[j] = SubSeq(log[j], 1, Len(got[j]))
    <3>1. \A k \in 1 .. Len(got[j]) : got[j][k] = log[j][k]
      BY <2>2, <2>3 DEF FollowerInv
    <3>1b. Len(got[j]) + Len(batch[j]) <= Len(log[j])
      <4>1. lastSeq[j] + Len(batch[j]) <= Len(log[j]) /\ lastSeq[j] = Len(got[j])
        BY <2>2, <2>3 DEF FollowerInv
      <4> QED
        BY <4>1
    <3>2. Len(got[j]) \in Nat /\ Len(log[j]) \in Nat /\ Len(batch[j]) \in Nat
      BY <2>1
    <3>1a. Len(got[j]) <= Len(log[j])
      BY <3>1b, <3>2, LeftOfSum
    <3> DEFINE p == SubSeq(log[j], 1, Len(got[j]))
    <3>4. p \in Seq(Events) /\ Len(p) = Len(got[j]) /\ \A k \in 1 .. Len(got[j]) : p[k] = log[j][k]
      BY <2>1, <3>1, <3>1a
    <3> HIDE DEF p
    <3>3. got[j] = p
      BY <2>1, <3>1, <3>4, SeqEqual
    <3> QED
      BY <3>1a, <3>3 DEF p
  <2> QED
    BY <2>2, <2>3 DEF FollowerInv
<1> QED
  BY <1>1, StreamInvariant, PTL

\* What a follower was told at the end stays what the row says.
THEOREM OutcomesToldStay == StreamSpec => []TerminalFrameStays
<1>1. SInv => TerminalFrameStays
  BY DEF SInv, FollowerInv, TerminalFrameStays
<1> QED
  BY <1>1, StreamInvariant, PTL
=============================================================================
