---------------------------- MODULE JobLifecycle ----------------------------
(***************************************************************************)
(* What a chat job promises to the people who hold its id, without the     *)
(* worker, the database session or the event log behind it.  Drawn is the  *)
(* state machine of the docstring of services/chat_jobs.py, in which a job *)
(* fails only once it runs.  Next adds the one transition that the code    *)
(* makes and the docstring does not have.                                  *)
(***************************************************************************)

CONSTANT Jobs

VARIABLE phase    \* phase[j]: what GET /jobs/{job_id} reports about job j

JobStatuses == {"queued", "running", "done", "failed", "cancelled"}
TerminalStatuses == {"done", "failed", "cancelled"}
LiveStatuses == JobStatuses \ TerminalStatuses

\* "absent": the row does not exist yet, or was deleted.
Phases == JobStatuses \cup {"absent"}

TypeOK == phase \in [Jobs -> Phases]

Init == phase = [j \in Jobs |-> "absent"]

Becomes(j, s) == phase' = [phase EXCEPT ![j] = s]

Create(j) == phase[j] = "absent" /\ Becomes(j, "queued")
Start(j)  == phase[j] = "queued" /\ Becomes(j, "running")
Finish(j) == phase[j] = "running" /\ Becomes(j, "done")
Fail(j)   == phase[j] = "running" /\ Becomes(j, "failed")
Cancel(j) == phase[j] \in LiveStatuses /\ Becomes(j, "cancelled")
Remove(j) == phase[j] # "absent" /\ Becomes(j, "absent")

\* In no drawing and no comment: start_job itself raised, and the WHERE
\* clause of fail_job, which names the terminal statuses only, takes the
\* queued row.
FailUnstarted(j) == phase[j] = "queued" /\ Becomes(j, "failed")

Drawn == \E j \in Jobs :
           Create(j) \/ Start(j) \/ Finish(j) \/ Fail(j) \/ Cancel(j) \/ Remove(j)

Next == Drawn \/ \E j \in Jobs : FailUnstarted(j)

Spec == Init /\ [][Next]_phase

DrawnSpec == Init /\ [][Drawn]_phase
=============================================================================
