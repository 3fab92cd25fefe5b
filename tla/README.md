# Verification of the agent platform

This directory holds TLA+ models of the parts of the platform where several
processes, threads, messages or retries meet, the TLC runs that check them on
small instances, and proofs, checked by TLAPS, of the results that matter most.
Paths below are relative to the repository; `api` stands for `apps/api/app`.

    tlc -workers 2 -config ChatJobStream_follow.cfg MCChatJobStream
    tlapm ChatJobsProofs.tla

## The system

A tenant's message enters through the API (`apps/api`), is answered by a
command line agent (Claude Code, Codex, Gemini, ...) run by the code worker
(`apps/code-worker`) under Temporal, and reaches clients (web, desktop, CLI,
WhatsApp) through rows in Postgres, polled or pushed over server-sent events
with Redis as the fan-out.  The parts, the state each keeps, and what is hard
about it:

| Part | State | Operations | Hard because |
|---|---|---|---|
| Chat jobs (`api/services/chat_jobs.py`, `api/api/v1/chat.py`) | rows `chat_jobs`, `chat_job_events`; one daemon thread per job | create, run, cancel, purge | thread, cancel endpoint, process death and cascading deletes commit separately |
| Job event stream (`chat.py` generator, `apps/web/src/services/chat.js`) | generator position, client's `lastSeq` | poll, yield, time out, reconnect | log and row are read by different transactions; responses are cut anywhere |
| Numbered logs (`append_event`, `publish_session_event`) | `(key, seq)` rows, an advisory lock | lock, MAX+1, insert, commit | concurrent writers, rollbacks, pollers |
| Session events v2 (`api/services/collaboration_events.py`, `api/api/v2/session_events.py`, `apps/web/.../useV2SessionEvents.js`) | `session_events`, Redis channel, the hook's cursor, window and dedupe set | publish, replay, tail, reconnect, rebind | lossy, reordered fan-out beside a replay with a page limit |
| Worker's event emitter (`apps/code-worker/session_event_emitter.py`, `api/api/v2/internal_session_stream.py`) | unbounded queue, flusher thread, requests at the endpoint | emit, flush, post, publish, close | back-pressure, batches given up, close during a flush |
| CLI fallback (`packages/cli_orchestrator`) | position in the chain, attempt, carried hint | preflight, run, decide, finalise | many exits that must all report the whole walk |
| CLI resolver, cooldowns and router (`api/services/cli_platform_resolver.py`, `agent_router.py`) | cooldown keys in Redis, a dict and a Redis client per process | select, resolve, attempt, mark, expire | Redis comes and goes; replicas disagree; chains are reused |
| Plan runtime (`api/services/plan_service.py`, `api/api/v1/plans.py`) | plan status, current step, step states, budgets | start, advance, fail, retry, fall back, pause, resume, patch | jumps, retries and budgets interact over long histories; nothing is locked |
| Reviews (`api/services/review_service.py`, `review_dispatch.py`, `api/workflows/review_workflow.py`) | review row, audit trail on a blackboard, Temporal history | start, record, close a round, reply | unlocked read-modify-write by retried activities |
| Collaboration (`api/services/collaboration_service.py`, `blackboard_service.py`, `api/workflows/coalition_workflow.py`) | session phase and round, versioned blackboard | prepare, contribute, advance, finalise | two commits per contribution inside retried activities |
| External agents (`api/services/external_agent_reliability.py`) | failure counter and breaker key in Redis, status column with its row lock | call, retry, count, trip, mark, fall back | concurrent callers share keys and rows with their own lifetimes |
| Dynamic workflows, agent dispatch | Temporal history, rows | | durable timers and retries |
| Memory, learning, emotion, safety, credentials, MCP tools, clients, UI, deployment | | | data processing or input/output; `PROJECT.json` gives the reason for each |

How they interact.  `POST /messages/start` creates a *chat job* and a thread;
the thread calls the router, which resolves a *chain* of CLI platforms and
walks it with the *executor*; the thread appends to the job's *numbered log*;
the *job stream* polls that log and the job's row.  The router, the workers
(through the *emitter*) and *collaborations* publish *session events*, a second
numbered log with a Redis fan-out.  *Plans* keep the score
for agents that report their steps; *reviews* and *coalitions* are Temporal
workflows whose activities write rows; *external agents* are called through
the reliability shim.

What makes each part correct:

- a job's row and log tell one story (but for a job cancelled while queued
  whose thread then raises); a terminal status is final; a cancel of a queued
  job costs nothing; jobs settle;
- a follower renders each event once, in order, and learns the outcome;
- numbers are unique and gapless, and a poller that keeps a cursor misses
  nothing;
- what a panel shows is stored, and never listed twice; what a live response
  lacks was cut off by the page, lost by Redis, or came before it subscribed;
- a request costs a bounded number of CLI runs, the policy table is obeyed,
  and what the user must repair is reported;
- a thread's output reaches the log once and in order, unless its batch is given
  up, which is counted, or cannot be published;
- a cooled platform is left alone, and one failure does not burn every quota;
- an executing plan has exactly one running step and stays within its budget;
- a review's round closes once, and its vote is of its own reports;
- a coalition visits its phases in order, and ends;
- a breaker is open exactly for agents that keep failing, and every call ends.

## The modules

    JobLifecycle <--implements-- ChatJobs <--extends-- ChatJobStream
    AppendOnlyLog <--implements-- EventLog <--extends, implements-- StreamEmitter
    Collaboration <--extends-- CoalitionWorkflow
    SessionEvents   CliExecutor   CliRouting   PlanRuntime   ReviewRounds   ExternalCalls

`ChatJobs` and `SessionEvents` append to their logs in one step: `EventLog` is
the reason why they may.  `CliRouting` shows that the chains it hands out are
the chains that `CliExecutor` is checked and proved on.

| Module | Models | One action is |
|---|---|---|
| `JobLifecycle` | the state machine in the docstring of `chat_jobs.py`, and the transition it lacks | a move of a job's status |
| `ChatJobs` | `/messages/start`, `_run_job`, cancel, purge, cascades, process death | one committed transaction, or one read, of one thread |
| `ChatJobStream` | the generator of `/jobs/{id}/events` and `subscribeJob` | one read, one frame, one connection event |
| `AppendOnlyLog` | what a numbered log promises | an append |
| `EventLog` | advisory lock, `MAX + 1`, insert, commit, rollback, polling | one SQL statement |
| `StreamEmitter` | `emit_chunk`, `_run`, `_flush_once`, `_post_batch`, `close`, and the endpoint's loop | one queue operation, one request, one statement of a handler |
| `SessionEvents` | publish, SSE replay and tail, the web hook | one commit, one publish, one frame |
| `CliExecutor` | `ResilientExecutor.execute` and `policy.decide` | one preflight, one run, one return |
| `CliRouting` | selection, `resolve_cli_chain`, cooldown store, the legacy walk | one Redis access, one attempt |
| `PlanRuntime` | every operation of `plan_service.py` that moves a plan | a read of the plan, a read of its steps, or a commit |
| `ReviewRounds` | start, record, close, reply; the workflow's branches | one transaction, one activity event |
| `Collaboration` | `create_session`, `advance_phase` | one of its two transactions |
| `CoalitionWorkflow` | the workflow, its activities and their attempts | one activity, attempt or fault |
| `ExternalCalls` | `external_agent_call`, its callers, Postgres row locks | one Redis command, dispatch or flush |

`MC*` modules give the constants small values, `*Proofs` modules hold the
theorems.

**ChatJobs.**  `status` and `cancelRequested` are the columns, `log[j]` the
event rows by `seq`, `messages` what the turn has committed to the transcript,
`pc` the statement of `_run_job` the thread is at, and `broken` whether the
thread's SQLAlchemy session is in an aborted transaction.  Each helper of
`chat_jobs.py` is an operator with the helper's name; guarded UPDATEs become
`SetStatus` with the WHERE clause as an argument.  `Raise` lets any statement
of the try block fail, with or without leaving the session unusable, because
nothing in `_run_job` rolls back.  `DeleteSession` is the cascade from the chat
session, which may remove the row under a running thread; the next append then
violates the foreign key.

**ChatJobStream** extends it with the follower.  The generator's two reads (the
log, then the row) are separate actions: the worker moves between them.  A
frame is delivered when it is yielded or never, because frames of one response
arrive in order and a cut loses a suffix.

**EventLog** refines one append into lock, number, insert, commit.  Postgres'
uniqueness check is modelled as it blocks (an uncommitted row with the same
key) and as it fails, so that the module can show the lock is what prevents a
conflict.

**StreamEmitter** extends it with the code worker and the endpoint.  `queue`,
`flusher` (its place, batch, the chunk that did not fit, and whether this is
the last pass) and `closer` are the emitter's fields; `request[w]` is what
handler `w` of the endpoint has still to publish, through the actions of
`EventLog`; `stored` remembers which chunk is in which row.  `emit_chunk`'s
test and its put are two steps.  `PostFails` is any error, the two-second
timeout included: the batch is given up while its handler goes on.  `failed`
collects the chunks of such batches, whose loss shows in the counter
`http_errors` and seldom in a warning (`session_event_emitter.py:310`), and
those the endpoint could not publish.  Left out: the other counters, the single-chunk form of the endpoint, the fan-out (`SessionEvents`),
and the mode in which the emitter does nothing.

**SessionEvents** lets `publish_session_event` commit, then publish outside the
lock, or lose the publish.  The generator replays one page, subscribes to Redis
only after the replay was consumed, then tails.  The hook deduplicates by event
within the window it keeps.  `shown` counts how often an event entered the
panel, `gap` collects what was fanned out between a replay query and its
subscription.

**CliExecutor** walks one request's chain.  Adapters are the environment: any
preflight may fail, any run may end in any status.  `seen` records every
outcome, so that properties can speak of the whole walk; `hooks` are the
webhook events sent.

**CliRouting** has one turn per process.  `cool` is the Redis keys, `local[c]`
the dict of process `c`, `client[c]` its Redis client, which is built once and
never again after a failure.  `Select` is the router's choice (pin, default,
exploration) with the chain of the pin probe that it may reuse; `Dispatch`
resolves; `Attempt` tries the next platform and marks it.  Classes of failures
that the walk treats alike are one outcome.  Left out: the greeting and local
paths, which call no CLI, the summary that is attached to the answer, and what
the router does when the resolver or its probe raises
(`agent_router.py:878-883, 1179-1186`: the chosen platform alone, without a
floor), as `resolve_cli_chain` catches its own errors.

**PlanRuntime** models each call as the three steps that others can get
between: the plan is read, then its steps, and the commit writes the columns
that the call changed (`Written`), over whatever has happened since.  `Outcome`
is what the call computes.  `raced` records that a commit did not do what its
call alone would have done; most properties are about histories without.

**ReviewRounds** models `record_cli_findings` in its read, its two commits and
the acknowledgement of its activity, any of which may fail and be retried
(`maximum_attempts = 3`).  An attempt that is timed out after 60 seconds may run
on: `rec[w][c]` has the attempt the branch waits for, `"ours"`, and one `"stray"`
that it has given up on, and both take the same steps.  The entry in the trail
is best effort (`AppendLost`).  Slots, rounds and the vote follow the code; a
finding is a member of a small set, after clustering; `per_cli` and `last_round`
are written together, as parts of the JSON column `findings`.  `overlap`,
`crossed`, `beside` and `undelivered` record what the code cannot prevent: two
writes over one another, a reply while CLIs are out, an attempt that searches
the trail while another of its branch is about to append, a child that was not
started.

**Collaboration** and **CoalitionWorkflow**.  `Post` is `advance_phase` up to
the commit of `add_entry`, `Advance` the second transaction, which reads the
session again.  The workflow prepares a step, lets the CLI write, records with
an activity whose attempts may die, run on after their timeout, or commit
unheard; and an outsider may contribute through the endpoint.

**ExternalCalls.**  `fails` and `breaker` are the two Redis keys; `status`,
`lock` and `sess` are the column as committed, who holds its row, and what each
session believes, because SQLAlchemy flushes a status only when it differs from
the loaded one.  A caller is an HTTP request, which commits at the end, or an
activity, which does not.  Loading a credential commits in the middle, after
which the agent is read again.  A cycle of lock waits is broken by the database;
the victim's session stays unusable, so that the handler of the attempt, which
reads `agent.id`, raises out of the call (`external_agent_reliability.py:222-225`).
A row of the call log may not be written, which the code swallows; `missing`
counts those.  `Overwrite` is PUT and the health check, which write the status
whatever the breaker says; `rewritten` marks a row that they wrote after the
calls did, `lost` an agent of which a mark was lost.  Left out: a database that
fails in other ways, and what PUT and DELETE do to the rest of an agent.

## The runs

| Run | Shows | Instance |
|---|---|---|
| `job_documented` (violation) | a job whose `start_job` raised goes from queued to failed, which the docstring rules out | one job |
| `job_cancel_race` (violation) | a cancel accepted after the last check is answered by `done` | one job |
| `stream_follow` | log and row agree; thread exits settle rows; queued cancels cost nothing; the rows implement `JobLifecycle`; jobs settle; rendered events are a prefix of the log; the terminal frame stays true; a follower of a settled job is told | one job with all faults, two poll iterations per response |
| `stream_emitter` | chunks once and in order; nothing left behind by the last pass; the queue bounded; no conflict, no missed row; implements `AppendOnlyLog` | two threads, three chunks, two handlers, another writer, a reader (2.7 M states) |
| `session_delivery` | shown events are stored and never listed twice; what a live response lacks has one of three causes | two publishers, four events, a page of two and a window of three |
| `session_recover` (violation) | a lost fan-out below the cursor is never recovered | three events |
| `cli_walk` | the walk follows the policy table; what the user must repair is reported; webhooks tell the walk | chains up to three of four platforms, one without an adapter |
| `cli_routing` | marked platforms are skipped; a failure that stops the walk costs one quota; only earned marks | two processes, two paid platforms and the floor, two turns (2.0 M) |
| `plan_runtime` | one step runs; the budget holds; failing agents are told to stop; two reports count once | three steps, seven calls, one overlap |
| `review_rounds` | rounds are counted once; at most one entry per round; the vote is of this round; rounds end | two CLIs, two rounds, a reply or three faults, one stray attempt (0.3 M) |
| `coalition` | phases are passed with entries, entries are in their phase, a report means completion, coalitions end | four phases, three agents, two attempts at once, one outsider (0.6 M) |
| `external_calls` | the breaker opens only and always when earned; open means hidden, until another endpoint writes the row; answers and log rows tell the call; calls return | an endpoint and an activity, two agents that fall back on each other; three of calls, dead callers, lost log rows and rewrites (0.7 M) |

### Bounds, and why they are enough

- *One job.*  Jobs share only the process: `ProcessDies` stops all threads at
  once.  Every other action reads and writes one job, and the proof covers any
  set of jobs.
- *`MaxIters = 2`* (600 in the code): a response that finds news, one that does
  not, and one that times out.  A job logs at most five events, so the page
  limit of `read_events` never cuts.
- *Emitter:* two chunks of a droppable kind and one that is never dropped, a
  high-water mark of 0 (1000 in the code) and batches of two (32), so that
  dropping, a full batch and a chunk that did not fit all happen; one fault;
  three rows: one holder of the lock, one waiter, one more to overtake.
- *Four session events*: one shown, one lost, one overtaking, one after a
  reconnect.  A page of two (500 in the code) is cut, a window of three (200) is
  trimmed and still long enough for a double to show.  `session_recover` has
  page and window as long as its session: its trace needs no cut.
- *Chains of three*: a first platform, a next one, and opencode; that the
  resolver never repeats a platform, and puts opencode last, or first when the
  tenant chose it, is `ChainsAreResolvable`.
- *Two processes and two turns* are enough for a mark made by one to be seen,
  or not, by the other; marks outlive turns, and the proof covers any number.
- *Seven calls on three steps* reach a retry, a fallback, its exhaustion and a
  budget pause with resumption in one history; `Fallback` is a chain, because
  `FailuresAreBounded` is about fallbacks without circles (`FallbacksEnd`).
- *One overlap* in `plan_runtime`: two calls at once is what the properties
  distinguish.
- *Reviews:* two CLIs are a quorum of two and a slot to lose; a reply counts
  for three faults, so that either happens in full but not both; an attempt that
  runs on counts for two, and leaves one for it or its retry.
- *Coalition:* two workers let an attempt run on beside its retry; two faults
  make a retry fail as well.
- *External calls:* a threshold of 2 (5 in the code) and two attempts (3).  One
  caller commits and the other does not, one agent has a credential and the
  other does not.  A rewrite sets `online`, the status that matters most to a
  breaker and to the comparison in `_mark_online`; the proofs are for all of them.

`CHECK_DEADLOCK FALSE` stands where the system really stops: every job is
settled or dead, every follower has ended, the request is answered, or a bound
is reached.  No run has a type invariant: every one of them is proved.

### Fairness

`ChatJobs` assumes weak fairness of the dispatch and of a started thread's own
steps, which the operating system provides; a client need not cancel, a
statement need not fail, a process need not die.  `JobsSettle` therefore
excludes a dead process and an unusable session by name.  `ChatJobStream` adds
that the client's reconnect timer fires and the server runs its generators
(weak), and that the network does not cut every response at the very same
point (strong, for the four generator steps).  `ReviewRounds` and
`CoalitionWorkflow` assume weak fairness of the whole of Temporal's and the
workers' own steps: a durable workflow goes on as long as it can.  Nobody has
to reply, to contribute or to fail.  `ExternalCalls` assumes that some call
goes on as long as one can: threads run, and the database breaks deadlocks; the
calls are finite in number, so this is enough for each to return.

## What is proved

All theorems are for arbitrary sets of jobs, writers, processes, callers,
agents, steps and platforms, and arbitrary bounds.  Nothing is assumed beyond
what the modules assume of their constants (`None` is not a writer, the chains
come from finite sequences, the threads of a CLI are finite in number, ...).

| Module | Theorems |
|---|---|
| `ChatJobsProofs` | `ChatJobsInvariant`, `TypeCorrect`, `OutcomesAreLogged`, `ExitsSettle`, `RowsImplementLifecycle`, `TerminalStatusesStay`, `QueuedCancelCostsNothing`; `StreamInvariant`, `StreamTypeCorrect`, `FollowersRenderPrefixes`, `OutcomesToldStay` |
| `EmitterProofs` | of `EventLog`: `EventLogInvariant`, `AppendsNeverConflict`, `NumbersAreGapless`, `PollersMissNothing`, `EventLogImplementsLog`; of `StreamEmitter`: `EmitterKeepsLog`, `SharedLogIsSound`, `EmitterInvariant`, `EmitterTypeCorrect`, `OutputStaysInOrder`, `LastPassLeavesNothing`, `BackPressure` |
| `SessionEventsProofs` | `SessionInvariant`, `TypeCorrect`, `ShownEventsAreStored`, `PanelHasNoDoubles`, `MissesAreExplained` |
| `CliExecutorProofs` | `WalkInvariant`, `TypeCorrect`, `RequestsAreBounded`, `TableIsFollowed`, `UserIsTold`, `WebhooksTellTheWalk` |
| `CliRoutingProofs` | `RoutingInvariant`, `TypeCorrect`, `ChainsAreResolvable`, `CooledPlatformsAreSkipped`, `WalksAreContained`, `OnlyEarnedMarks` |
| `PlanRuntimeProofs` | `PlanInvariant`, `TypeCorrect`, `OnlyCurrentStepRuns`, `BudgetIsNeverOverspent`, `OverlapInvariant`, `SecondReportChangesNothing`, `FailuresEndThePlan` |
| `BlackboardProofs` | of `ReviewRounds`: `ReviewInvariant`, `ReviewTypeCorrect`, `RoundsAreCounted`, `TrailHasNoDoubles`, `VoteIsTrue`; of `CoalitionWorkflow`: `CoalitionInvariant`, `CoalitionTypeCorrect`, `PhasesHaveEntries`, `ContributionsInTheirPhase`, `ReportsAreOfCompleted`, `CompletedForever` |
| `ExternalCallsProofs` | `BreakerInvariant`, `TypeCorrect`, `BreakersAreEarned`, `EnoughFailuresTrip`, `RegistryInvariant`, `OpenAgentsAreHidden`, `LogIsTruthful` |

*ChatJobs.*  `LogMatchesStatus` is not inductive: it does not say where the
thread is, and a thread that is about to append "done" to an already failed
job would break it.  `IInv` adds, per job, `StatusAt` (the statuses possible at
each statement), `LogAt` (the log at each statement on the way), `CancelledLog`
(what the log of a job about to acknowledge a cancel can be) and
`OutcomeLogged`.  Every
action touches one job, except process death, so `OtherJobs` and
`SameJobKeepsInv` reduce preservation to the job that moves, and one lemma per
group of actions (row updates, appends, thread moves, outside interference)
deals with it.

*ChatJobStream.*  The follower's invariant is over that of the jobs: what it
has got, followed by what the generator has read and not yet yielded, is a
prefix of the log, and a log only grows until its row is gone for good.  A
frame read from the row is terminal, and terminal rows stay.

*EventLog.*  The invariant ties a transaction's progress to the lock: only the
holder is past `AcquireLock`, and the number it holds is one above the
committed maximum.  Uniqueness, gaplessness and the refinement follow.

*StreamEmitter.*  Every step is a step of `EventLog` or leaves it alone, so
`EmitterKeepsLog` carries all of the above over.  For the chunks, what the
worker holds is one `Line` (batch, the chunk too many, queue): a pass of the
flusher only moves its borders, a request takes a prefix away, a put appends.
`OrderInv` says that log, requests and line follow each other in the order of
their threads; it needs that at most one handler has work while no batch was
given up at work (`OneAtWork`) and that every chunk on its way is older than
the one its thread is about to put (`Known`).  `TimelyInv` accounts for each
chunk queued before the stop, and knows that after the last pass's last batch
only late ones can be in the queue.  `PressureInv` counts droppable chunks in
the queue together with the threads that are past the test.

*SessionEvents.*  Whatever is under way to the panel is in the table; the dedupe
set is exactly what the list holds, through every trim; of what a response may
owe its client, each event is shown, in the batch, queued, or recorded as lost
or in the gap (`Tracked`).  No bound on page or window is assumed.

*CliExecutor.*  Wherever the walk stands, the last outcome was at this
platform, transient and its first, or at the one before and let the walk leave
it; and at most two outcomes were used up per platform.  For `UserIsTold`, the
hint of a login, trust or API failure is carried along the chain until the
walk ends; only opencode itself may overwrite it.  This needs opencode at the
end of the chain or in front (`FloorAssumption`), which is how
`resolve_cli_chain` builds chains: `ChainsAreResolvable` of `CliRouting` proves
it of that function.  The webhooks are counted against the outcomes as
cardinalities of sets of positions.  An outcome enlarges the set of failures by
at most one position; whether it enlarges the set of departures shows in the
position of the walk (`OutcomesGrow`), and each way out of the walk sends one
terminal event after all others (`Closing`).

*CliRouting.*  While Redis does not come or go, all processes agree on where
marks live, so a turn sees every mark it must respect when its chain is
resolved; what it has tried is a prefix of that chain.

*PlanRuntime.*  A commit that did not race changed nothing, or made of the rows
what its call alone would have made of them (`Written` of unchanged columns),
so the invariants need to hold of one call at a time.  For two reports of one
step, what a call has read is compared with the tables: after the first report,
they are what the second would make of its own reading (`Informed`), and making
that once more changes nothing (`AdvanceTwice`).  It holds only if the first
report had read what was in the tables when it was committed; if not, the two
start from different steps, which is why `since` is labelled as it is.
`FailuresAreBounded` needs a measure: with a rank that every fallback lowers,
the failures so far have used up the steps above the current one, and some
attempts of the current one (`RetriesInv`, for every such rank at once, as the
property only says that one exists).  Without that premise, `FallbacksEnd`, it
is false: steps that fall back on each other get fresh attempts in every circle.

*ExternalCalls.*  The counter never exceeds the run of failures since a
success; whoever is about to open the breaker saw the threshold; a success that
deletes the keys under such a caller is what `raced` records.  Types need that
a lock is only held on rows that the session has loaded.  `TellInv` adds what the
session will make of the registry's row when it commits (`OpenIsHidden`), unless
a mark was lost or the free row was rewritten (`Excused`), and that a call's log
and its missing rows are of the agents tried so far, while a session fails only
where its call ends (`LogOK`).

*ReviewRounds.*  The properties hold as long as no two operations overlap, or no
reply overtakes the CLIs of its round, and the invariant says why.  Without an
overlap, whoever is about to write has read what the row holds (`ViewsFresh`),
so that the UPDATE, which writes only the columns that changed, makes of the
row what the operation alone would (`ColumnsFacts`).  Without a crossing, only
the branches of the last workflow are out (`OneRoundOut`), and as long as a
retry does not search the trail beside the attempt it replaces (`beside`), one
attempt of a branch at a time is about to append, and only where no entry is.
`RoundsCountedOnce` is inductive with the first, `OneEntryPerRound` with the
second; the vote needs both, that a stray writes the report of its branch
(`StraysFollow`), that no report was given up, and that the slots are the reports of the round's own
CLIs so far (`SlotsTally`).  A review
without CLIs (`no_clis` in the code) stays running: the theorems cover it, and
`RoundEnds` is checked with two.

*CoalitionWorkflow.*  `EveryPhaseHasEntry` is not inductive, because a
contribution commits its entry before it advances the session: `CallEntered`
says that a call between the two has seen its own phase entered, in the round
it will advance.  `ReportMeansCompleted` needs that each recorded step has
taken the session beyond the workflow's own round (`StepsFurther`), through
retries and attempts whose answer was lost.  `ContributionInItsPhase` needs that
the session is at the phase that the attempts under way are for, or where their
agent is refused (`SessionOnTrack`, `StepAt`).  That is what its premise
`OwnPhases` is for: no phase accepts the agent of another, except the first.  It
is not enough that neighbouring phases have different agents.  An attempt that
runs on past its timeout can set a session with phases of `x, y, x, y` back to
the earlier phase of the same agent, which then takes the later contribution.
All patterns but `debate_resolve` meet the premise.

Only model-checked: liveness (`JobsSettle`, `FollowerLearnsOutcome`,
`RoundEnds`, `CoalitionEnds`, `CallsReturn`), which is out of the prover's
reach, as are `ENABLED` and induction over data.  Every invariant and action
property of the passing runs is proved.

## What the models say about the code

Checked as violations:

- `job_cancel_race`: the comment at `chat.py:650` argues that `observe_cancel`
  makes `finish_job` a no-op when a cancel got there first.  Only the worker
  calls `observe_cancel`, and it is past its last check.
- `job_documented`: the docstring of `chat_jobs.py` (lines 11, 26-34, 202) lets
  only a running job fail; the WHERE clause of `fail_job` names only the
  terminal statuses, and `_run_job` calls it when `start_job` itself raised.
  `LifecycleSpec` is therefore about the docstring's machine with
  `FailUnstarted` added, and `DocumentedLifecycle` about the one as drawn.
- `session_recover`: the hook's cursor is a maximum, so it steps over a lost
  event, which no reconnect asks for again.

Seen in the models, where the properties name the case they exclude:

- Jobs: a job cancelled while queued is cancelled before its thread logs
  anything; if that thread then raises, in `start_job` or while it acknowledges
  the cancel, the log ends in `error` though the row says cancelled
  (`LogMatchesStatus` lists the two such logs).  Nothing settles the row of a thread that died with its process, though
  migration 137 calls the row the single source of truth for whether a
  generation is alive.  The stream drains the log, then reads the row; an
  answer and a status written between the two reads make it send `done` without
  the answer (`chat.py:802-818`).
- Session events: a session longer than the 500-row page loses everything after
  the page to the cursor, once a live event moves it.  What is published between
  the replay query and the subscription reaches nobody.  An event that was
  replayed and trimmed is added to the panel again, out of order, by its late
  fan-out; the hook's comment on the rebuilt dedupe set
  (`useV2SessionEvents.js:137-141`) considers only a reconnect's replay.
- Emitter: a batch given up after two seconds while its handler is publishing
  lets the chunks of the next batch in between, and nothing is ever retried
  (`internal_session_stream.py:22-25` says that replay reconstructs the order
  even across retries).  Kinds that are never dropped leave the queue unbounded.  A batch
  taken after `close()` stopped waiting is lost uncounted, and chunks queued
  after the last pass stay behind.  The endpoint answers 200 when every publish
  failed.  Executors that return early on an HTTP error do not close their
  emitter (`deepseek.py:262-274`).
- Executor: an answer after retries or fallbacks keeps the adapter's own attempt
  count (`executor.py:575`); an unknown failure that follows a timeout on the
  same platform is not retried, because all statuses share one attempt counter.
- Router: the summary's reason is that of the first failure, even if the
  requested platform was not tried (`agent_router.py:1283-1292`; read, not
  modelled).
- Plans: fallbacks that form a cycle never stop (`plan_service.py:680`).  PATCH
  to executing after a budget pause runs a completed step again; a plain resume
  after a budget pause on the last step finds no step.  A PATCH that raises the
  budget and restarts at once is not applied.
- Reviews: two records that overlap may lose a slot, and the review stays
  running (`review_service.py:597`).  An attempt that runs on after its timeout
  and its retry may both find no entry in the trail and both append one
  (`review_service.py:557-570`): the check there helps against a retry after the
  commit, not beside it.
- Coalitions: two overlapping contributions to `revise` complete the session
  with `verify` skipped (`collaboration_service.py:227-247`).  An agent in two
  roles is known by its first only (`coalition_activities.py:181`), so a team of
  one fails at the second phase.  In `debate_resolve`, whose second phase also
  accepts the proposing agent, a retried proposal can be taken as the debate.  If
  the last result is lost after the session completed, it is never reported.
- External agents: a success that deletes the keys between another caller's
  count and its opening leaves the breaker open for an agent that just answered;
  the docstring (`external_agent_reliability.py:30-32`) and the comment at line
  123 say that SET NX prevents this.  Marking an agent online may be aborted in a
  deadlock after the agent has carried out the task: the caller is told of an
  error, and the log has no row.  An agent whose breaker is open is offered again
  when the health check finds it answering, when PUT says so, when the transaction
  that marked it is rolled back, as an activity's always is, or when the mark is
  compared with a status read before another caller changed it
  (`external_agent_reliability.py:313`).

## Not modelled, and why

`PROJECT.json` lists every part with its reason.  In short: parts whose
behaviour is data (memory search, learning statistics, emotion and safety
scores), pure input/output (CLI subprocesses, MCP tools, file quotas, UI,
deployment), cryptography and credentials, and `SessionManager`, which no code
path uses.  These are by far the most of the repository's 155,000 lines, so the
share of lines that the models map is small; what they cover is where steps of
several actors meet.  `workflows.py` of the code worker and the workflow
templates, the largest files, are subprocess calls and prompt tables.  Dynamic
workflows interpret user-defined step graphs, whose properties are those of the
graph.

Inside the modelled parts: the older synchronous chat handlers, the JSON replay
of session events, the choice of a coalition's team, superseding and resolving
blackboard entries, `POST /record` of reviews, metrics, and logging.

## Plan

Done: the modules above, in the order chat jobs and their stream, numbered
logs, session events, executor, reviews, external calls, routing, plans,
coalitions, emitter; and the proofs of all their safety properties.

Left: the composition of
`SessionEvents` with `StreamEmitter`, whose product is beyond TLC at the bounds
at which either is interesting; refresh-token rotation and Temporal's own
dispatch, as components of their own.
