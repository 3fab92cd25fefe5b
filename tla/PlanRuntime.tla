---------------------------- MODULE PlanRuntime ----------------------------
(***************************************************************************)
(* plan_service: a plan of numbered steps is started, advanced, failed,    *)
(* retried, diverted to fallback steps, paused by its budget and resumed,  *)
(* all by calls of agents and people.  A call reads the plan's row, then   *)
(* its steps, decides, and commits: nothing is locked, and a commit writes *)
(* the columns whose value it changed, over whatever has happened since.   *)
(***************************************************************************)
EXTENDS Naturals, FiniteSets

CONSTANTS
  Callers,      \* sessions that may overlap
  LastStep,     \* steps are numbered from 0
  NoStep,       \* no fallback, or a fallback to a step that does not exist
  Fallback,     \* Fallback[i]: fallback_step_index of step i
  MaxAttempts,  \* max_attempts of retry_policy
  Budgets,      \* values of budget_max_actions
  PatchTo,      \* statuses that PATCH requests ask for
  MaxCalls,     \* bound: calls made
  MaxOverlaps   \* bound: calls begun while another is under way

Steps == 0 .. LastStep

ASSUME PlanAssumption ==
  /\ LastStep \in Nat /\ MaxAttempts \in Nat /\ MaxCalls \in Nat /\ MaxOverlaps \in Nat
  /\ NoStep \notin Nat
  /\ Fallback \in [Steps -> Steps \cup {NoStep}]
  /\ Budgets \subseteq Nat

Statuses == {"draft", "approved", "executing", "paused", "completed", "failed", "cancelled"}
Asks == (PatchTo \cap Statuses) \cup {"keep"}

VARIABLES
  plan,      \* row of plans: status, index, used, max; over: another limit is reached
  steps,     \* rows of plan_steps: status, and _attempts of the retry policy
  call,      \* call[c]: the call that session c is serving, and the rows it has read
  calls,     \* calls made so far
  overlaps,  \* of these, calls begun while another was under way
  raced,     \* history: a commit came out differently than the call would alone
  jumped,    \* history: resumed at a chosen step while another was running
  forced,    \* history: set to executing by PATCH when its step could not start
  failures,  \* history: transient failures reported, one after the other, since
             \* a step completed or the plan was set to executing
  peak       \* history: the largest action budget ever given

vars == <<plan, steps, call, calls, overlaps, raced, jumped, forced, failures, peak>>
history == <<raced, jumped, forced, failures, peak>>

Idle == [pc |-> "idle"]

Init ==
  /\ \E b \in Budgets :
       plan = [status |-> "draft", index |-> 0, used |-> 0, max |-> b, over |-> FALSE]
  /\ steps = [i \in Steps |-> [status |-> "pending", attempts |-> 0]]
  /\ call = [c \in Callers |-> Idle]
  /\ calls = 0 /\ overlaps = 0
  /\ raced = FALSE /\ jumped = FALSE /\ forced = FALSE
  /\ failures = 0 /\ peak = plan.max

-----------------------------------------------------------------------------
(* What each call makes of the rows it has read                            *)

Rows(p, s) == [plan |-> p, steps |-> s]

\* check_budget: the action budget, or one of the other two limits.
Exceeded(p) == p.used >= p.max \/ p.over

Start(s, i) == [s EXCEPT ![i].status = "running"]
Restart(s, i) == [s EXCEPT ![i] = [status |-> "running", attempts |-> 0]]
FailStep(s, i) == [s EXCEPT ![i].status = "failed"]

\* update_plan: going to executing needs budget, and starts a pending step;
\* when the budget is exceeded the rest of the request is dropped.  op.lift:
\* the request raises the other limits.
Patch(p, s, op) ==
  LET starts == op.status = "executing" /\ p.status # "executing"
  IN  IF starts /\ Exceeded(p)
        THEN Rows([p EXCEPT !.status = "paused"], s)
        ELSE Rows([p EXCEPT !.status = IF op.status = "keep" THEN @ ELSE op.status,
                            !.max = op.max, !.over = @ /\ ~op.lift],
                  IF starts /\ s[p.index].status = "pending" THEN Start(s, p.index) ELSE s)

\* Mutant of Advance: the budget is checked before the action is counted.
Advance_ChecksFirst(p, s) ==
  LET paid == [p EXCEPT !.used = @ + 1]
      done == [s EXCEPT ![p.index].status = "completed"]
  IN  CASE Exceeded(p) -> Rows([paid EXCEPT !.status = "paused"], done)
        [] ~Exceeded(p) /\ p.index < LastStep ->
             Rows([paid EXCEPT !.index = @ + 1], Start(done, p.index + 1))
        [] OTHER -> Rows([paid EXCEPT !.status = "completed"], done)

\* advance_step: one action is used; the budget decides before the next step.
Advance(p, s) ==
  LET paid == [p EXCEPT !.used = @ + 1]
      done == [s EXCEPT ![p.index].status = "completed"]
  IN  CASE Exceeded(paid) -> Rows([paid EXCEPT !.status = "paused"], done)
        [] ~Exceeded(paid) /\ p.index < LastStep ->
             Rows([paid EXCEPT !.index = @ + 1], Start(done, p.index + 1))
        [] OTHER -> Rows([paid EXCEPT !.status = "completed"], done)

\* fail_step, and a transient failure without retries or fallback left.
Fail(p, s) == Rows([p EXCEPT !.status = "failed"], FailStep(s, p.index))

\* handle_step_failure for missing_info, approvals and replanning.
Pause(p, s) == Rows([p EXCEPT !.status = "paused"], FailStep(s, p.index))

\* Mutant of Retry: the attempt is not recorded.
Retry_Uncounted(p, s) ==
  IF s[p.index].attempts < MaxAttempts THEN Rows(p, s)
  ELSE IF Fallback[p.index] = NoStep THEN Fail(p, s)
  ELSE Rows([p EXCEPT !.index = Fallback[p.index]],
            Restart(FailStep(s, p.index), Fallback[p.index]))

\* Mutant of Retry: the step that is left keeps running.
Retry_LeavesRunning(p, s) ==
  IF s[p.index].attempts < MaxAttempts THEN Rows(p, [s EXCEPT ![p.index].attempts = @ + 1])
  ELSE IF Fallback[p.index] = NoStep THEN Fail(p, s)
  ELSE Rows([p EXCEPT !.index = Fallback[p.index]], Restart(s, Fallback[p.index]))

\* handle_step_failure for a transient failure, with _apply_fallback.
Retry(p, s) ==
  IF s[p.index].attempts < MaxAttempts THEN Rows(p, [s EXCEPT ![p.index].attempts = @ + 1])
  ELSE IF Fallback[p.index] = NoStep THEN Fail(p, s)
  ELSE Rows([p EXCEPT !.index = Fallback[p.index]],
            Restart(FailStep(s, p.index), Fallback[p.index]))

\* resume_plan: the chosen step, or the current one, or the next one that is
\* pending or failed if the current one has completed.
ResumeStep(p, s, from) ==
  LET later == {i \in Steps : i > p.index /\ s[i].status \in {"pending", "failed"}}
  IN  IF from # NoStep THEN from
      ELSE IF s[p.index].status # "completed" THEN p.index
      ELSE IF later = {} THEN NoStep
      ELSE CHOOSE i \in later : \A k \in later : i <= k

Resume(p, s, op) ==
  LET i == ResumeStep(p, s, op.from)
  IN  IF i = NoStep \/ Exceeded(p) THEN Rows(p, s)
      ELSE Rows([p EXCEPT !.status = "executing", !.index = i], Restart(s, i))

\* record_step_cost, when it reaches the cost limit.
RecordCost(p, s) == Rows([p EXCEPT !.over = TRUE], s)

Outcome(op, p, s) ==
  CASE op.kind = "patch"   -> Patch(p, s, op)
    [] op.kind = "advance" -> Advance(p, s)
    [] op.kind = "fail"    -> Fail(p, s)
    [] op.kind = "retry"   -> Retry(p, s)
    [] op.kind = "pause"   -> Pause(p, s)
    [] op.kind = "resume"  -> Resume(p, s, op)
    [] op.kind = "cost"    -> RecordCost(p, s)

Reports == {"advance", "fail", "retry", "pause"}
Ops == [kind : {"patch"}, status : Asks, max : Budgets, lift : BOOLEAN]
         \cup [kind : {"resume"}, from : Steps \cup {NoStep}]
         \cup [kind : Reports \cup {"cost"}]

\* The statuses in which a call goes on after reading the plan.
Accepts(p, op) ==
  /\ op.kind \in Reports => p.status = "executing"
  /\ op.kind = "resume" => p.status \in {"paused", "failed"}

-----------------------------------------------------------------------------
(* Calls                                                                   *)

\* get_plan; a call that is refused returns at once.
ReadPlan(c, op) ==
  /\ call[c] = Idle /\ calls < MaxCalls
  /\ Accepts(plan, op)
  /\ call' = [call EXCEPT ![c] = [pc |-> "steps", op |-> op, plan |-> plan, since |-> "nothing"]]
  /\ calls' = calls + 1
  /\ overlaps' = IF \E d \in Callers : call[d] # Idle THEN overlaps + 1 ELSE overlaps
  /\ overlaps' <= MaxOverlaps
  /\ UNCHANGED <<plan, steps, history>>

ReadSteps(c) ==
  /\ call[c].pc = "steps"
  /\ call' = [call EXCEPT ![c] = [pc |-> "commit", op |-> call[c].op, plan |-> call[c].plan,
                                  since |-> call[c].since, steps |-> steps]]
  /\ UNCHANGED <<plan, steps, calls, overlaps, history>>

\* Mutant of Written: counters are incremented in the database.
Written_Increments(now, old, new) ==
  [k \in DOMAIN now |-> IF new[k] = old[k] THEN now[k]
                        ELSE IF k = "used" THEN now[k] + 1 ELSE new[k]]

\* The row after an UPDATE of the columns that the session changed.
Written(now, old, new) == [k \in DOMAIN now |-> IF new[k] = old[k] THEN now[k] ELSE new[k]]

\* Call c ends.  History: for each other call, what has been committed since it
\* began, if that was only one call, one that had read the same plan row, and
\* whose step rows nobody had changed since it read them.
Overlapped(c, kind) ==
  [d \in Callers |->
     IF d = c \/ call[d] = Idle THEN Idle
     ELSE [call[d] EXCEPT !.since =
            IF @ = "nothing" /\ call[d].plan = call[c].plan /\ call[c].steps = steps
              THEN kind ELSE "more"]]

Commit(c) ==
  /\ call[c].pc = "commit"
  /\ LET me    == call[c]
         made  == Outcome(me.op, me.plan, me.steps)
         alone == IF Accepts(plan, me.op) THEN Outcome(me.op, plan, steps) ELSE Rows(plan, steps)
     IN  /\ plan' = Written(plan, me.plan, made.plan)
         /\ steps' = [i \in Steps |-> Written(steps[i], me.steps[i], made.steps[i])]
         /\ call' = Overlapped(c, me.op.kind)
         /\ raced' = (raced \/ Rows(plan', steps') \notin {Rows(plan, steps), alone})
         /\ jumped' = (jumped \/ /\ me.op.kind = "resume" /\ plan'.status = "executing"
                                 /\ \E i \in Steps \ {plan'.index} : steps'[i].status = "running")
         /\ forced' = /\ forced \/ me.op.kind = "patch"
                      /\ plan'.status = "executing" /\ steps'[plan'.index].status # "running"
         /\ failures' = IF me.op.kind \in {"advance", "resume"} \/ plan.status # "executing" THEN 0
                        ELSE IF me.op.kind = "retry" /\ me.since = "nothing" THEN failures + 1
                        ELSE failures
         /\ peak' = IF plan'.max > peak THEN plan'.max ELSE peak
  /\ UNCHANGED <<calls, overlaps>>

Next == \E c \in Callers : ReadSteps(c) \/ Commit(c) \/ \E op \in Ops : ReadPlan(c, op)

Spec == Init /\ [][Next]_vars

-----------------------------------------------------------------------------
(* What must hold                                                          *)

TypeOK ==
  /\ plan \in [status : Statuses, index : Steps, used : Nat, max : Budgets, over : BOOLEAN]
  /\ steps \in [Steps -> [status : {"pending", "running", "completed", "failed"},
                          attempts : 0 .. MaxAttempts]]
  /\ \A c \in Callers : call[c].pc \in {"idle", "steps", "commit"}
  /\ calls \in 0 .. MaxCalls /\ overlaps \in 0 .. MaxOverlaps
  /\ raced \in BOOLEAN /\ jumped \in BOOLEAN /\ forced \in BOOLEAN
  /\ failures \in Nat /\ peak \in Nat

Running == {i \in Steps : steps[i].status = "running"}

\* Unless calls raced, only the current step is running, through retries,
\* fallback jumps, pauses and resumptions, as long as nobody resumes at a
\* chosen step past a running one; and a plan that is executing has its
\* current step running, unless PATCH set it to executing on a step that had
\* already ended.
OneStepRuns ==
  ~raced =>
    /\ ~jumped => Running \subseteq {plan.index}
    /\ plan.status = "executing" /\ ~forced => plan.index \in Running

\* Unless calls raced, every completed step was paid for, and no more actions
\* are used than the largest budget the plan was ever given: whatever way the
\* plan came to be executing, the budget was checked.
BudgetHolds ==
  ~raced => Cardinality({i \in Steps : steps[i].status = "completed"}) <= plan.used
              /\ plan.used <= peak

\* Fallbacks do not go in circles: they only go down, for some rank of the steps.
GoesDown(rank) == \A i \in Steps : Fallback[i] # NoStep => rank[Fallback[i]] < rank[i]
FallbacksEnd == \E rank \in [Steps -> Steps] : GoesDown(rank)

\* Unless calls raced, an agent that only reports transient failures is told to
\* give up: where fallbacks do not go in circles, every step on the way gets its
\* attempts once.
FailuresAreBounded ==
  FallbacksEnd /\ ~raced /\ plan.status = "executing"
    => failures < (LastStep + 1) * (MaxAttempts + 1)

\* Two overlapping reports of the same completed step, from the same state of
\* the plan, count as one: when the earlier commit found the steps as it had
\* read them, the later one changes nothing.
SecondReportIsIdle ==
  [][\A c \in Callers :
       call[c].pc = "commit" /\ call'[c] = Idle
         /\ call[c].op.kind = "advance" /\ call[c].since = "advance"
         => plan' = plan /\ steps' = steps]_vars
=============================================================================
