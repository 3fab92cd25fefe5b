------------------------- MODULE PlanRuntimeProofs -------------------------
(***************************************************************************)
(* PlanRuntime for any number of steps, sessions, attempts and budgets.    *)
(*                                                                         *)
(* The argument: a commit that did not race either changed nothing or made *)
(* of the rows what its call alone would have made of them, so that the    *)
(* invariants need to hold of one call at a time.  For two reports of one  *)
(* step: after the first, the tables are what the second would make of the *)
(* rows it has read, and making that once more changes nothing.            *)
(***************************************************************************)
EXTENDS PlanRuntime, FiniteSetTheorems, WellFoundedInduction, TLAPS

StepStatuses == {"pending", "running", "completed", "failed"}
PlanRow  == [status : Statuses, index : Steps, used : Nat, max : Budgets, over : BOOLEAN]
StepRow  == [status : StepStatuses, attempts : 0 .. MaxAttempts]
StepRows == [Steps -> StepRow]

\* What a call has read is what the tables may hold.
Sinces   == Reports \cup {"patch", "resume", "cost", "nothing", "more"}
Reading  == [pc : {"steps"}, op : Ops, plan : PlanRow, since : Sinces]
Deciding == [pc : {"commit"}, op : Ops, plan : PlanRow, since : Sinces, steps : StepRows]
CallOK(k) == k = Idle \/ k \in Reading \/ k \in Deciding

Completed == {i \in Steps : steps[i].status = "completed"}

\* The way into executing is through the budget.
Paid ==
  ~raced =>
    /\ plan.used <= peak /\ plan.max <= peak
    /\ plan.status = "executing" => plan.used < peak
    /\ Cardinality(Completed) <= plan.used

IInv ==
  /\ TypeOK
  /\ \A c \in Callers : CallOK(call[c])
  /\ OneStepRuns
  /\ Paid

-----------------------------------------------------------------------------

\* What the assumption says of the steps, one by one.
LEMMA StepsFacts ==
  /\ LastStep \in Nat /\ MaxAttempts \in Nat
  /\ \A i \in Steps : i \in Nat /\ i <= LastStep
  /\ \A i \in Nat : i <= LastStep => i \in Steps
  /\ 0 \in Steps /\ NoStep \notin Steps
  /\ \A i \in Steps : Fallback[i] \in Steps \cup {NoStep}
BY PlanAssumption DEF Steps

\* A non-empty set of step numbers has a least one.
LEMMA HasLeast ==
  ASSUME NEW T \in SUBSET Nat, T # {}
  PROVE  \E i \in T : \A k \in T : i <= k
<1> DEFINE R == {ss \in Nat \X Nat : ss[1] < ss[2]}
<1>1. IsWellFoundedOn(R, Nat)
  BY NatLessThanWellFounded DEF OpToRel
<1>2. \A i, k \in Nat : <<k, i>> \notin R => i <= k
  <2>1. \A i, k \in Nat : k < i => <<k, i>> \in R
    OBVIOUS
  <2> QED
    BY <2>1
<1> HIDE DEF R
<1>3. \E i \in T : \A k \in T : <<k, i>> \notin R
  BY <1>1, WFMin
<1> QED
  BY <1>2, <1>3

\* A resumption finds a step, or none.
LEMMA ResumeStepType ==
  ASSUME NEW p \in PlanRow, NEW s, NEW from \in Steps \cup {NoStep}
  PROVE  ResumeStep(p, s, from) \in Steps \cup {NoStep}
<1> DEFINE later == {i \in Steps : i > p.index /\ s[i].status \in {"pending", "failed"}}
<1>1. later \in SUBSET Nat /\ later \subseteq Steps
  BY StepsFacts
<1>2. later # {} => (CHOOSE i \in later : \A k \in later : i <= k) \in later
  BY <1>1, HasLeast
<1>3. p.index \in Steps
  BY DEF PlanRow
<1> HIDE DEF later
<1>4. ResumeStep(p, s, from) =
        IF from # NoStep THEN from
        ELSE IF s[p.index].status # "completed" THEN p.index
        ELSE IF later = {} THEN NoStep
        ELSE CHOOSE i \in later : \A k \in later : i <= k
  BY DEF ResumeStep, later
<1> QED
  BY <1>1, <1>2, <1>3, <1>4

\* The rows that a call makes of the rows it has read.
LEMMA OutcomeTypes ==
  ASSUME NEW op \in Ops, NEW p \in PlanRow, NEW s \in StepRows
  PROVE  Outcome(op, p, s).plan \in PlanRow /\ Outcome(op, p, s).steps \in StepRows
<1>1. p.index \in Steps /\ p.index \in Nat /\ p.used \in Nat /\ s[p.index] \in StepRow
  BY StepsFacts DEF PlanRow, StepRows
<1>2. CASE op.kind = "patch"
  <2>1. op.status \in Asks /\ op.max \in Budgets /\ op.lift \in BOOLEAN
    BY <1>2 DEF Ops, Reports
  <2>2. Outcome(op, p, s) = Patch(p, s, op)
    BY <1>2 DEF Outcome
  <2>3. Start(s, p.index) \in StepRows
    BY <1>1 DEF Start, StepRows, StepRow, StepStatuses
  <2>4. (IF op.status = "keep" THEN p.status ELSE op.status) \in Statuses
    BY <2>1 DEF Asks, PlanRow
  <2>5. [p EXCEPT !.status = "paused"] \in PlanRow
    BY DEF PlanRow, Statuses
  <2>6. [p EXCEPT !.status = IF op.status = "keep" THEN @ ELSE op.status,
                  !.max = op.max, !.over = @ /\ ~op.lift] \in PlanRow
    BY <2>1, <2>4 DEF PlanRow
  <2> QED
    BY <2>2, <2>3, <2>5, <2>6 DEF Patch, Rows
<1>3. CASE op.kind = "advance"
  <2>1. Outcome(op, p, s) = Advance(p, s)
    BY <1>3 DEF Outcome
  <2> DEFINE paid == [p EXCEPT !.used = @ + 1]
             done == [s EXCEPT ![p.index].status = "completed"]
  <2>2. paid \in PlanRow /\ done \in StepRows
    BY <1>1 DEF PlanRow, StepRows, StepRow, StepStatuses
  <2>3. CASE Exceeded(paid)
    <3>1. Advance(p, s) = Rows([paid EXCEPT !.status = "paused"], done)
      BY <2>3 DEF Advance
    <3>2. [paid EXCEPT !.status = "paused"] \in PlanRow
      BY <2>2 DEF PlanRow, Statuses
    <3> QED
      BY <2>1, <2>2, <3>1, <3>2 DEF Rows
  <2>4. CASE ~Exceeded(paid) /\ p.index < LastStep
    <3>1. p.index + 1 \in Steps
      BY <1>1, <2>4, StepsFacts
    <3>2. Start(done, p.index + 1) \in StepRows
      BY <2>2, <3>1 DEF Start, StepRows, StepRow, StepStatuses
    <3>3. [paid EXCEPT !.index = @ + 1] \in PlanRow
      BY <2>2, <3>1 DEF PlanRow
    <3> QED
      BY <2>1, <2>4, <3>2, <3>3 DEF Advance, Rows
  <2>5. CASE ~Exceeded(paid) /\ ~(p.index < LastStep)
    <3>1. [paid EXCEPT !.status = "completed"] \in PlanRow
      BY <2>2 DEF PlanRow, Statuses
    <3>2. Advance(p, s) = Rows([paid EXCEPT !.status = "completed"], done)
      BY <2>5 DEF Advance
    <3> QED
      BY <2>1, <2>2, <3>1, <3>2 DEF Rows
  <2> QED
    BY <2>3, <2>4, <2>5
<1>4. FailStep(s, p.index) \in StepRows
  BY <1>1 DEF FailStep, StepRows, StepRow, StepStatuses
<1>5. Fail(p, s).plan \in PlanRow /\ Fail(p, s).steps \in StepRows
  BY <1>4 DEF Fail, Rows, PlanRow, Statuses
<1>6. CASE op.kind = "fail"
  BY <1>5, <1>6 DEF Outcome
<1>7. CASE op.kind = "pause"
  BY <1>4, <1>7 DEF Outcome, Pause, Rows, PlanRow, Statuses
<1>8. CASE op.kind = "retry"
  <2>1. Outcome(op, p, s) = Retry(p, s)
    BY <1>8 DEF Outcome
  <2>2. CASE s[p.index].attempts < MaxAttempts
    <3>1. [s EXCEPT ![p.index].attempts = @ + 1] \in StepRows
      BY <1>1, <2>2, StepsFacts DEF StepRows, StepRow
    <3> QED
      BY <2>1, <2>2, <3>1 DEF Retry, Rows
  <2>3. CASE ~(s[p.index].attempts < MaxAttempts) /\ Fallback[p.index] = NoStep
    BY <1>5, <2>1, <2>3 DEF Retry
  <2>4. CASE ~(s[p.index].attempts < MaxAttempts) /\ Fallback[p.index] # NoStep
    <3>1. Fallback[p.index] \in Steps
      BY <1>1, <2>4, StepsFacts
    <3>2. Restart(FailStep(s, p.index), Fallback[p.index]) \in StepRows
      BY <1>4, <3>1, StepsFacts DEF Restart, StepRows, StepRow, StepStatuses
    <3>3. [p EXCEPT !.index = Fallback[p.index]] \in PlanRow
      BY <3>1 DEF PlanRow
    <3> QED
      BY <2>1, <2>4, <3>2, <3>3 DEF Retry, Rows
  <2> QED
    BY <2>2, <2>3, <2>4
<1>9. CASE op.kind = "resume"
  <2>1. op.from \in Steps \cup {NoStep}
    BY <1>9 DEF Ops, Reports
  <2> DEFINE i == ResumeStep(p, s, op.from)
  <2>2. i \in Steps \cup {NoStep}
    BY <2>1, ResumeStepType
  <2> HIDE DEF i
  <2>3. i \in Steps => Restart(s, i) \in StepRows
    BY StepsFacts DEF Restart, StepRows, StepRow, StepStatuses
  <2>4. i \in Steps => [p EXCEPT !.status = "executing", !.index = i] \in PlanRow
    BY DEF PlanRow, Statuses
  <2>5. Outcome(op, p, s) = IF i = NoStep \/ Exceeded(p) THEN Rows(p, s)
          ELSE Rows([p EXCEPT !.status = "executing", !.index = i], Restart(s, i))
    BY <1>9 DEF Outcome, Resume, i
  <2> QED
    BY <2>2, <2>3, <2>4, <2>5 DEF Rows
<1>10. CASE op.kind = "cost"
  BY <1>10 DEF Outcome, RecordCost, Rows, PlanRow
<1> QED
  BY <1>2, <1>3, <1>6, <1>7, <1>8, <1>9, <1>10 DEF Ops, Reports

\* A commit writes columns that are of the row's type.
LEMMA WrittenTypes ==
  /\ \A now, old, new \in PlanRow : Written(now, old, new) \in PlanRow
  /\ \A now, old, new \in StepRow : Written(now, old, new) \in StepRow
<1>1. ASSUME NEW now \in PlanRow, NEW old \in PlanRow, NEW new \in PlanRow
      PROVE  Written(now, old, new) \in PlanRow
  BY DEF Written, PlanRow
<1>2. ASSUME NEW now \in StepRow, NEW old \in StepRow, NEW new \in StepRow
      PROVE  Written(now, old, new) \in StepRow
  BY DEF Written, StepRow
<1> QED
  BY <1>1, <1>2

-----------------------------------------------------------------------------
(* What one call alone does to the rows                                    *)

\* At most the new current step starts running, a way into executing has
\* budget left, and only an advance completes a step, for one action.
Effects(op, p, s, q, t) ==
  /\ q.used = IF op.kind = "advance" THEN p.used + 1 ELSE p.used
  /\ op.kind # "patch" => q.max = p.max
  /\ \A i \in Steps : t[i].status = "running" =>
       i = q.index \/ (s[i].status = "running" /\ (q.index = p.index \/ i # p.index \/ op.kind = "resume"))
  /\ op.kind = "resume" => q.status = "executing" \/ q.index = p.index
  /\ q.status = "executing" => (p.status = "executing" /\ q.used = p.used) \/ q.used < p.max
  /\ q.status = "executing" /\ op.kind # "patch" =>
       \/ t[q.index].status = "running"
       \/ p.status = "executing" /\ q.index = p.index /\ t[p.index].status = s[p.index].status
  /\ \A i \in Steps : t[i].status = "completed" =>
       s[i].status = "completed" \/ (op.kind = "advance" /\ i = p.index)

\* What advancing may do to the two tables.
LEMMA AdvanceEffects ==
  ASSUME NEW op \in Ops, op.kind = "advance", NEW p \in PlanRow, NEW s \in StepRows
  PROVE  Effects(op, p, s, Advance(p, s).plan, Advance(p, s).steps)
<1> DEFINE paid == [p EXCEPT !.used = @ + 1]
           done == [s EXCEPT ![p.index].status = "completed"]
<1>1. /\ p.index \in Steps /\ p.index \in Nat /\ p.used \in Nat /\ p.max \in Nat
  BY StepsFacts, PlanAssumption DEF PlanRow
<1>2. /\ paid.used = p.used + 1 /\ paid.max = p.max /\ paid.index = p.index /\ paid.status = p.status
      /\ paid \in PlanRow
  BY <1>1 DEF PlanRow
<1>3. /\ done \in StepRows /\ done[p.index].status = "completed"
      /\ \A i \in Steps : i # p.index => done[i] = s[i]
  BY <1>1 DEF StepRows, StepRow, StepStatuses
<1> HIDE DEF paid, done
<1>4. CASE Exceeded(paid)
  <2> DEFINE q == [paid EXCEPT !.status = "paused"]
  <2>1. Advance(p, s) = Rows(q, done)
    BY <1>4 DEF Advance, paid, done
  <2>2. q.status = "paused" /\ q.used = p.used + 1 /\ q.max = p.max /\ q.index = p.index
    BY <1>2 DEF PlanRow
  <2> HIDE DEF q
  <2>3. Effects(op, p, s, q, done)
    BY <1>1, <1>3, <2>2 DEF Effects
  <2> QED
    BY <2>1, <2>3 DEF Rows
<1>5. CASE ~Exceeded(paid) /\ p.index < LastStep
  <2> DEFINE q == [paid EXCEPT !.index = @ + 1]  t == Start(done, p.index + 1)
  <2>1. Advance(p, s) = Rows(q, t)
    BY <1>5 DEF Advance, paid, done
  <2>2. p.index + 1 \in Steps /\ p.index + 1 # p.index
    BY <1>1, <1>5, StepsFacts
  <2>3. /\ q.used = p.used + 1 /\ q.max = p.max /\ q.index = p.index + 1
    BY <1>2 DEF PlanRow
  <2>4. /\ t[p.index + 1].status = "running"
        /\ \A i \in Steps : i # p.index + 1 => t[i] = done[i]
    BY <1>3, <2>2 DEF Start, StepRows, StepRow
  <2>5. p.used + 1 < p.max
    BY <1>1, <1>2, <1>5 DEF Exceeded
  <2> HIDE DEF q, t
  <2>6. Effects(op, p, s, q, t)
    BY <1>3, <2>2, <2>3, <2>4, <2>5 DEF Effects
  <2> QED
    BY <2>1, <2>6 DEF Rows
<1>6. CASE ~Exceeded(paid) /\ ~(p.index < LastStep)
  <2> DEFINE q == [paid EXCEPT !.status = "completed"]
  <2>1. Advance(p, s) = Rows(q, done)
    BY <1>6 DEF Advance, paid, done
  <2>2. q.status = "completed" /\ q.used = p.used + 1 /\ q.max = p.max /\ q.index = p.index
    BY <1>2 DEF PlanRow
  <2> HIDE DEF q
  <2>3. Effects(op, p, s, q, done)
    BY <1>1, <1>3, <2>2 DEF Effects
  <2> QED
    BY <2>1, <2>3 DEF Rows
<1> QED
  BY <1>4, <1>5, <1>6

\* What a PATCH may do.
LEMMA PatchEffects ==
  ASSUME NEW op \in Ops, op.kind = "patch", NEW p \in PlanRow, NEW s \in StepRows
  PROVE  Effects(op, p, s, Patch(p, s, op).plan, Patch(p, s, op).steps)
<1> DEFINE q == Patch(p, s, op).plan  t == Patch(p, s, op).steps
           starts == op.status = "executing" /\ p.status # "executing"
<1>1. p.index \in Steps /\ p.used \in Nat /\ p.max \in Nat
  BY StepsFacts, PlanAssumption DEF PlanRow
<1>2. /\ q.used = p.used /\ q.index = p.index
      /\ q.status = "executing" => p.status = "executing" \/ (starts /\ ~Exceeded(p))
  BY DEF Patch, Rows, PlanRow
<1>3. Exceeded(p) \/ p.used < p.max
  BY <1>1 DEF Exceeded
<1>4. \/ t = s
      \/ s[p.index].status = "pending" /\ t = Start(s, p.index)
  BY DEF Patch, Rows
<1>5. \A i \in Steps :
        t[i].status = s[i].status \/ (i = p.index /\ t[i].status = "running")
  <2>1. \A i \in Steps : Start(s, p.index)[i].status = IF i = p.index THEN "running" ELSE s[i].status
    BY <1>1 DEF Start, StepRows, StepRow
  <2> HIDE DEF t
  <2> QED
    BY <1>4, <2>1
<1> HIDE DEF q, t
<1>6. q.status = "executing" => (p.status = "executing" /\ q.used = p.used) \/ q.used < p.max
  BY <1>2, <1>3
<1>7. /\ \A i \in Steps : t[i].status = "running" => i = q.index \/ s[i].status = "running"
      /\ \A i \in Steps : t[i].status = "completed" => s[i].status = "completed"
  BY <1>2, <1>5
<1>8. Effects(op, p, s, q, t)
  BY <1>2, <1>6, <1>7 DEF Effects
<1> QED
  BY <1>8 DEF q, t

\* What failing or pausing may do.
LEMMA StopEffects ==
  ASSUME NEW op \in Ops, op.kind \in {"fail", "pause", "retry"}, NEW p \in PlanRow, NEW s \in StepRows,
         NEW status \in {"failed", "paused"}
  PROVE  Effects(op, p, s, [p EXCEPT !.status = status], FailStep(s, p.index))
<1>1. p.index \in Steps
  BY DEF PlanRow
<1>2. \A i \in Steps :
        FailStep(s, p.index)[i].status = IF i = p.index THEN "failed" ELSE s[i].status
  BY <1>1 DEF FailStep, StepRows, StepRow
<1> DEFINE q == [p EXCEPT !.status = status]
<1>3. q.status = status /\ q.used = p.used /\ q.max = p.max /\ q.index = p.index
  BY DEF PlanRow
<1> HIDE DEF q
<1>4. Effects(op, p, s, q, FailStep(s, p.index))
  BY <1>1, <1>2, <1>3 DEF Effects
<1> QED
  BY <1>4 DEF q

\* What a retry or a fallback may do.
LEMMA RetryEffects ==
  ASSUME NEW op \in Ops, op.kind = "retry", NEW p \in PlanRow, NEW s \in StepRows
  PROVE  Effects(op, p, s, Retry(p, s).plan, Retry(p, s).steps)
<1>1. p.index \in Steps
  BY DEF PlanRow
<1>2. CASE s[p.index].attempts < MaxAttempts
  <2>1. Retry(p, s) = Rows(p, [s EXCEPT ![p.index].attempts = @ + 1])
    BY <1>2 DEF Retry
  <2>2. \A i \in Steps : [s EXCEPT ![p.index].attempts = @ + 1][i].status = s[i].status
    BY <1>1 DEF StepRows, StepRow
  <2> QED
    BY <1>1, <2>1, <2>2 DEF Effects, Rows
<1>3. CASE ~(s[p.index].attempts < MaxAttempts) /\ Fallback[p.index] = NoStep
  BY <1>3, StopEffects DEF Retry, Fail, Rows
<1>4. CASE ~(s[p.index].attempts < MaxAttempts) /\ Fallback[p.index] # NoStep
  <2> DEFINE f == Fallback[p.index]
             q == [p EXCEPT !.index = f]
             t == Restart(FailStep(s, p.index), f)
  <2>1. f \in Steps
    BY <1>1, <1>4, StepsFacts
  <2>2. Retry(p, s) = Rows(q, t)
    BY <1>4 DEF Retry
  <2>3. \A i \in Steps :
          t[i].status = IF i = f THEN "running" ELSE IF i = p.index THEN "failed" ELSE s[i].status
    BY <1>1, <2>1 DEF Restart, FailStep, StepRows, StepRow
  <2>4. q.status = p.status /\ q.used = p.used /\ q.max = p.max /\ q.index = f
    BY DEF PlanRow
  <2> HIDE DEF q, t, f
  <2>5. Effects(op, p, s, q, t)
    BY <1>1, <2>1, <2>3, <2>4 DEF Effects
  <2> QED
    BY <2>2, <2>5 DEF Rows
<1> QED
  BY <1>2, <1>3, <1>4

\* What a resumption may do.
LEMMA ResumeEffects ==
  ASSUME NEW op \in Ops, op.kind = "resume", NEW p \in PlanRow, NEW s \in StepRows
  PROVE  Effects(op, p, s, Resume(p, s, op).plan, Resume(p, s, op).steps)
<1> DEFINE i == ResumeStep(p, s, op.from)
<1>1. op.from \in Steps \cup {NoStep}
  BY DEF Ops, Reports
<1>2. i \in Steps \cup {NoStep}
  BY <1>1, ResumeStepType
<1>3. p.used \in Nat /\ p.max \in Nat /\ p.index \in Steps
  BY PlanAssumption DEF PlanRow
<1>4. Resume(p, s, op) = IF i = NoStep \/ Exceeded(p) THEN Rows(p, s)
        ELSE Rows([p EXCEPT !.status = "executing", !.index = i], Restart(s, i))
  BY DEF Resume
<1> HIDE DEF i
<1>5. CASE i = NoStep \/ Exceeded(p)
  BY <1>3, <1>4, <1>5 DEF Effects, Rows
<1>6. CASE i \in Steps /\ ~Exceeded(p)
  <2> DEFINE q == [p EXCEPT !.status = "executing", !.index = i]  t == Restart(s, i)
  <2>1. Resume(p, s, op) = Rows(q, t)
    BY <1>4, <1>6, StepsFacts
  <2>2. q.status = "executing" /\ q.used = p.used /\ q.max = p.max /\ q.index = i
    BY DEF PlanRow
  <2>3. \A k \in Steps : t[k].status = IF k = i THEN "running" ELSE s[k].status
    BY <1>6 DEF Restart, StepRows, StepRow
  <2>4. p.used < p.max
    BY <1>3, <1>6 DEF Exceeded
  <2> HIDE DEF q, t
  <2>5. Effects(op, p, s, q, t)
    BY <1>3, <1>6, <2>2, <2>3, <2>4 DEF Effects
  <2> QED
    BY <2>1, <2>5 DEF Rows
<1> QED
  BY <1>2, <1>5, <1>6

\* What any call may do.
LEMMA OutcomeEffects ==
  ASSUME NEW op \in Ops, NEW p \in PlanRow, NEW s \in StepRows
  PROVE  Effects(op, p, s, Outcome(op, p, s).plan, Outcome(op, p, s).steps)
<1>1. CASE op.kind \in {"fail", "pause"}
  BY <1>1, StopEffects DEF Outcome, Fail, Pause, Rows
<1>2. CASE op.kind = "cost"
  BY <1>2 DEF Outcome, RecordCost, Rows, Effects, PlanRow
<1>3. CASE op.kind = "patch"
  BY <1>3, PatchEffects DEF Outcome
<1>4. CASE op.kind = "advance"
  BY <1>4, AdvanceEffects DEF Outcome
<1>5. CASE op.kind = "retry"
  BY <1>5, RetryEffects DEF Outcome
<1>6. CASE op.kind = "resume"
  BY <1>6, ResumeEffects DEF Outcome
<1> QED
  BY <1>1, <1>2, <1>3, <1>4, <1>5, <1>6 DEF Ops, Reports

-----------------------------------------------------------------------------
(* The steps of the specification                                          *)

\* The invariant holds of a plan just created.
LEMMA InitEstablishes == Init => IInv
<1> SUFFICES ASSUME Init PROVE IInv
  OBVIOUS
<1>1. PICK b \in Budgets :
        plan = [status |-> "draft", index |-> 0, used |-> 0, max |-> b, over |-> FALSE]
  BY DEF Init
<1>2. plan \in PlanRow /\ plan.status = "draft" /\ plan.index = 0 /\ plan.used = 0 /\ plan.max \in Nat
  BY <1>1, StepsFacts, PlanAssumption DEF PlanRow, Statuses
<1>3. steps \in StepRows /\ \A i \in Steps : steps[i].status = "pending"
  BY StepsFacts DEF Init, StepRows, StepRow, StepStatuses
<1>4. TypeOK
  <2>1. calls \in 0 .. MaxCalls /\ overlaps \in 0 .. MaxOverlaps
    BY PlanAssumption DEF Init
  <2>2. raced \in BOOLEAN /\ jumped \in BOOLEAN /\ forced \in BOOLEAN
    BY DEF Init
  <2>3. failures \in Nat /\ peak \in Nat
    BY <1>2 DEF Init
  <2>4. \A c \in Callers : call[c].pc = "idle"
    BY DEF Init, Idle
  <2> QED
    BY <1>2, <1>3, <2>1, <2>2, <2>3, <2>4
       DEF TypeOK, PlanRow, StepRows, StepRow, StepStatuses
<1>5. \A c \in Callers : CallOK(call[c])
  BY DEF Init, CallOK
<1>6. OneStepRuns
  BY <1>2, <1>3 DEF OneStepRuns, Running
<1>7. Completed = {}
  BY <1>3 DEF Completed
<1>8. Paid
  BY <1>2, <1>7, FS_EmptySet DEF Paid, Init
<1> QED
  BY <1>4, <1>5, <1>6, <1>8 DEF IInv

\* The columns of well-typed rows.
LEMMA TypeFacts ==
  ASSUME TypeOK
  PROVE  plan \in PlanRow /\ steps \in StepRows /\ plan.max \in Nat /\ plan.used \in Nat
         /\ plan.index \in Steps
BY PlanAssumption DEF TypeOK, PlanRow, StepRows, StepRow, StepStatuses

\* Reading changes no row and no history.
LEMMA ReadingKeeps ==
  ASSUME IInv, NEW c \in Callers,
         ReadSteps(c) \/ \E op \in Ops : ReadPlan(c, op)
  PROVE  IInv'
<1>1. UNCHANGED <<plan, steps, raced, jumped, forced, failures, peak>>
  BY DEF ReadSteps, ReadPlan, history
<1>2. plan \in PlanRow /\ steps \in StepRows
  BY TypeFacts DEF IInv
<1>3. \A d \in Callers : CallOK(call[d]) /\ call[d].pc \in {"idle", "steps", "commit"}
  BY DEF IInv, TypeOK
<1>4. CASE ReadSteps(c)
  <2>1. call[c] \in Reading
    BY <1>3, <1>4 DEF CallOK, Idle, Reading, Deciding, ReadSteps
  <2>2. [pc |-> "commit", op |-> call[c].op, plan |-> call[c].plan,
         since |-> call[c].since, steps |-> steps] \in Deciding
    BY <1>2, <2>1 DEF Reading, Deciding
  <2>3. \A d \in Callers : call'[d] = call[d] \/ call'[d] \in Deciding
    BY <1>4, <2>2 DEF ReadSteps
  <2>4. \A d \in Callers : CallOK(call'[d]) /\ call'[d].pc \in {"idle", "steps", "commit"}
    BY <1>3, <2>3 DEF CallOK, Deciding
  <2>5. calls' = calls /\ overlaps' = overlaps
    BY <1>4 DEF ReadSteps
  <2> QED
    BY <1>1, <2>4, <2>5 DEF IInv, TypeOK, CallOK, OneStepRuns, Running, Paid, Completed
<1>5. CASE \E op \in Ops : ReadPlan(c, op)
  <2>1. PICK op \in Ops : ReadPlan(c, op)
    BY <1>5
  <2>2. [pc |-> "steps", op |-> op, plan |-> plan, since |-> "nothing"] \in Reading
    BY <1>2 DEF Reading, Sinces
  <2>3. \A d \in Callers : call'[d] = call[d] \/ call'[d] \in Reading
    BY <2>1, <2>2 DEF ReadPlan
  <2>4. \A d \in Callers : CallOK(call'[d]) /\ call'[d].pc \in {"idle", "steps", "commit"}
    BY <1>3, <2>3 DEF CallOK, Reading
  <2>5. calls' \in 0 .. MaxCalls /\ overlaps' \in 0 .. MaxOverlaps
    BY <2>1, PlanAssumption DEF ReadPlan, IInv, TypeOK
  <2> QED
    BY <1>1, <2>4, <2>5 DEF IInv, TypeOK, CallOK, OneStepRuns, Running, Paid, Completed
<1> QED
  BY <1>4, <1>5

\* A call that commits has read both tables.
LEMMA CommitReads ==
  ASSUME IInv, NEW c \in Callers, Commit(c)
  PROVE  call[c] \in Deciding
<1>1. call[c].pc = "commit"
  BY DEF Commit
<1>2. CallOK(call[c])
  BY DEF IInv
<1>3. call[c] # Idle /\ call[c] \notin Reading
  BY <1>1 DEF Idle, Reading
<1> QED
  BY <1>2, <1>3 DEF CallOK

\* What a commit leaves is of the tables' types.
LEMMA CommitTypes ==
  ASSUME IInv, NEW c \in Callers, Commit(c)
  PROVE  TypeOK' /\ \A d \in Callers : CallOK(call'[d])
<1>1. call[c] \in Deciding
  BY CommitReads
<1> DEFINE me == call[c]
           made == Outcome(me.op, me.plan, me.steps)
<1>2. me.op \in Ops /\ me.plan \in PlanRow /\ me.steps \in StepRows
  BY <1>1 DEF Deciding
<1>3. made.plan \in PlanRow /\ made.steps \in StepRows
  BY <1>2, OutcomeTypes
<1>4. plan \in PlanRow /\ steps \in StepRows
  BY TypeFacts DEF IInv
<1>5. plan' \in PlanRow
  <2>1. plan' = Written(plan, me.plan, made.plan)
    BY DEF Commit
  <2> HIDE DEF me, made
  <2> QED
    BY <1>2, <1>3, <1>4, <2>1, WrittenTypes
<1>6. steps' \in StepRows
  <2>1. steps' = [i \in Steps |-> Written(steps[i], me.steps[i], made.steps[i])]
    BY DEF Commit
  <2> HIDE DEF me, made
  <2>2. \A i \in Steps : Written(steps[i], me.steps[i], made.steps[i]) \in StepRow
    BY <1>2, <1>3, <1>4, WrittenTypes DEF StepRows
  <2> QED
    BY <2>1, <2>2 DEF StepRows
<1>7. me.op.kind \in Sinces
  BY <1>2 DEF Ops, Sinces
<1>8. call' = Overlapped(c, me.op.kind)
  BY DEF Commit
<1> HIDE DEF me, made
<1>9. \A d \in Callers : call[d] \in Reading \cup Deciding =>
        \A x \in Sinces : [call[d] EXCEPT !.since = x] \in Reading \cup Deciding
  BY DEF Reading, Deciding
<1>10. \A d \in Callers : CallOK(call'[d])
  <2> SUFFICES ASSUME NEW d \in Callers PROVE CallOK(call'[d])
    OBVIOUS
  <2>1. CASE d = c \/ call[d] = Idle
    BY <1>8, <2>1 DEF Overlapped, CallOK
  <2>2. CASE ~(d = c \/ call[d] = Idle)
    <3>1. call[d] \in Reading \cup Deciding
      BY <2>2 DEF IInv, CallOK
    <3>2. PICK x \in Sinces : call'[d] = [call[d] EXCEPT !.since = x]
      BY <1>7, <1>8, <2>2 DEF Overlapped, Sinces
    <3> QED
      BY <1>9, <3>1, <3>2 DEF CallOK
  <2> QED
    BY <2>1, <2>2
<1>11. \A d \in Callers : call'[d].pc \in {"idle", "steps", "commit"}
  BY <1>10 DEF CallOK, Idle, Reading, Deciding
<1>12. calls' \in 0 .. MaxCalls /\ overlaps' \in 0 .. MaxOverlaps
  BY DEF Commit, IInv, TypeOK
<1>13. raced' \in BOOLEAN /\ jumped' \in BOOLEAN /\ forced' \in BOOLEAN
  BY DEF Commit, IInv, TypeOK
<1>14. failures' \in Nat /\ peak' \in Nat
  <2>1. plan'.max \in Nat
    BY <1>5, PlanAssumption DEF PlanRow
  <2>2. failures \in Nat /\ peak \in Nat
    BY DEF IInv, TypeOK
  <2>3. peak' \in {plan'.max, peak} /\ failures' \in {0, failures, failures + 1}
    BY DEF Commit
  <2> QED
    BY <2>1, <2>2, <2>3
<1> QED
  BY <1>5, <1>6, <1>10, <1>11, <1>12, <1>13, <1>14
     DEF TypeOK, PlanRow, StepRows, StepRow, StepStatuses

\* A commit that did not race left the rows, or what its call alone makes of them.
LEMMA CommitMakes ==
  ASSUME IInv, NEW c \in Callers, Commit(c), ~raced'
  PROVE  /\ ~raced
         /\ \/ plan' = plan /\ steps' = steps
            \/ /\ Accepts(plan, call[c].op)
               /\ plan' = Outcome(call[c].op, plan, steps).plan
               /\ steps' = Outcome(call[c].op, plan, steps).steps
<1> DEFINE op == call[c].op
<1>1. ~raced /\ Rows(plan', steps') \in
        {Rows(plan, steps), IF Accepts(plan, op) THEN Outcome(op, plan, steps) ELSE Rows(plan, steps)}
  BY DEF Commit, IInv, TypeOK
<1> HIDE DEF op
<1>2. Rows(plan', steps').plan = plan' /\ Rows(plan', steps').steps = steps'
      /\ Rows(plan, steps).plan = plan /\ Rows(plan, steps).steps = steps
  BY DEF Rows
<1>3. CASE Rows(plan', steps') = Rows(plan, steps)
  BY <1>1, <1>2, <1>3
<1>4. CASE Accepts(plan, op) /\ Rows(plan', steps') = Outcome(op, plan, steps)
  <2>1. plan' = Outcome(op, plan, steps).plan /\ steps' = Outcome(op, plan, steps).steps
    BY <1>2, <1>4
  <2> QED
    BY <1>1, <1>4, <2>1 DEF op
<1> QED
  BY <1>1, <1>3, <1>4

\* A commit that did not race.
LEMMA CommitAlone ==
  ASSUME IInv, NEW c \in Callers, Commit(c), ~raced'
  PROVE  /\ ~raced
         /\ \/ plan' = plan /\ steps' = steps
            \/ /\ Accepts(plan, call[c].op)
               /\ Effects(call[c].op, plan, steps, plan', steps')
<1> DEFINE op == call[c].op
<1>1. op \in Ops
  BY CommitReads DEF Deciding
<1>2. plan \in PlanRow /\ steps \in StepRows
  BY TypeFacts DEF IInv
<1> HIDE DEF op
<1>3. Effects(op, plan, steps, Outcome(op, plan, steps).plan, Outcome(op, plan, steps).steps)
  BY <1>1, <1>2, OutcomeEffects
<1> QED
  BY <1>3, CommitMakes DEF op

\* A commit leaves one running step.
LEMMA CommitRunsOne ==
  ASSUME IInv, NEW c \in Callers, Commit(c)
  PROVE  OneStepRuns'
<1> SUFFICES ASSUME ~raced'
             PROVE  /\ ~jumped' => \A i \in Steps : steps'[i].status = "running" => i = plan'.index
                    /\ plan'.status = "executing" /\ ~forced' => steps'[plan'.index].status = "running"
  <2>1. plan'.index \in Steps
    BY CommitTypes, PlanAssumption DEF TypeOK
  <2> QED
    BY <2>1 DEF OneStepRuns, Running
<1> DEFINE op == call[c].op
<1>1. ~raced /\ (\/ plan' = plan /\ steps' = steps
                 \/ Effects(op, plan, steps, plan', steps'))
  BY CommitAlone
<1>2. /\ ~jumped => \A i \in Steps : steps[i].status = "running" => i = plan.index
      /\ plan.status = "executing" /\ ~forced => steps[plan.index].status = "running"
  BY <1>1 DEF IInv, OneStepRuns, Running
<1>3. ~jumped' => /\ ~jumped
                  /\ op.kind = "resume" /\ plan'.status = "executing" =>
                       \A i \in Steps : i # plan'.index => steps'[i].status # "running"
  BY DEF Commit, IInv, TypeOK
<1>4. ~forced' /\ plan'.status = "executing" /\ steps'[plan'.index].status # "running" =>
        ~forced /\ op.kind # "patch"
  BY DEF Commit, IInv, TypeOK
<1> HIDE DEF op
<1>5. CASE plan' = plan /\ steps' = steps
  BY <1>2, <1>3, <1>4, <1>5
<1>6. CASE Effects(op, plan, steps, plan', steps')
  <2>1. ASSUME ~jumped', NEW i \in Steps, steps'[i].status = "running"
        PROVE  i = plan'.index
    BY <1>2, <1>3, <1>6, <2>1 DEF Effects
  <2>2. ASSUME plan'.status = "executing", ~forced'
        PROVE  steps'[plan'.index].status = "running"
    BY <1>2, <1>4, <1>6, <2>2 DEF Effects
  <2> QED
    BY <2>1, <2>2
<1> QED
  BY <1>1, <1>5, <1>6

\* A commit leaves the budget unspent, or the plan not executing.
LEMMA CommitIsPaid ==
  ASSUME IInv, NEW c \in Callers, Commit(c)
  PROVE  Paid'
<1> SUFFICES ASSUME ~raced'
             PROVE  /\ plan'.used <= peak' /\ plan'.max <= peak'
                    /\ plan'.status = "executing" => plan'.used < peak'
                    /\ Cardinality(Completed') <= plan'.used
  BY DEF Paid
<1> DEFINE op == call[c].op
<1>1. ~raced /\ (\/ plan' = plan /\ steps' = steps
                 \/ Accepts(plan, op) /\ Effects(op, plan, steps, plan', steps'))
  BY CommitAlone
<1>2. /\ plan.used <= peak /\ plan.max <= peak
      /\ plan.status = "executing" => plan.used < peak
      /\ Cardinality(Completed) <= plan.used
  BY <1>1 DEF IInv, Paid
<1>3. plan.used \in Nat /\ plan.max \in Nat /\ peak \in Nat
  BY TypeFacts DEF IInv, TypeOK
<1>4. plan'.used \in Nat /\ plan'.max \in Nat /\ peak' \in Nat
  BY CommitTypes, PlanAssumption DEF TypeOK
<1>5. peak' = IF plan'.max > peak THEN plan'.max ELSE peak
  BY DEF Commit
<1>6. plan'.max <= peak' /\ peak <= peak'
  BY <1>3, <1>4, <1>5
<1>7. IsFiniteSet(Completed) /\ Cardinality(Completed) \in Nat
  <2>1. IsFiniteSet(Steps)
    BY FS_Interval, StepsFacts DEF Steps
  <2> QED
    BY <2>1, FS_Subset, FS_CardinalityType DEF Completed
<1> HIDE DEF op
<1>8. CASE plan' = plan /\ steps' = steps
  <2>1. Completed' = Completed
    BY <1>8 DEF Completed
  <2> QED
    BY <1>2, <1>3, <1>4, <1>6, <1>8, <2>1
<1>9. CASE Accepts(plan, op) /\ Effects(op, plan, steps, plan', steps')
  <2>1. op.kind = "advance" => plan.status = "executing"
    BY <1>9 DEF Accepts, Reports
  <2>2. plan'.used = IF op.kind = "advance" THEN plan.used + 1 ELSE plan.used
    BY <1>9 DEF Effects
  <2>3. plan'.used <= peak'
    BY <1>2, <1>3, <1>4, <1>6, <2>1, <2>2
  <2>4. plan'.status = "executing" =>
          (plan.status = "executing" /\ plan'.used = plan.used) \/ plan'.used < plan.max
    BY <1>9 DEF Effects
  <2>5. plan'.status = "executing" => plan'.used < peak'
    BY <1>2, <1>3, <1>4, <1>6, <2>4
  <2>6. Completed' \subseteq Completed \cup {plan.index}
        /\ (op.kind # "advance" => Completed' \subseteq Completed)
    BY <1>9 DEF Effects, Completed
  <2>7. Cardinality(Completed') <= plan'.used
    <3>1. CASE op.kind = "advance"
      <4>1. /\ IsFiniteSet(Completed \cup {plan.index})
            /\ Cardinality(Completed \cup {plan.index}) <= Cardinality(Completed) + 1
        BY <1>7, FS_AddElement
      <4>2. /\ Cardinality(Completed') <= Cardinality(Completed \cup {plan.index})
            /\ Cardinality(Completed') \in Nat /\ Cardinality(Completed \cup {plan.index}) \in Nat
        BY <2>6, <4>1, FS_Subset, FS_CardinalityType
      <4> QED
        BY <1>2, <1>3, <1>4, <1>7, <2>2, <3>1, <4>1, <4>2
    <3>2. CASE op.kind # "advance"
      <4>1. Cardinality(Completed') <= Cardinality(Completed) /\ Cardinality(Completed') \in Nat
        BY <1>7, <2>6, <3>2, FS_Subset, FS_CardinalityType
      <4> QED
        BY <1>2, <1>3, <1>4, <1>7, <2>2, <3>2, <4>1
    <3> QED
      BY <3>1, <3>2
  <2> QED
    BY <1>6, <2>3, <2>5, <2>7
<1> QED
  BY <1>1, <1>8, <1>9

\* Every step keeps the invariant.
LEMMA NextKeeps == IInv /\ [Next]_vars => IInv'
<1> SUFFICES ASSUME IInv, [Next]_vars PROVE IInv'
  OBVIOUS
<1>1. ASSUME NEW c \in Callers, ReadSteps(c) \/ \E op \in Ops : ReadPlan(c, op)
      PROVE  IInv'
  BY <1>1, ReadingKeeps
<1>2. ASSUME NEW c \in Callers, Commit(c)
      PROVE  IInv'
  <2>1. TypeOK' /\ \A d \in Callers : CallOK(call'[d])
    BY <1>2, CommitTypes
  <2>2. OneStepRuns'
    BY <1>2, CommitRunsOne
  <2>3. Paid'
    BY <1>2, CommitIsPaid
  <2> QED
    BY <2>1, <2>2, <2>3 DEF IInv, CallOK
<1>3. CASE UNCHANGED vars
  BY <1>3 DEF vars, IInv, TypeOK, CallOK, OneStepRuns, Running, Paid, Completed
<1> QED
  BY <1>1, <1>2, <1>3 DEF Next

-----------------------------------------------------------------------------
(* The theorems                                                            *)

\* The invariant the other theorems rest on.
THEOREM PlanInvariant == Spec => []IInv
<1>1. Init => IInv
  BY InitEstablishes
<1>2. IInv /\ [Next]_vars => IInv'
  BY NextKeeps
<1> QED
  BY <1>1, <1>2, PTL DEF Spec

\* Every row and every call stays of its type: the current step always exists,
\* attempts never exceed the policy's.
THEOREM TypeCorrect == Spec => []TypeOK
<1>1. IInv => TypeOK
  BY DEF IInv
<1> QED
  BY <1>1, PlanInvariant, PTL

\* However many steps and sessions there are, unless calls raced only the
\* current step is running, and it is while the plan is executing.
THEOREM OnlyCurrentStepRuns == Spec => []OneStepRuns
<1>1. IInv => OneStepRuns
  BY DEF IInv
<1> QED
  BY <1>1, PlanInvariant, PTL

\* Whatever budgets are given and taken, unless calls raced every completed step
\* was paid for and no more is spent than the largest budget given.
THEOREM BudgetIsNeverOverspent == Spec => []BudgetHolds
<1>1. IInv => BudgetHolds
  BY DEF IInv, Paid, BudgetHolds, Completed
<1> QED
  BY <1>1, PlanInvariant, PTL

-----------------------------------------------------------------------------
(* Two reports of one step                                                 *)

\* A call knows the tables as long as nothing has been committed since it
\* read; after one commit of the same report, they are what it would make.
Informed(k) ==
  /\ k.since = "nothing" =>
       /\ plan = k.plan
       /\ k.pc = "commit" => steps = k.steps
  /\ k.since = "advance" =>
       /\ plan = Advance(k.plan, steps).plan /\ steps = Advance(k.plan, steps).steps
       /\ k.pc = "commit" => steps = Advance(k.plan, k.steps).steps

Overlaps == \A c \in Callers : call[c] # Idle => Informed(call[c])

\* What advancing makes of the plan does not depend on its steps, and making
\* it of the steps twice is making it once.
LEMMA AdvanceTwice ==
  ASSUME NEW p \in PlanRow, NEW s \in StepRows, NEW t \in StepRows
  PROVE  /\ Advance(p, s).plan = Advance(p, t).plan
         /\ Advance(p, Advance(p, s).steps).steps = Advance(p, s).steps
<1> DEFINE paid == [p EXCEPT !.used = @ + 1]
           D(x) == [x EXCEPT ![p.index].status = "completed"]
<1>1. /\ p.index \in Steps /\ p.index \in Nat
  BY StepsFacts DEF PlanRow
<1>2. \A x \in StepRows : D(x) \in StepRows /\ D(D(x)) = D(x)
  <2> SUFFICES ASSUME NEW x \in StepRows PROVE D(x) \in StepRows /\ D(D(x)) = D(x)
    OBVIOUS
  <2>1. x[p.index] \in StepRow
    BY <1>1 DEF StepRows
  <2>2. [x[p.index] EXCEPT !.status = "completed"] \in StepRow
    BY <2>1 DEF StepRow, StepStatuses
  <2>3. D(x) \in StepRows /\ D(x)[p.index] = [x[p.index] EXCEPT !.status = "completed"]
    BY <1>1, <2>2 DEF StepRows
  <2>4. [D(x)[p.index] EXCEPT !.status = "completed"] = D(x)[p.index]
    BY <2>1, <2>3 DEF StepRow
  <2>5. D(D(x)) = [D(x) EXCEPT ![p.index] = [D(x)[p.index] EXCEPT !.status = "completed"]]
    BY <1>1, <2>3 DEF StepRows
  <2> QED
    BY <2>3, <2>4, <2>5 DEF StepRows
<1>3. CASE Exceeded(paid) \/ ~(p.index < LastStep)
  <2>1. \A x \in StepRows : Advance(p, x).steps = D(x)
    BY <1>3 DEF Advance, Rows
  <2>2. Advance(p, s).plan = Advance(p, t).plan
    BY <1>3 DEF Advance, Rows
  <2> HIDE DEF D
  <2> QED
    BY <1>2, <2>1, <2>2
<1>4. CASE ~Exceeded(paid) /\ p.index < LastStep
  <2> DEFINE i == p.index + 1
             R(x) == Start(x, i)
  <2>1. i \in Steps /\ i # p.index
    BY <1>1, <1>4, StepsFacts
  <2>2. \A x \in StepRows : Advance(p, x).steps = R(D(x))
    BY <1>4 DEF Advance, Rows
  <2>3. Advance(p, s).plan = Advance(p, t).plan
    BY <1>4 DEF Advance, Rows
  <2> HIDE DEF i
  <2>4. ASSUME NEW x \in StepRows PROVE R(D(x)) \in StepRows /\ R(D(R(D(x)))) = R(D(x))
    <3> DEFINE y == R(D(x))
    <3>1. D(x) \in StepRows /\ D(x)[p.index].status = "completed"
      BY <1>1 DEF StepRows, StepRow, StepStatuses
    <3> DEFINE started == [D(x)[i] EXCEPT !.status = "running"]
    <3> HIDE DEF D
    <3>2. D(x)[i] \in StepRow
      BY <2>1, <3>1 DEF StepRows
    <3>3. started \in StepRow /\ started.status = "running"
      BY <3>2 DEF StepRow, StepStatuses
    <3>4. y = [D(x) EXCEPT ![i] = started]
      BY DEF Start
    <3> HIDE DEF started, y
    <3>5. /\ y \in StepRows /\ y[p.index].status = "completed" /\ y[i].status = "running"
      BY <1>1, <2>1, <3>1, <3>3, <3>4 DEF StepRows
    <3> USE DEF D
    <3>6. D(y) = y
      <4>1. y[p.index] \in StepRow
        BY <1>1, <3>5 DEF StepRows
      <4>2. [y[p.index] EXCEPT !.status = "completed"] = y[p.index]
        BY <3>5, <4>1 DEF StepRow
      <4>3. D(y) = [y EXCEPT ![p.index] = [y[p.index] EXCEPT !.status = "completed"]]
        BY <1>1, <3>5 DEF StepRows
      <4> QED
        BY <3>5, <4>2, <4>3 DEF StepRows
    <3>7. R(y) = y
      <4>1. y[i] \in StepRow
        BY <2>1, <3>5 DEF StepRows
      <4>2. [y[i] EXCEPT !.status = "running"] = y[i]
        BY <3>5, <4>1 DEF StepRow
      <4>3. R(y) = [y EXCEPT ![i] = [y[i] EXCEPT !.status = "running"]]
        BY <2>1, <3>5 DEF StepRows, Start
      <4> QED
        BY <3>5, <4>2, <4>3 DEF StepRows
    <3> HIDE DEF D, R
    <3>8. R(D(y)) = y
      BY <3>6, <3>7
    <3> QED
      BY <3>5, <3>8 DEF y
  <2> HIDE DEF D, R
  <2> QED
    BY <2>2, <2>3, <2>4
<1> QED
  BY <1>3, <1>4

\* A call that writes over the row it has read leaves what it made; one that
\* made what the row is by now leaves it alone.
LEMMA WrittenFacts ==
  /\ \A old, new \in PlanRow : Written(old, old, new) = new /\ Written(new, old, new) = new
  /\ \A old, new \in StepRow : Written(old, old, new) = new /\ Written(new, old, new) = new
<1>1. ASSUME NEW old \in PlanRow, NEW new \in PlanRow
      PROVE  Written(old, old, new) = new /\ Written(new, old, new) = new
  BY DEF Written, PlanRow
<1>2. ASSUME NEW old \in StepRow, NEW new \in StepRow
      PROVE  Written(old, old, new) = new /\ Written(new, old, new) = new
  BY DEF Written, StepRow
<1> QED
  BY <1>1, <1>2

\* Reading informs a call.
LEMMA ReadingInforms ==
  ASSUME IInv, Overlaps, NEW c \in Callers,
         ReadSteps(c) \/ \E op \in Ops : ReadPlan(c, op)
  PROVE  Overlaps'
<1>1. plan' = plan /\ steps' = steps
  BY DEF ReadSteps, ReadPlan
<1>2. plan \in PlanRow /\ steps \in StepRows
  BY TypeFacts DEF IInv
<1>3. CASE ReadSteps(c)
  <2> DEFINE k == [pc |-> "commit", op |-> call[c].op, plan |-> call[c].plan,
                   since |-> call[c].since, steps |-> steps]
  <2>1. /\ call[c].pc = "steps" /\ call[c] # Idle
        /\ \A d \in Callers : call'[d] = call[d] \/ call'[d] = k
    BY <1>3 DEF ReadSteps, Idle
  <2>2. Informed(call[c])
    BY <2>1 DEF Overlaps
  <2>3. /\ k.since = call[c].since /\ k.plan = call[c].plan /\ k.steps = steps /\ k.pc = "commit"
    OBVIOUS
  <2> HIDE DEF k
  <2>4. Informed(k)
    BY <2>2, <2>3 DEF Informed
  <2>5. \A d \in Callers : call'[d] # Idle => Informed(call'[d])
    BY <2>1, <2>4 DEF Overlaps
  <2> QED
    BY <1>1, <2>5 DEF Overlaps, Informed
<1>4. CASE \E op \in Ops : ReadPlan(c, op)
  <2>1. PICK op \in Ops : ReadPlan(c, op)
    BY <1>4
  <2> DEFINE k == [pc |-> "steps", op |-> op, plan |-> plan, since |-> "nothing"]
  <2>2. \A d \in Callers : call'[d] = call[d] \/ call'[d] = k
    BY <2>1 DEF ReadPlan
  <2>3. k.since = "nothing" /\ k.plan = plan /\ k.pc = "steps"
    OBVIOUS
  <2> HIDE DEF k
  <2>4. Informed(k)
    BY <2>3 DEF Informed
  <2>5. \A d \in Callers : call'[d] # Idle => Informed(call'[d])
    BY <2>2, <2>4 DEF Overlaps
  <2> QED
    BY <1>1, <2>5 DEF Overlaps, Informed
<1> QED
  BY <1>3, <1>4

\* An informed call makes of the tables what it alone would.
LEMMA InformedCommit ==
  ASSUME IInv, NEW c \in Callers, Commit(c), call[c].plan = plan, call[c].steps = steps
  PROVE  /\ plan' = Outcome(call[c].op, plan, steps).plan
         /\ steps' = Outcome(call[c].op, plan, steps).steps
<1>1. plan \in PlanRow /\ steps \in StepRows
  BY TypeFacts DEF IInv
<1> DEFINE op == call[c].op
           made == Outcome(op, plan, steps)
<1>2. op \in Ops
  BY CommitReads DEF Deciding
<1>3. made.plan \in PlanRow /\ made.steps \in StepRows
  BY <1>1, <1>2, OutcomeTypes
<1>4. /\ plan' = Written(plan, plan, made.plan)
      /\ steps' = [i \in Steps |-> Written(steps[i], steps[i], made.steps[i])]
  BY DEF Commit
<1> HIDE DEF made
<1>5. plan' = made.plan
  BY <1>1, <1>3, <1>4, WrittenFacts
<1>6. \A i \in Steps : Written(steps[i], steps[i], made.steps[i]) = made.steps[i]
  BY <1>1, <1>3, WrittenFacts DEF StepRows
<1>7. steps' = made.steps
  BY <1>3, <1>4, <1>6 DEF StepRows
<1> QED
  BY <1>5, <1>7 DEF made

\* A commit leaves the other calls informed, or marks them.
LEMMA CommitInforms ==
  ASSUME IInv, Overlaps, NEW c \in Callers, Commit(c)
  PROVE  Overlaps'
<1> SUFFICES ASSUME NEW d \in Callers, call'[d] # Idle
             PROVE  Informed(call[d])'
  BY DEF Overlaps, Informed
<1> DEFINE kind == call[c].op.kind
<1>1. plan \in PlanRow /\ steps \in StepRows /\ plan' \in PlanRow /\ steps' \in StepRows
  <2>1. TypeOK /\ TypeOK'
    BY CommitTypes DEF IInv
  <2> QED
    BY <2>1 DEF TypeOK, PlanRow, StepRows, StepRow, StepStatuses
<1>2. call' = Overlapped(c, kind) /\ kind \in Sinces /\ kind \notin {"nothing", "more"}
  <2>1. call[c].op \in Ops
    BY CommitReads DEF Deciding
  <2> QED
    BY <2>1 DEF Commit, Ops, Sinces, Reports
<1> DEFINE both == call[d].since = "nothing" /\ call[d].plan = call[c].plan /\ call[c].steps = steps
<1>3. /\ d # c /\ call[d] # Idle
      /\ call'[d] = [call[d] EXCEPT !.since = IF both THEN kind ELSE "more"]
  BY <1>2 DEF Overlapped
<1>4. /\ call'[d].since = IF both THEN kind ELSE "more"
      /\ call'[d].plan = call[d].plan /\ call'[d].pc = call[d].pc
      /\ call[d].pc = "commit" => call'[d].steps = call[d].steps
      /\ call[d].plan \in PlanRow
  <2>1. call[d] \in Reading \cup Deciding
    BY <1>3 DEF IInv, CallOK
  <2> HIDE DEF both, kind
  <2> QED
    BY <1>3, <2>1 DEF Reading, Deciding
<1>5. Informed(call[d])
  BY <1>3 DEF Overlaps
<1> SUFFICES ASSUME both, kind = "advance"
             PROVE  Informed(call[d])'
  BY <1>2, <1>4 DEF Informed
<1>6. plan = call[d].plan /\ call[c].plan = plan /\ call[c].steps = steps
      /\ (call[d].pc = "commit" => call[d].steps = steps)
  BY <1>5 DEF Informed
<1>7. plan' = Advance(plan, steps).plan /\ steps' = Advance(plan, steps).steps
  BY <1>6, InformedCommit DEF Outcome
<1>8. plan' = Advance(plan, steps').plan /\ steps' = Advance(plan, steps').steps
  <2>1. Advance(plan, steps).plan = Advance(plan, steps').plan
    BY <1>1, AdvanceTwice
  <2>2. Advance(plan, Advance(plan, steps).steps).steps = Advance(plan, steps).steps
    BY <1>1, AdvanceTwice
  <2> QED
    BY <1>7, <2>1, <2>2
<1> QED
  BY <1>4, <1>6, <1>7, <1>8 DEF Informed

\* What calls know of the tables holds in every reachable state.
THEOREM OverlapInvariant == Spec => []Overlaps
<1>1. Init => Overlaps
  BY DEF Init, Overlaps
<1>2. IInv /\ Overlaps /\ [Next]_vars => Overlaps'
  <2> SUFFICES ASSUME IInv, Overlaps, [Next]_vars PROVE Overlaps'
    OBVIOUS
  <2>1. CASE UNCHANGED vars
    BY <2>1 DEF vars, Overlaps, Informed
  <2> QED
    BY <2>1, ReadingInforms, CommitInforms DEF Next
<1> QED
  BY <1>1, <1>2, PlanInvariant, PTL DEF Spec

\* Of two reports of one step from one state of the plan, the later changes
\* nothing, for any number of sessions.
THEOREM SecondReportChangesNothing == Spec => SecondReportIsIdle
<1>1. ASSUME IInv, Overlaps, [Next]_vars,
             NEW c \in Callers, call[c].pc = "commit", call'[c] = Idle,
             call[c].op.kind = "advance", call[c].since = "advance"
      PROVE  plan' = plan /\ steps' = steps
  <2>1. Commit(c)
    <3>1. call[c] # Idle
      BY <1>1 DEF Idle
    <3>2. ~UNCHANGED vars
      BY <1>1, <3>1 DEF vars
    <3>3. PICK d \in Callers : ReadSteps(d) \/ Commit(d) \/ \E op \in Ops : ReadPlan(d, op)
      BY <1>1, <3>2 DEF Next
    <3>4. ~ReadSteps(d) /\ ~\E op \in Ops : ReadPlan(d, op)
      <4>1. ReadSteps(d) => call'[c] = call[c] \/ call'[c].pc = "commit"
        BY DEF ReadSteps
      <4>2. \A op \in Ops : ReadPlan(d, op) => call'[c] = call[c] \/ call'[c].pc = "steps"
        BY DEF ReadPlan
      <4>3. call'[c] # call[c] /\ call'[c].pc = "idle"
        BY <1>1, <3>1 DEF Idle
      <4> QED
        BY <4>1, <4>2, <4>3
    <3>5. CASE Commit(d) /\ d # c
      <4>1. call[c] \in Deciding
        BY <1>1 DEF IInv, CallOK, Idle, Reading
      <4>2. PICK x : call'[c] = [call[c] EXCEPT !.since = x]
        BY <3>1, <3>5 DEF Commit, Overlapped
      <4>3. call'[c].pc = "commit"
        BY <4>1, <4>2 DEF Deciding
      <4> QED
        BY <1>1, <4>3 DEF Idle
    <3> QED
      BY <3>3, <3>4, <3>5
  <2> DEFINE p == call[c].plan  s == call[c].steps  made == Outcome(call[c].op, p, s)
  <2>2. call[c] \in Deciding /\ call[c] # Idle
    BY <1>1, <2>1, CommitReads DEF Idle
  <2>3. call[c].op \in Ops /\ p \in PlanRow /\ s \in StepRows
    BY <2>2 DEF Deciding
  <2>4. plan \in PlanRow /\ steps \in StepRows
    BY <1>1, TypeFacts DEF IInv
  <2>5. made = Advance(p, s)
    BY <1>1 DEF Outcome
  <2>6. /\ plan = Advance(p, steps).plan /\ steps = Advance(p, s).steps
    BY <1>1, <2>2 DEF Overlaps, Informed
  <2>7. plan = made.plan /\ steps = made.steps
    <3>1. Advance(p, s).plan = Advance(p, steps).plan
      BY <2>3, <2>4, AdvanceTwice
    <3> QED
      BY <2>5, <2>6, <3>1
  <2>8. /\ plan' = Written(plan, p, made.plan)
        /\ steps' = [i \in Steps |-> Written(steps[i], s[i], made.steps[i])]
    BY <2>1 DEF Commit
  <2> HIDE DEF made, p, s
  <2>9. plan' = plan
    BY <2>3, <2>4, <2>7, <2>8, WrittenFacts
  <2>10. \A i \in Steps : Written(steps[i], s[i], steps[i]) = steps[i]
    BY <2>3, <2>4, WrittenFacts DEF StepRows
  <2>11. steps' = steps
    BY <2>4, <2>7, <2>8, <2>10 DEF StepRows
  <2> QED
    BY <2>9, <2>11
<1>2. IInv /\ Overlaps /\ [Next]_vars =>
        [\A c \in Callers :
           call[c].pc = "commit" /\ call'[c] = Idle
             /\ call[c].op.kind = "advance" /\ call[c].since = "advance"
             => plan' = plan /\ steps' = steps]_vars
  BY <1>1
<1> QED
  BY <1>2, PlanInvariant, OverlapInvariant, PTL DEF Spec, SecondReportIsIdle

-----------------------------------------------------------------------------
(* Nothing but failures                                                    *)

\* The failures that the steps below rank[i] can still take.
Below(rank, i) == (LastStep - rank[i]) * (MaxAttempts + 1)

\* The failures so far have used up the steps above the current one, and
\* attempts of the current one.
RetriesInv ==
  ~raced /\ plan.status = "executing" =>
    \A rank \in [Steps -> Steps] :
      GoesDown(rank) => failures <= Below(rank, plan.index) + steps[plan.index].attempts

LEMMA BelowFacts ==
  ASSUME NEW rank \in [Steps -> Steps], NEW i \in Steps
  PROVE  /\ Below(rank, i) \in Nat
         /\ Below(rank, i) + MaxAttempts < (LastStep + 1) * (MaxAttempts + 1)
         /\ \A k \in Steps : rank[k] < rank[i] =>
              Below(rank, i) + MaxAttempts + 1 <= Below(rank, k)
<1> DEFINE m == MaxAttempts + 1
<1>1. m \in Nat /\ m > 0 /\ m = MaxAttempts + 1 /\ MaxAttempts \in Nat /\ LastStep \in Nat
  BY StepsFacts
<1> HIDE DEF m
<1>2. \A a, b \in Nat : a * m \in Nat /\ (a + 1) * m = a * m + m
  BY <1>1
<1>3. \A a, d \in Nat : a * m <= (a + d) * m
  <2> SUFFICES ASSUME NEW a \in Nat, NEW d \in Nat PROVE a * m <= (a + d) * m
    OBVIOUS
  <2>1. (a + d) * m = a * m + d * m
    BY <1>1
  <2>2. a * m \in Nat /\ d * m \in Nat
    BY <1>1, <1>2
  <2> QED
    BY <2>1, <2>2
<1>4. \A a, b \in Nat : a < b => a * m + m <= b * m
  <2> SUFFICES ASSUME NEW a \in Nat, NEW b \in Nat, a < b PROVE a * m + m <= b * m
    OBVIOUS
  <2>1. PICK d \in Nat : b = (a + 1) + d
    <3>1. b - (a + 1) \in Nat /\ b = (a + 1) + (b - (a + 1))
      OBVIOUS
    <3> QED
      BY <3>1
  <2>2. (a + 1) * m <= ((a + 1) + d) * m
    BY <1>3
  <2>3. (a + 1) * m = a * m + m
    BY <1>2
  <2> QED
    BY <2>1, <2>2, <2>3
<1>5. \A k \in Steps : /\ rank[k] \in Nat /\ LastStep - rank[k] \in Nat
                       /\ LastStep - rank[k] < LastStep + 1
  <2> SUFFICES ASSUME NEW k \in Steps
               PROVE  /\ rank[k] \in Nat /\ LastStep - rank[k] \in Nat
                      /\ LastStep - rank[k] < LastStep + 1
    OBVIOUS
  <2>1. rank[k] \in 0 .. LastStep
    BY DEF Steps
  <2> QED
    BY <1>1, <2>1
<1>6. \A k \in Steps : Below(rank, k) = (LastStep - rank[k]) * m
  BY DEF Below, m
<1>7. Below(rank, i) \in Nat
  BY <1>2, <1>5, <1>6
<1>8. Below(rank, i) + m <= (LastStep + 1) * m
  <2>1. LastStep + 1 \in Nat
    BY <1>1
  <2> QED
    BY <1>4, <1>5, <1>6, <2>1
<1>9. ASSUME NEW k \in Steps, rank[k] < rank[i]
      PROVE  Below(rank, i) + m <= Below(rank, k)
  <2>1. LastStep - rank[i] < LastStep - rank[k]
    BY <1>1, <1>5, <1>9
  <2> QED
    BY <1>4, <1>5, <1>6, <2>1
<1>10. Below(rank, i) + MaxAttempts < (LastStep + 1) * m
  <2> DEFINE all == (LastStep + 1) * m
  <2>1. all \in Nat
    <3>1. LastStep + 1 \in Nat
      BY <1>1
    <3> QED
      BY <1>2, <3>1
  <2>2. Below(rank, i) + m <= all
    BY <1>8
  <2> HIDE DEF all
  <2>3. Below(rank, i) + MaxAttempts < all
    BY <1>1, <1>7, <2>1, <2>2
  <2> QED
    BY <2>3 DEF all
<1>11. \A k \in Steps : rank[k] < rank[i] => Below(rank, i) + MaxAttempts + 1 <= Below(rank, k)
  <2> SUFFICES ASSUME NEW k \in Steps, rank[k] < rank[i]
               PROVE  Below(rank, i) + MaxAttempts + 1 <= Below(rank, k)
    OBVIOUS
  <2>1. Below(rank, i) + m <= Below(rank, k)
    BY <1>9
  <2> QED
    BY <1>1, <1>7, <2>1
<1> QED
  BY <1>7, <1>10, <1>11 DEF m

\* A transient failure uses up an attempt of the step, or the step.
LEMMA RetryUsesUp ==
  ASSUME NEW p \in PlanRow, NEW s \in StepRows, Retry(p, s).plan.status = "executing",
         NEW rank \in [Steps -> Steps], GoesDown(rank)
  PROVE  LET r == Retry(p, s) IN
         /\ r.plan.index \in Steps
         /\ Below(rank, p.index) + s[p.index].attempts + 1
              <= Below(rank, r.plan.index) + r.steps[r.plan.index].attempts
<1> DEFINE i == p.index
           to == Fallback[i]
<1>1. i \in Steps /\ s[i] \in StepRow /\ s[i].attempts \in 0 .. MaxAttempts
  BY DEF PlanRow, StepRows, StepRow
<1>2. MaxAttempts \in Nat /\ Below(rank, i) \in Nat
  BY <1>1, StepsFacts, BelowFacts
<1>3. CASE s[i].attempts < MaxAttempts
  <2> DEFINE t == [s EXCEPT ![i].attempts = @ + 1]
  <2>1. Retry(p, s) = Rows(p, t)
    BY <1>3 DEF Retry
  <2>2. Retry(p, s).plan = p /\ Retry(p, s).steps = t
    BY <2>1 DEF Rows
  <2>3. t[i].attempts = s[i].attempts + 1
    BY <1>1 DEF StepRows, StepRow
  <2> HIDE DEF t
  <2> QED
    BY <1>1, <1>2, <2>2, <2>3
<1>4. CASE ~(s[i].attempts < MaxAttempts) /\ to = NoStep
  <2>1. Retry(p, s) = Rows([p EXCEPT !.status = "failed"], FailStep(s, i))
    BY <1>4 DEF Retry, Fail
  <2>2. Retry(p, s).plan.status = "failed"
    BY <2>1 DEF Rows, PlanRow
  <2> QED
    BY <2>2
<1>5. CASE ~(s[i].attempts < MaxAttempts) /\ to # NoStep
  <2> DEFINE t == Restart(FailStep(s, i), to)
  <2>1. Retry(p, s) = Rows([p EXCEPT !.index = to], t)
    BY <1>5 DEF Retry
  <2>2. to \in Steps
    BY <1>1, <1>5, StepsFacts
  <2>3. t[to].attempts = 0
    BY <1>1, <2>2 DEF Restart, FailStep, StepRows, StepRow
  <2>4. Retry(p, s).plan.index = to /\ Retry(p, s).steps = t
    BY <2>1 DEF Rows, PlanRow
  <2>5. rank[to] < rank[i]
    BY <1>1, <1>5 DEF GoesDown
  <2>6. Below(rank, i) + MaxAttempts + 1 <= Below(rank, to) /\ Below(rank, to) \in Nat
    BY <1>1, <2>2, <2>5, BelowFacts
  <2>7. s[i].attempts <= MaxAttempts /\ s[i].attempts \in Nat
    BY <1>1, <1>2
  <2> HIDE DEF t, to
  <2>8. Below(rank, i) + s[i].attempts + 1 <= Below(rank, to) + 0
    BY <1>2, <2>6, <2>7
  <2> QED
    BY <2>2, <2>3, <2>4, <2>8
<1> QED
  BY <1>3, <1>4, <1>5

\* No other call of a plan that goes on executing touches its attempts, but for
\* those that begin the count again.
LEMMA OthersLeaveAttempts ==
  ASSUME NEW op \in Ops, op.kind \notin {"advance", "resume", "retry"},
         NEW p \in PlanRow, NEW s \in StepRows, Outcome(op, p, s).plan.status = "executing"
  PROVE  /\ Outcome(op, p, s).plan.index = p.index
         /\ Outcome(op, p, s).steps[p.index].attempts = s[p.index].attempts
<1>1. p.index \in Steps
  BY DEF PlanRow
<1>2. CASE op.kind = "patch"
  <2>1. Start(s, p.index)[p.index].attempts = s[p.index].attempts
    BY <1>1 DEF Start, StepRows, StepRow
  <2>2. Outcome(op, p, s) = Patch(p, s, op)
    BY <1>2 DEF Outcome
  <2> QED
    BY <2>1, <2>2 DEF Patch, Rows, PlanRow
<1>3. CASE op.kind = "cost"
  BY <1>3 DEF Outcome, RecordCost, Rows, PlanRow
<1>4. CASE op.kind = "fail"
  BY <1>4 DEF Outcome, Fail, Rows, PlanRow
<1>5. CASE op.kind = "pause"
  BY <1>5 DEF Outcome, Pause, Rows, PlanRow
<1> QED
  BY <1>2, <1>3, <1>4, <1>5 DEF Ops, Reports

\* A commit counts a failure only if it has used up an attempt or a step.
LEMMA CommitUsesUp ==
  ASSUME IInv, Overlaps, RetriesInv, NEW c \in Callers, Commit(c)
  PROVE  RetriesInv'
<1> SUFFICES ASSUME ~raced', plan'.status = "executing",
                    NEW rank \in [Steps -> Steps], GoesDown(rank)
             PROVE  failures' <= Below(rank, plan'.index) + steps'[plan'.index].attempts
  BY DEF RetriesInv, GoesDown, Below
<1> DEFINE op == call[c].op
<1>1. /\ call[c] \in Deciding /\ op \in Ops /\ op.kind \in Reports \cup {"patch", "resume", "cost"}
      /\ call[c] # Idle /\ call[c].pc = "commit"
  BY CommitReads DEF Deciding, Ops, Idle
<1>2. /\ plan \in PlanRow /\ steps \in StepRows /\ plan' \in PlanRow /\ steps' \in StepRows
      /\ failures \in Nat
  <2>1. TypeOK /\ TypeOK'
    BY CommitTypes DEF IInv
  <2> QED
    BY <2>1 DEF TypeOK, PlanRow, StepRows, StepRow, StepStatuses
<1>3. /\ plan.index \in Steps /\ plan'.index \in Steps
      /\ steps[plan.index].attempts \in Nat /\ steps'[plan'.index].attempts \in Nat
      /\ Below(rank, plan.index) \in Nat /\ Below(rank, plan'.index) \in Nat
  <2>1. plan.index \in Steps /\ plan'.index \in Steps
    BY <1>2 DEF PlanRow
  <2>2. steps[plan.index].attempts \in 0 .. MaxAttempts
        /\ steps'[plan'.index].attempts \in 0 .. MaxAttempts
    BY <1>2, <2>1 DEF StepRows, StepRow
  <2> QED
    BY <2>1, <2>2, BelowFacts
<1>4. \/ failures' = 0
      \/ /\ plan.status = "executing" /\ op.kind \notin {"advance", "resume"}
         /\ \/ failures' = failures + 1 /\ op.kind = "retry" /\ call[c].since = "nothing"
            \/ failures' = failures
  BY DEF Commit
<1>5. CASE failures' = 0
  BY <1>3, <1>5
<1>6. ASSUME plan.status = "executing", op.kind \notin {"advance", "resume"}
      PROVE  failures <= Below(rank, plan.index) + steps[plan.index].attempts
  BY <1>6, CommitMakes DEF RetriesInv
<1>7. CASE /\ plan.status = "executing" /\ failures' = failures + 1
           /\ op.kind = "retry" /\ call[c].since = "nothing"
  <2>1. call[c].plan = plan /\ call[c].steps = steps
    BY <1>1, <1>7 DEF Overlaps, Informed
  <2>2. plan' = Retry(plan, steps).plan /\ steps' = Retry(plan, steps).steps
    BY <1>7, <2>1, InformedCommit DEF Outcome
  <2>3. Below(rank, plan.index) + steps[plan.index].attempts + 1
          <= Below(rank, plan'.index) + steps'[plan'.index].attempts
    BY <1>2, <2>2, RetryUsesUp
  <2>4. failures <= Below(rank, plan.index) + steps[plan.index].attempts
    BY <1>6, <1>7
  <2> QED
    BY <1>2, <1>3, <1>7, <2>3, <2>4
<1>8. CASE /\ plan.status = "executing" /\ op.kind \notin {"advance", "resume"}
           /\ failures' = failures
  <2>1. failures <= Below(rank, plan.index) + steps[plan.index].attempts
    BY <1>6, <1>8
  <2>2. CASE plan' = plan /\ steps' = steps
    BY <1>8, <2>1, <2>2
  <2>3. CASE plan' = Outcome(op, plan, steps).plan /\ steps' = Outcome(op, plan, steps).steps
    <3>1. CASE op.kind = "retry"
      <4>1. plan' = Retry(plan, steps).plan /\ steps' = Retry(plan, steps).steps
        BY <2>3, <3>1 DEF Outcome
      <4>2. Below(rank, plan.index) + steps[plan.index].attempts + 1
              <= Below(rank, plan'.index) + steps'[plan'.index].attempts
        BY <1>2, <4>1, RetryUsesUp
      <4> QED
        BY <1>2, <1>3, <1>8, <2>1, <4>2
    <3>2. CASE op.kind # "retry"
      <4>1. plan'.index = plan.index /\ steps'[plan.index].attempts = steps[plan.index].attempts
        BY <1>1, <1>2, <1>8, <2>3, <3>2, OthersLeaveAttempts
      <4> QED
        BY <1>8, <2>1, <4>1
    <3> QED
      BY <3>1, <3>2
  <2> QED
    BY <2>2, <2>3, CommitMakes
<1> QED
  BY <1>4, <1>5, <1>7, <1>8

\* However many steps, attempts and sessions there are, an agent that reports
\* nothing but transient failures is told to give up where fallbacks end.
THEOREM FailuresEndThePlan == Spec => []FailuresAreBounded
<1>1. Init => RetriesInv
  BY DEF Init, RetriesInv
<1>2. IInv /\ Overlaps /\ RetriesInv /\ [Next]_vars => RetriesInv'
  <2> SUFFICES ASSUME IInv, Overlaps, RetriesInv, [Next]_vars PROVE RetriesInv'
    OBVIOUS
  <2>1. ASSUME UNCHANGED <<plan, steps, history>> PROVE RetriesInv'
    <3>1. plan' = plan /\ steps' = steps /\ raced' = raced /\ failures' = failures
      BY <2>1 DEF history
    <3> QED
      BY <3>1 DEF RetriesInv
  <2>2. CASE UNCHANGED vars
    BY <2>1, <2>2 DEF vars, history
  <2>3. ASSUME NEW c \in Callers, ReadSteps(c) \/ \E op \in Ops : ReadPlan(c, op)
        PROVE  RetriesInv'
    BY <2>1, <2>3 DEF ReadSteps, ReadPlan
  <2> QED
    BY <2>2, <2>3, CommitUsesUp DEF Next
<1>3. IInv /\ RetriesInv => FailuresAreBounded
  <2> SUFFICES ASSUME IInv, RetriesInv, FallbacksEnd, ~raced, plan.status = "executing"
               PROVE  failures < (LastStep + 1) * (MaxAttempts + 1)
    BY DEF FailuresAreBounded
  <2>1. PICK rank \in [Steps -> Steps] : GoesDown(rank)
    BY DEF FallbacksEnd
  <2>2. plan \in PlanRow /\ steps \in StepRows /\ failures \in Nat
    BY TypeFacts DEF IInv, TypeOK
  <2>3. plan.index \in Steps /\ steps[plan.index].attempts \in 0 .. MaxAttempts
    BY <2>2 DEF PlanRow, StepRows, StepRow
  <2> DEFINE all == (LastStep + 1) * (MaxAttempts + 1)
             used == Below(rank, plan.index)
  <2>4. used \in Nat /\ used + MaxAttempts < all
    BY <2>3, BelowFacts
  <2>5. failures <= used + steps[plan.index].attempts
    BY <2>1 DEF RetriesInv
  <2>6. all \in Int
    BY StepsFacts
  <2> HIDE DEF all, used
  <2>7. failures < all
    BY <2>2, <2>3, <2>4, <2>5, <2>6, StepsFacts
  <2> QED
    BY <2>7 DEF all
<1> QED
  BY <1>1, <1>2, <1>3, PlanInvariant, OverlapInvariant, PTL DEF Spec
=============================================================================
