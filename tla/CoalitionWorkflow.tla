------------------------- MODULE CoalitionWorkflow -------------------------
(***************************************************************************)
(* CoalitionWorkflow drives a collaboration session: each round prepares   *)
(* the current phase, lets the CLI write the contribution and records it   *)
(* with an activity of three attempts.  An attempt may die, run on past    *)
(* its timeout beside the next one, or commit without being heard of.      *)
(* People and other agents may contribute to the same session.             *)
(***************************************************************************)
EXTENDS Collaboration, FiniteSets

CONSTANTS
  Workers,       \* database sessions of activity attempts
  Outsiders,     \* database sessions of the advance endpoint
  Attempts,      \* maximum_attempts of the retry policy
  MaxTrouble,    \* bound: deaths, timeouts, lost results and failed activities
  MaxOutside     \* bound: contributions through the endpoint

ASSUME CoalitionAssumption ==
  /\ Sessions = Workers \cup Outsiders /\ Workers \cap Outsiders = {} /\ None \notin Sessions
  /\ Attempts \in Nat \ {0} /\ MaxTrouble \in Nat /\ MaxOutside \in Nat

VARIABLES
  pc,        \* where the workflow is
  step,      \* what it knows of the step under way
  outside,   \* contributions begun by outsiders
  trouble    \* deaths, timeouts, lost results and failed activities so far

vars == <<collab, pc, step, outside, trouble>>

\* Mutant of LastRound: a round too few.
LastRound_Short == Len(Phases) - 2

\* One round for each phase: initialize_collaboration sets max_rounds.
LastRound == Len(Phases) - 1

Init ==
  /\ CollabInit
  /\ pc = "prepare"
  /\ step = [round |-> 0, phase |-> None, agent |-> None, attempt |-> 0, runner |-> None]
  /\ outside = 0 /\ trouble = 0

TroubleHappens == trouble < MaxTrouble /\ trouble' = trouble + 1

\* prepare_collaboration_step: the first required role of the phase.
AgentFor(p) == Assigned[Required[p][1]]

Prepare ==
  /\ pc = "prepare"
  /\ pc' = "cli"
  /\ step' = [step EXCEPT !.phase = Phase, !.agent = AgentFor(Phase)]
  /\ UNCHANGED <<collab, outside, trouble>>

\* ChatCliWorkflow returns a text: an answer, or the CLI's error.
Generate ==
  /\ pc = "cli"
  /\ pc' = "record"
  /\ step' = [step EXCEPT !.attempt = 1]
  /\ UNCHANGED <<collab, outside, trouble>>

\* Mutant of AttemptFails: the retry policy has no limit.
AttemptFails_Forever ==
  /\ pc' = pc
  /\ step' = [step EXCEPT !.runner = None]

\* The attempt under way has failed: another one, or the workflow fails.
AttemptFails ==
  /\ pc' = IF step.attempt < Attempts THEN pc ELSE "failed"
  /\ step' = [step EXCEPT !.attempt = @ + 1, !.runner = None]

\* record_collaboration_step: a refused contribution is an error.
StartAttempt(w) ==
  /\ pc = "record" /\ step.runner = None
  /\ serving[w] = Free
  /\ \/ /\ Enter(w, step.agent, TRUE, step.phase)
        /\ step' = [step EXCEPT !.runner = w]
        /\ UNCHANGED pc
     \/ /\ ~Accepted(step.agent, TRUE)
        /\ AttemptFails
        /\ UNCHANGED collab
  /\ UNCHANGED <<outside, trouble>>

\* The step is recorded: the workflow goes on, told of the status as the call
\* left it in its own session, whatever others have made of the row.
AfterStep(w) ==
  /\ pc' = IF \/ Moved(serving[w].row, serving[w].agrees).status = "completed"
              \/ step.round = LastRound
             THEN "finalize" ELSE "prepare"
  /\ step' = [round |-> IF pc' = "prepare" THEN step.round + 1 ELSE step.round,
              phase |-> None, agent |-> None, attempt |-> 0, runner |-> None]

Work(w) ==
  \/ Post(w) /\ UNCHANGED <<pc, step, outside, trouble>>
  \/ /\ Advance(w)
     /\ IF step.runner = w THEN AfterStep(w) ELSE UNCHANGED <<pc, step>>
     /\ UNCHANGED <<outside, trouble>>

\* The activity commits, but the worker dies before it can say so.
ResultLost(w) ==
  /\ step.runner = w /\ TroubleHappens
  /\ Advance(w)
  /\ AttemptFails
  /\ UNCHANGED outside

\* The attempt exceeds its time and runs on.
AttemptTimesOut ==
  /\ step.runner # None /\ TroubleHappens
  /\ AttemptFails
  /\ UNCHANGED <<collab, outside>>

WorkerDies(w) ==
  /\ TroubleHappens
  /\ Abort(w)
  /\ IF step.runner = w THEN AttemptFails ELSE UNCHANGED <<pc, step>>
  /\ UNCHANGED outside

\* finalize_collaboration, and the end of the workflow.
Finalize ==
  /\ pc = "finalize"
  /\ pc' = "reported"
  /\ UNCHANGED <<collab, step, outside, trouble>>

\* The child workflow fails, or all attempts of another activity do.
ActivityFails ==
  /\ pc \in {"prepare", "cli", "finalize"} /\ TroubleHappens
  /\ pc' = "failed"
  /\ UNCHANGED <<collab, step, outside>>

\* The advance endpoint.
Contribute(o) ==
  /\ outside < MaxOutside /\ outside' = outside + 1
  /\ \E agent \in Agents, agrees \in {TRUE, FALSE, None} : Enter(o, agent, agrees, Phase)
  /\ UNCHANGED <<pc, step, trouble>>

OutsiderStep(o) == (Post(o) \/ Advance(o) \/ Abort(o)) /\ UNCHANGED <<pc, step, outside, trouble>>

WorkflowStep == Prepare \/ Generate \/ Finalize \/ \E w \in Workers : StartAttempt(w) \/ Work(w)

Next ==
  \/ WorkflowStep
  \/ AttemptTimesOut \/ ActivityFails
  \/ \E w \in Workers : ResultLost(w) \/ WorkerDies(w)
  \/ \E o \in Outsiders : Contribute(o) \/ OutsiderStep(o)

\* Temporal keeps the workflow and its activities going.
Spec == Init /\ [][Next]_vars /\ WF_vars(WorkflowStep)

-----------------------------------------------------------------------------
(* What must hold                                                          *)

TypeOK ==
  /\ row \in [status : {"active", "completed"}, index : DOMAIN Phases,
              rounds : Nat, consensus : {"no", "yes", "partial"}]
  /\ board \in Seq([phase : ToSet(Phases), round : Nat, agent : Agents, about : ToSet(Phases)])
  /\ \A s \in Sessions : serving[s].pc \in {"free", "post", "advance"}
  /\ overtaken \in BOOLEAN /\ rewound \in BOOLEAN
  /\ pc \in {"prepare", "cli", "record", "finalize", "reported", "failed"}
  /\ step.round \in 0 .. LastRound /\ step.runner \in Workers \cup {None}
  /\ outside \in 0 .. MaxOutside /\ trouble \in 0 .. MaxTrouble

\* The agent that a phase asks for is accepted in no other but the first; the
\* first phase's may be asked again, but not in the second.  Of the patterns,
\* all but "debate_resolve" are like this.
OwnPhases ==
  \A k, j \in DOMAIN Phases :
    RoleOf(AgentFor(Phases[k])) \in ToSet(Required[Phases[j]])
      => j \in {k, 1} \/ (k = 1 /\ j > 2)

\* What was written for one phase is never recorded as a contribution to
\* another, however attempts fail, time out, run on and are retried, if the
\* phases are the agents' own, the workflow is the only contributor, and no
\* attempt is overtaken.
ContributionInItsPhase ==
  OwnPhases /\ outside = 0 /\ ~overtaken =>
    \A v \in DOMAIN board : board[v].about = board[v].phase

\* A report of the workflow is about a completed session, unless a call sent
\* the session back: a disagreement, or an attempt that ran on for too long.
ReportMeansCompleted == pc = "reported" /\ ~rewound => row.status = "completed"

\* Every coalition comes to an end.
CoalitionEnds == <>(pc \in {"reported", "failed"})
=============================================================================
