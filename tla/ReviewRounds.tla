---------------------------- MODULE ReviewRounds ----------------------------
(***************************************************************************)
(* The review pipeline: one review asks several CLIs about the same code,  *)
(* a round closes when all have reported, and the operator's reply opens   *)
(* the next one.  review_service.py keeps the row, ReviewWorkflow runs the *)
(* CLIs as child workflows and records what they said.                     *)
(*                                                                         *)
(* Every operation on the row reads it, decides, and writes it back in     *)
(* another statement, with no lock: SQLAlchemy's UPDATE carries only the   *)
(* columns whose value differs from the one that was read.                 *)
(***************************************************************************)
EXTENDS Naturals, FiniteSets

CONSTANTS
  Clis,          \* the names in review.clis
  Findings,      \* what a CLI may report, after clustering
  max_rounds,    \* rounds before the review ends anyway
  MaxWorkflows,  \* bound: ReviewWorkflows of one review
  MaxReplies,    \* bound: replies of the operator
  MaxFaults     \* bound: failures; a reply counts for three, a stray for two

ASSUME MaxRoundsAssumption == max_rounds \in Nat \ {0}
ASSUME BoundsAssumption ==
  MaxWorkflows \in Nat \ {0} /\ MaxReplies \in Nat /\ MaxFaults \in Nat

Workflows == 1 .. MaxWorkflows
maximum_attempts == 3    \* of the RetryPolicy

\* The attempt that a branch waits for, and one that it has given up on after
\* start_to_close_timeout, whose thread runs on: bound, one at a time.
Tries == {"ours", "stray"}

VARIABLES
  review,     \* the row: status, rounds_completed, per_cli, last_round, agreed
  trail,      \* trail[c][n]: CRITIQUE entries of c declaring round n
  rec,        \* rec[w][c][a]: the branch of workflow w for CLI c, and its stray
  child,      \* child[c]: the workflow whose child for c is open, 0 if none
  started,    \* workflows started so far
  reply,      \* the operator's POST /reply in flight
  replies,    \* replies made so far
  failures,   \* attempts that failed and entries that were lost, weighed
  opened,     \* history: rounds opened by the start and by replies
  overlap,    \* history: a write came between another's read and its write
  crossed,    \* history: a reply opened a round while CLIs were still out
  beside,     \* history: an attempt and its retry were both about to append
  undelivered \* history: a workflow was not started, or an activity gave up

reviewVars == <<review, trail, rec, child, started, reply, replies, failures,
          opened, overlap, crossed, beside, undelivered>>
history == <<opened, overlap, crossed, beside, undelivered>>

-----------------------------------------------------------------------------
(* The row                                                                 *)

NoSlots == [c \in {} |-> {}]

\* start_review
NewReview == [status |-> "running", rounds |-> 0, per_cli |-> NoSlots,
              last_round |-> 0, agreed |-> {}]

\* per_cli and last_round are parts of one JSON column, findings.
Column(col) ==
  IF col \in {"per_cli", "last_round"} THEN {"per_cli", "last_round"} ELSE {col}

\* UPDATE: the columns that differ from what was read; the others stay.
Columns(view, new) ==
  [col \in DOMAIN review |->
     IF \E part \in Column(col) : new[part] # view[part] THEN new[col] ELSE review[col]]

\* aggregate_findings, on findings that are already clustered.
Agreed(per_cli) ==
  {f \in Findings :
     Cardinality({c \in DOMAIN per_cli : f \in per_cli[c]}) >= 2}

\* Mutant of CloseRound: the status gate is missing.
CloseRound_NoGate(r) ==
  LET agreed == Agreed(r.per_cli)  n == r.rounds + 1 IN
    [r EXCEPT !.agreed = agreed, !.rounds = n,
              !.status = IF agreed = {} \/ n >= max_rounds THEN "done"
                                                           ELSE "awaiting_response"]

\* _close_round: nothing agreed, or no round left, ends the review.
CloseRound(r) ==
  IF r.status # "running" THEN r ELSE
    LET agreed == Agreed(r.per_cli)  n == r.rounds + 1 IN
      [r EXCEPT !.agreed = agreed, !.rounds = n,
                !.status = IF agreed = {} \/ n >= max_rounds THEN "done"
                                                             ELSE "awaiting_response"]

\* Mutant of Recorded: only a CLI that found something counts as heard.
Recorded_NonEmpty(view, c, out) ==
  LET slots == [k \in DOMAIN view.per_cli \cup {c} |->
                  IF k = c THEN out ELSE view.per_cli[k]]
      r == [view EXCEPT !.per_cli = slots, !.last_round = view.rounds]
  IN  IF \A k \in Clis : k \in DOMAIN slots /\ slots[k] # {} THEN CloseRound(r) ELSE r

\* record_cli_findings: the slot of c is replaced, and the round closes when
\* every CLI has one.
Recorded(view, c, out) ==
  LET slots == [k \in DOMAIN view.per_cli \cup {c} |->
                  IF k = c THEN out ELSE view.per_cli[k]]
      r == [view EXCEPT !.per_cli = slots, !.last_round = view.rounds]
  IN  IF Clis \subseteq DOMAIN slots THEN CloseRound(r) ELSE r

\* Mutant of Replied: the slots of the closed round stay.
Replied_KeepsSlots(view) ==
  IF view.status = "done" THEN view
  ELSE IF view.rounds >= max_rounds THEN [view EXCEPT !.status = "done"]
  ELSE [view EXCEPT !.status = "running", !.last_round = view.rounds, !.agreed = {}]

\* apply_reply
Replied(view) ==
  IF view.status = "done" THEN view
  ELSE IF view.rounds >= max_rounds THEN [view EXCEPT !.status = "done"]
  ELSE [view EXCEPT !.status = "running", !.per_cli = NoSlots,
                       !.last_round = view.rounds, !.agreed = {}]

-----------------------------------------------------------------------------
(* Branches of the workflows and the operator's reply                      *)

NoBranch == [pc |-> "none", attempt |-> 1, out |-> {}, view |-> NewReview]
NoReply == [pc |-> "idle", view |-> NewReview]

\* A branch whose activity has not been started.
Before(pc) ==
  [a \in Tries |-> IF a = "ours" THEN [NoBranch EXCEPT !.pc = pc] ELSE NoBranch]
Begun(w) == [rec EXCEPT ![w] = [c \in Clis |-> Before("dispatch")]]

\* start_review, and the dispatch of the first workflow: an exception there
\* reaches the caller, and the review is not modelled further.
ReviewInit ==
  /\ review = NewReview
  /\ trail = [c \in Clis |-> [n \in 0 .. max_rounds + MaxReplies |-> 0]]
  /\ rec = [w \in Workflows |-> [c \in Clis |->
              Before(IF w = 1 THEN "dispatch" ELSE "none")]]
  /\ child = [c \in Clis |-> 0]
  /\ started = 1
  /\ reply = NoReply
  /\ replies = 0 /\ failures = 0
  /\ opened = 1
  /\ overlap = FALSE /\ crossed = FALSE /\ beside = FALSE /\ undelivered = FALSE

At(w, c, a, pc) == rec[w][c][a].pc = pc
Out(w, c, a) == rec[w][c][a].pc \notin {"none", "done", "gave_up"}

\* An operation other than attempt (w, c, a), or the reply, has read the row.
Holds(w, c, a) == At(w, c, a, "write")
OthersHold(w, c, a) ==
  \/ reply.pc = "commit"
  \/ \E x \in Workflows, k \in Clis, b \in Tries :
       <<x, k, b>> # <<w, c, a>> /\ Holds(x, k, b)

\* The branches of a gather start their children in one workflow task.  A
\* child has one id per review and CLI, whatever the round: while an earlier
\* one has it, the start fails and counts as an empty report.
StartChildren(w) ==
  /\ \A c \in Clis : At(w, c, "ours", "dispatch")
  /\ child' = [c \in Clis |-> IF child[c] = 0 THEN w ELSE child[c]]
  /\ rec' = [rec EXCEPT ![w] = [c \in Clis |->
                Before(IF child[c] = 0 THEN "running" ELSE "record")]]
  /\ UNCHANGED <<review, trail, started, reply, replies, failures, history>>

\* The CLI answers; an error or a timeout leaves no finding either.
ChildEnds(w, c, out) ==
  /\ At(w, c, "ours", "running")
  /\ child' = [child EXCEPT ![c] = 0]
  /\ rec' = [rec EXCEPT ![w][c]["ours"].pc = "record", ![w][c]["ours"].out = out]
  /\ UNCHANGED <<review, trail, started, reply, replies, failures, history>>

\* An attempt that is through waits to be acknowledged, or has nobody to tell.
Through(a) == IF a = "ours" THEN "recorded" ELSE "done"

\* An attempt that has read the row, and where it goes on.
Reads(w, c, a, pc) ==
  /\ At(w, c, a, "record")
  /\ rec' = [rec EXCEPT ![w][c][a].view = review, ![w][c][a].pc = pc]
  /\ beside' = (beside \/ (pc = "append"
                             /\ \E b \in Tries \ {a} : At(w, c, b, "append")))
  /\ UNCHANGED <<review, trail, child, started, reply, replies, failures,
                 opened, overlap, crossed, undelivered>>

\* Mutant of RecordBegins: a retried attempt appends again.
RecordBegins_NoDedupe(w, c, a) ==
  Reads(w, c, a, IF review.status = "done" THEN Through(a) ELSE "append")

\* get_review, the status check and the search for an entry of this round.
RecordBegins(w, c, a) ==
  Reads(w, c, a, IF review.status = "done" THEN Through(a)
                 ELSE IF trail[c][review.rounds] > 0 THEN "write" ELSE "append")

\* add_entry commits, which expires the row: the next access reads it anew.
AppendEntry(w, c, a) ==
  /\ At(w, c, a, "append")
  /\ trail' = [trail EXCEPT ![c][rec[w][c][a].view.rounds] = @ + 1]
  /\ rec' = [rec EXCEPT ![w][c][a].pc = "write", ![w][c][a].view = review]
  /\ UNCHANGED <<review, child, started, reply, replies, failures, history>>

\* Best effort: an exception is rolled back, which expires the row as well,
\* and a board that is gone or closed returns None, which does not.
AppendLost(w, c, a, view) ==
  /\ At(w, c, a, "append") /\ view \in {review, rec[w][c][a].view}
  /\ failures' = failures + 1 /\ failures' + 3 * replies <= MaxFaults
  /\ rec' = [rec EXCEPT ![w][c][a].pc = "write", ![w][c][a].view = view]
  /\ overlap' = (overlap \/ view # review)
  /\ UNCHANGED <<review, trail, child, started, reply, replies,
                 opened, crossed, beside, undelivered>>

\* The slot, and what closing the round changes, in one commit.
RecordCommits(w, c, a) ==
  /\ At(w, c, a, "write")
  /\ LET view == rec[w][c][a].view IN
       review' = Columns(view, Recorded(view, c, rec[w][c][a].out))
  /\ rec' = [rec EXCEPT ![w][c][a].pc = Through(a), ![w][c][a].view = NewReview]
  /\ overlap' = (overlap \/ (review' # review /\ OthersHold(w, c, a)))
  /\ UNCHANGED <<trail, child, started, reply, replies, failures,
                 opened, crossed, beside, undelivered>>

RecordAcked(w, c) ==
  /\ At(w, c, "ours", "recorded")
  /\ rec' = [rec EXCEPT ![w][c]["ours"].pc = "done", ![w][c]["ours"].attempt = 1]
  /\ UNCHANGED <<review, trail, child, started, reply, replies, failures, history>>

\* The attempt dies, its acknowledgement is lost, or it is timed out: then its
\* thread may run on, beside the next attempt.  The third is the last.
RecordFails(w, c, runsOn) ==
  LET ours == rec[w][c]["ours"]
      again == [ours EXCEPT !.pc = "record", !.attempt = @ + 1, !.view = NewReview]
      over == [ours EXCEPT !.pc = "gave_up", !.view = NewReview]
      retried == ours.attempt < maximum_attempts
  IN
  /\ ours.pc \in {"record", "append", "write", "recorded"}
  /\ runsOn => ours.pc # "recorded" /\ ~Out(w, c, "stray")
  /\ failures' = failures + (IF runsOn THEN 2 ELSE 1)
  /\ failures' + 3 * replies <= MaxFaults
  /\ rec' = [rec EXCEPT ![w][c] = [a \in Tries |->
                IF a = "ours" THEN IF retried THEN again ELSE over
                              ELSE IF runsOn THEN [ours EXCEPT !.attempt = 1]
                              ELSE rec[w][c][a]]]
  /\ undelivered' = (undelivered \/ ~retried)
  /\ UNCHANGED <<review, trail, child, started, reply, replies, opened, overlap, crossed, beside>>

\* POST /reply reads the row.
ReplyBegins ==
  /\ reply.pc = "idle" /\ replies < MaxReplies
  /\ failures + 3 * replies + 3 <= MaxFaults
  /\ reply' = [pc |-> "commit", view |-> review]
  /\ replies' = replies + 1
  /\ UNCHANGED <<review, trail, rec, child, started, failures, history>>

\* It writes the row, and starts a workflow if the review now runs; a start
\* that fails is logged.
ReplyCommits(ok) ==
  /\ reply.pc = "commit"
  /\ review' = Columns(reply.view, Replied(reply.view))
  /\ reply' = NoReply
  /\ overlap' = (overlap \/ (review' # review /\
                             \E w \in Workflows, c \in Clis, a \in Tries : Holds(w, c, a)))
  /\ LET runs == Replied(reply.view).status = "running" IN
       /\ ok => runs /\ started < MaxWorkflows
       /\ opened' = IF runs /\ reply.view.status # "running" THEN opened + 1 ELSE opened
       /\ crossed' = (crossed \/ (runs /\
            \E w \in Workflows, c \in Clis, a \in Tries : Out(w, c, a)))
       /\ undelivered' = (undelivered \/ (runs /\ ~ok))
       /\ started' = IF ok THEN started + 1 ELSE started
       /\ rec' = IF ok THEN Begun(started + 1) ELSE rec
  /\ UNCHANGED <<trail, child, replies, failures, beside>>

-----------------------------------------------------------------------------
Record(w, c, a) ==
  RecordBegins(w, c, a) \/ AppendEntry(w, c, a) \/ RecordCommits(w, c, a)

Branch(w, c) ==
  \/ \E out \in SUBSET Findings : ChildEnds(w, c, out)
  \/ Record(w, c, "ours")
  \/ RecordAcked(w, c)

\* Steps that the workflow engine and the endpoint owe.
Progress ==
  \/ \E w \in Workflows : StartChildren(w)
  \/ \E w \in Workflows, c \in Clis : Branch(w, c)
  \/ \E ok \in BOOLEAN : ReplyCommits(ok)

ReviewNext ==
  \/ Progress
  \/ \E w \in Workflows, c \in Clis : Record(w, c, "stray")
  \/ \E w \in Workflows, c \in Clis, a \in Tries :
       AppendLost(w, c, a, review) \/ AppendLost(w, c, a, rec[w][c][a].view)
  \/ \E w \in Workflows, c \in Clis, runsOn \in BOOLEAN : RecordFails(w, c, runsOn)
  \/ ReplyBegins

\* Temporal runs branches to their end (a CLI has a timeout of 15 minutes) and
\* the endpoint finishes its request; nobody is obliged to reply or to fail, and a
\* stray attempt may die at any step, which is that it takes no other.
Fairness == WF_reviewVars(Progress)

ReviewSpec == ReviewInit /\ [][ReviewNext]_reviewVars /\ Fairness

-----------------------------------------------------------------------------
(* What must hold                                                          *)

Rounds == 0 .. max_rounds + MaxReplies
Rows == [status : {"running", "awaiting_response", "done"}, rounds : Rounds,
         per_cli : UNION {[S -> SUBSET Findings] : S \in SUBSET Clis},
         last_round : Rounds, agreed : SUBSET Findings]

ReviewTypeOK ==
  /\ review \in Rows
  /\ trail \in [Clis -> [Rounds -> Nat]]
  /\ rec \in [Workflows -> [Clis -> [Tries ->
       [pc : {"none", "dispatch", "running", "record", "append", "write",
              "recorded", "done", "gave_up"},
        attempt : 1 .. maximum_attempts, out : SUBSET Findings, view : Rows]]]]
  /\ child \in [Clis -> 0 .. MaxWorkflows]
  /\ started \in Workflows
  /\ reply \in [pc : {"idle", "commit"}, view : Rows]
  /\ replies \in 0 .. MaxReplies /\ failures \in 0 .. MaxFaults
  /\ opened \in 1 .. MaxReplies + 1
  /\ overlap \in BOOLEAN /\ crossed \in BOOLEAN
  /\ beside \in BOOLEAN /\ undelivered \in BOOLEAN

\* While no two operations overlap, every round that was opened is counted
\* exactly once, late and repeated records included, and a running review
\* has a round left: _close_round's gate.
RoundsCountedOnce ==
  ~overlap =>
    /\ review.rounds = IF review.status = "running" THEN opened - 1 ELSE opened
    /\ review.status # "done" => review.rounds < max_rounds

\* However often an activity is retried, attempts that run on after their
\* timeout included, a CLI has at most one entry per round in the audit trail;
\* unless a reply overtook the CLIs of its round, or an attempt and its retry
\* both searched the trail before either appended: the check that
\* record_cli_findings makes is no lock, and then there are two.
OneEntryPerRound ==
  ~crossed /\ ~beside => \A c \in Clis : \A n \in Rounds : trail[c][n] <= 1

Reported(w) == \A c \in Clis : rec[w][c]["ours"].pc = "done"

\* What the operator reads is the vote of the round's own CLIs: two of them
\* reported each agreed finding, and every finding of two of them is there.
VoteIsOfThisRound ==
  ~overlap /\ ~crossed /\ ~undelivered /\ Reported(started)
    => review.agreed = Agreed([c \in Clis |-> rec[started][c]["ours"].out])

Untroubled == ~overlap /\ ~undelivered

\* A running round ends, unless a start or an activity was given up, or two
\* operations overlapped and one lost what the other wrote.
RoundEnds == review.status = "running" /\ Untroubled ~> review.status # "running" \/ ~Untroubled
=============================================================================
