-------------------------- MODULE BlackboardProofs --------------------------
(***************************************************************************)
(* The two pipelines that collect contributions on a blackboard, for any   *)
(* reviewers, findings, agents, phases, workers and faults: ReviewRounds   *)
(* and CoalitionWorkflow.                                                  *)
(*                                                                         *)
(* ReviewRounds, the argument: as long as no two operations overlap, what  *)
(* a branch or the reply has read is still what the row holds when it      *)
(* writes, so that the UPDATE makes of the row what the operation alone    *)
(* would; as long as no reply overtakes the CLIs of its round, only the    *)
(* branches of the last workflow are out, and of a branch only one attempt *)
(* is about to append, unless a retry searched the trail beside the one it *)
(* replaces.                                                               *)
(*                                                                         *)
(* CoalitionWorkflow, the argument: a call that has posted its entry has   *)
(* seen all phases up to its own entered, in the round that it still       *)
(* advances unless it was overtaken; each recorded step takes the session  *)
(* at least one phase further, unless it was set back; and while only the  *)
(* workflow contributes, the session is at the phase that the attempts     *)
(* under way are for, or at one where their agent is refused.              *)
(***************************************************************************)
EXTENDS ReviewRounds, CoalitionWorkflow, FiniteSetTheorems, SequenceTheorems, TLAPS

-----------------------------------------------------------------------------
(* Reviews: the invariant                                                  *)

\* Replies that were carried out.
Answered == IF reply.pc = "commit" THEN replies - 1 ELSE replies

\* Only a reply sets a review running again, and it closes once or, by views
\* that are equally old, into the same round.
Within(row_) ==
  row_.rounds <= Answered + 1 /\ (row_.status = "running" => row_.rounds <= Answered)

RoundsWithin ==
  /\ reply.pc = "commit" => replies > 0
  /\ Within(review) /\ Within(reply.view)
  /\ \A w \in Workflows, c \in Clis, a \in Tries : Within(rec[w][c][a].view)
  /\ opened <= Answered + 1

\* Whoever is about to write has read what the row holds.
ViewsFresh ==
  ~overlap =>
    /\ reply.pc = "commit" => reply.view = review
    /\ \A w \in Workflows, c \in Clis, a \in Tries :
         Holds(w, c, a) => rec[w][c][a].view = review

\* The CLIs of earlier rounds are not out, and the entry that an attempt is
\* about to append is not there yet, nor about to be appended by another.
OneRoundOut ==
  ~crossed =>
    /\ \A w \in Workflows, c \in Clis, a \in Tries : w # started => ~Out(w, c, a)
    /\ ~beside => \A w \in Workflows, c \in Clis, a \in Tries :
         At(w, c, a, "append") =>
           /\ trail[c][rec[w][c][a].view.rounds] = 0
           /\ \A b \in Tries \ {a} : ~At(w, c, b, "append")

\* A stray attempt is of a branch whose child has ended, and writes the same.
StraysFollow ==
  \A w \in Workflows, c \in Clis : Out(w, c, "stray") =>
    /\ rec[w][c]["ours"].pc \notin {"none", "dispatch", "running"}
    /\ rec[w][c]["stray"].out = rec[w][c]["ours"].out

\* The slots are the reports of the round's own CLIs so far; a round is open
\* until the last has reported, and closed with what they agree on.
SlotsTally ==
  ~overlap /\ ~crossed /\ ~undelivered =>
    /\ \A c \in DOMAIN review.per_cli : review.per_cli[c] = rec[started][c]["ours"].out
    /\ \A c \in Clis : rec[started][c]["ours"].pc \notin {"none", "gave_up"}
    /\ \A c \in Clis : rec[started][c]["ours"].pc \in {"dispatch", "running"}
                         => c \notin DOMAIN review.per_cli
    /\ \A c \in Clis : rec[started][c]["ours"].pc \in {"recorded", "done"}
                         => c \in DOMAIN review.per_cli
    /\ review.status = "running" =>
         review.agreed = {} /\ (Clis # {} => ~(Clis \subseteq DOMAIN review.per_cli))
    /\ review.status # "running" =>
         Clis \subseteq DOMAIN review.per_cli /\ review.agreed = Agreed(review.per_cli)

ReviewInv ==
  /\ ReviewTypeOK
  /\ RoundsWithin
  /\ ViewsFresh
  /\ RoundsCountedOnce
  /\ OneRoundOut
  /\ OneEntryPerRound
  /\ StraysFollow
  /\ SlotsTally

-----------------------------------------------------------------------------
(* Reviews: the row                                                        *)

Statuses == {"running", "awaiting_response", "done"}
Slots == UNION {[S -> SUBSET Findings] : S \in SUBSET Clis}
Branches == [pc : {"none", "dispatch", "running", "record", "append", "write",
                   "recorded", "done", "gave_up"},
             attempt : 1 .. maximum_attempts, out : SUBSET Findings, view : Rows]

LEMMA SlotsFacts ==
  /\ NoSlots \in Slots /\ DOMAIN NoSlots = {}
  /\ \A s \in Slots : /\ DOMAIN s \subseteq Clis
                      /\ s = [k \in DOMAIN s |-> s[k]]
                      /\ \A k \in DOMAIN s : s[k] \in SUBSET Findings
  /\ \A S \in SUBSET Clis : [S -> SUBSET Findings] \subseteq Slots
<1>1. \A S \in SUBSET Clis : [S -> SUBSET Findings] \subseteq Slots
  BY DEF Slots
<1>2. DOMAIN NoSlots = {} /\ NoSlots \in [{} -> SUBSET Findings]
  BY DEF NoSlots
<1>3. NoSlots \in Slots
  BY <1>1, <1>2
<1>4. ASSUME NEW s \in Slots
      PROVE  /\ DOMAIN s \subseteq Clis
             /\ s = [k \in DOMAIN s |-> s[k]]
             /\ \A k \in DOMAIN s : s[k] \in SUBSET Findings
  <2>1. PICK S \in SUBSET Clis : s \in [S -> SUBSET Findings]
    BY DEF Slots
  <2> QED
    BY <2>1
<1> QED
  BY <1>1, <1>2, <1>3, <1>4

\* A row by its columns.
LEMMA RowFacts ==
  /\ Rows = [status : Statuses, rounds : Rounds, per_cli : Slots,
             last_round : Rounds, agreed : SUBSET Findings]
  /\ \A r \in Rows : /\ r.status \in Statuses /\ r.rounds \in Nat /\ r.rounds \in Rounds
                     /\ r.per_cli \in Slots /\ r.last_round \in Rounds
                     /\ r.agreed \in SUBSET Findings
  /\ NewReview \in Rows /\ 0 \in Rounds
<1>1. Rounds \subseteq Nat /\ 0 \in Rounds
  BY MaxRoundsAssumption, BoundsAssumption DEF Rounds
<1>2. Rows = [status : Statuses, rounds : Rounds, per_cli : Slots,
              last_round : Rounds, agreed : SUBSET Findings]
  BY DEF Rows, Statuses, Slots
<1>3. \A r \in Rows : /\ r.status \in Statuses /\ r.rounds \in Rounds
                      /\ r.per_cli \in Slots /\ r.last_round \in Rounds
                      /\ r.agreed \in SUBSET Findings
  BY <1>2
<1>4. NewReview \in Rows
  BY <1>1, <1>2, SlotsFacts DEF NewReview, Statuses
<1> QED
  BY <1>1, <1>2, <1>3, <1>4

\* An UPDATE, column by column; on what was read it leaves what it was to make.
LEMMA ColumnsFacts ==
  ASSUME review \in Rows, NEW view \in Rows, NEW new \in Rows
  PROVE  LET row_ == Columns(view, new) IN
         /\ row_ \in Rows
         /\ row_.status = IF new.status # view.status THEN new.status ELSE review.status
         /\ row_.rounds = IF new.rounds # view.rounds THEN new.rounds ELSE review.rounds
         /\ view = review => row_ = new
<1> DEFINE row_ == Columns(view, new)
           cols == {"status", "rounds", "per_cli", "last_round", "agreed"}
<1>1. DOMAIN review = cols /\ DOMAIN new = cols
  BY DEF Rows
<1>2. /\ DOMAIN row_ = cols
      /\ \A col \in cols : row_[col] = IF \E part \in Column(col) : new[part] # view[part]
                                        THEN new[col] ELSE review[col]
      /\ row_ = [col \in cols |-> row_[col]]
  BY <1>1 DEF Columns
<1> HIDE DEF row_
<1>3. Column("status") = {"status"} /\ Column("rounds") = {"rounds"}
  BY DEF Column
<1>4. /\ row_.status = IF new.status # view.status THEN new.status ELSE review.status
      /\ row_.rounds = IF new.rounds # view.rounds THEN new.rounds ELSE review.rounds
      /\ \A col \in cols : row_[col] \in {new[col], review[col]}
  BY <1>2, <1>3
<1>5. row_ = [status |-> row_["status"], rounds |-> row_["rounds"], per_cli |-> row_["per_cli"],
              last_round |-> row_["last_round"], agreed |-> row_["agreed"]]
  BY <1>2
<1>6. row_ \in Rows
  <2>1. /\ row_["status"] \in Statuses /\ row_["rounds"] \in Rounds /\ row_["per_cli"] \in Slots
        /\ row_["last_round"] \in Rounds /\ row_["agreed"] \in SUBSET Findings
    BY <1>4, RowFacts
  <2> QED
    BY <1>5, <2>1, RowFacts
<1>7. ASSUME view = review PROVE row_ = new
  <2>1. \A col \in cols : col \in Column(col)
    BY DEF Column
  <2>2. \A col \in cols : row_[col] = new[col]
    BY <1>2, <1>7, <2>1
  <2>3. new = [col \in cols |-> new[col]]
    BY <1>1 DEF Rows
  <2> QED
    BY <1>2, <2>2, <2>3
<1> QED
  BY <1>6, <1>7, <1>4 DEF row_

\* Whether the record of c closes the round.
SlotsWith(view, c, out) ==
  [k \in DOMAIN view.per_cli \cup {c} |-> IF k = c THEN out ELSE view.per_cli[k]]
Closes(view, c) == view.status = "running" /\ Clis \subseteq DOMAIN view.per_cli \cup {c}

\* A record makes these columns of the row it has read.
LEMMA RecordedFacts ==
  ASSUME NEW view \in Rows, NEW c \in Clis, NEW out \in SUBSET Findings,
         view.status = "running" => view.rounds + 1 \in Rounds
  PROVE  LET new == Recorded(view, c, out) IN
         /\ new \in Rows
         /\ new.per_cli = SlotsWith(view, c, out)
         /\ ~Closes(view, c) =>
              /\ new.status = view.status /\ new.rounds = view.rounds
              /\ new.agreed = view.agreed
         /\ Closes(view, c) =>
              /\ new.status \in {"awaiting_response", "done"}
              /\ new.rounds = view.rounds + 1
              /\ new.status # "done" => new.rounds < max_rounds
              /\ new.agreed = Agreed(new.per_cli)
<1> DEFINE slots == SlotsWith(view, c, out)
           r == [view EXCEPT !.per_cli = slots, !.last_round = view.rounds]
<1>1. DOMAIN slots = DOMAIN view.per_cli \cup {c} /\ slots \in Slots
  <2>1. DOMAIN slots \subseteq Clis /\ slots \in [DOMAIN slots -> SUBSET Findings]
    BY RowFacts, SlotsFacts DEF SlotsWith
  <2> QED
    BY <2>1, SlotsFacts DEF SlotsWith
<1> HIDE DEF slots
<1>2. /\ r \in Rows /\ r.per_cli = slots /\ r.status = view.status
      /\ r.rounds = view.rounds /\ r.agreed = view.agreed
  BY <1>1, RowFacts
<1>3. Recorded(view, c, out) = IF Clis \subseteq DOMAIN slots THEN CloseRound(r) ELSE r
  BY DEF Recorded, slots, SlotsWith
<1> HIDE DEF r
<1>4. CASE ~Closes(view, c)
  <2>1. Recorded(view, c, out) = r
    BY <1>1, <1>2, <1>3, <1>4 DEF Closes, CloseRound
  <2> QED
    BY <1>2, <1>4, <2>1 DEF slots
<1>5. CASE Closes(view, c)
  <2> DEFINE agreed == Agreed(r.per_cli)
             n == r.rounds + 1
             st == IF agreed = {} \/ n >= max_rounds THEN "done" ELSE "awaiting_response"
             new == [r EXCEPT !.agreed = agreed, !.rounds = n, !.status = st]
  <2>1. Recorded(view, c, out) = new
    BY <1>1, <1>2, <1>3, <1>5 DEF Closes, CloseRound
  <2>2. agreed \in SUBSET Findings
    BY DEF Agreed
  <2>3. n \in Rounds /\ n \in Nat /\ n = view.rounds + 1
    BY <1>2, <1>5, RowFacts DEF Closes
  <2>4. st \in {"awaiting_response", "done"} /\ (st # "done" => n < max_rounds)
    BY <2>3, MaxRoundsAssumption
  <2> HIDE DEF agreed, n, st
  <2>5. /\ new \in Rows /\ new.status = st /\ new.rounds = n /\ new.agreed = agreed
        /\ new.per_cli = r.per_cli
    BY <1>2, <2>2, <2>3, <2>4, RowFacts DEF Statuses
  <2> HIDE DEF new
  <2> QED
    BY <1>2, <1>5, <2>1, <2>3, <2>4, <2>5 DEF agreed, slots
<1> QED
  BY <1>4, <1>5

\* A reply makes these columns of the row it has read.
LEMMA RepliedFacts ==
  ASSUME NEW view \in Rows
  PROVE  LET new == Replied(view) IN
         /\ new \in Rows /\ new.rounds = view.rounds
         /\ \/ view.status = "done" /\ new = view
            \/ /\ view.status # "done" /\ view.rounds >= max_rounds
               /\ new.status = "done" /\ new.per_cli = view.per_cli /\ new.agreed = view.agreed
            \/ /\ view.status # "done" /\ view.rounds < max_rounds
               /\ new.status = "running" /\ new.per_cli = NoSlots /\ new.agreed = {}
<1>1. view.rounds \in Nat /\ max_rounds \in Nat
  BY RowFacts, MaxRoundsAssumption
<1>2. CASE view.status = "done"
  <2>1. Replied(view) = view
    BY <1>2 DEF Replied
  <2> QED
    BY <1>2, <2>1
<1>3. CASE view.status # "done" /\ view.rounds >= max_rounds
  <2>1. Replied(view) = [view EXCEPT !.status = "done"]
    BY <1>3 DEF Replied
  <2> QED
    BY <1>3, <2>1, RowFacts DEF Statuses
<1>4. CASE view.status # "done" /\ ~(view.rounds >= max_rounds)
  <2>1. Replied(view) = [view EXCEPT !.status = "running", !.per_cli = NoSlots,
                                     !.last_round = view.rounds, !.agreed = {}]
    BY <1>4 DEF Replied
  <2>2. view.rounds < max_rounds
    BY <1>1, <1>4
  <2> QED
    BY <1>4, <2>1, <2>2, RowFacts, SlotsFacts DEF Statuses
<1> QED
  BY <1>2, <1>3, <1>4

-----------------------------------------------------------------------------
(* Reviews: the branches                                                   *)

Pairs == [Tries -> Branches]

LEMMA BranchFacts ==
  /\ ReviewTypeOK => rec \in [Workflows -> [Clis -> Pairs]]
  /\ started \in Workflows => started + 1 \in Nat
  /\ NoBranch \in Branches /\ NoReply.view \in Rows
  /\ NoBranch.pc = "none" /\ NoBranch.view = NewReview /\ NoBranch.out = {}
  /\ \A b \in Branches : /\ b.out \in SUBSET Findings /\ b.view \in Rows
                         /\ b.attempt \in 1 .. maximum_attempts
<1>1. /\ NoReply.view \in Rows /\ NoBranch \in Branches
  BY RowFacts DEF NoReply, NoBranch, Branches, maximum_attempts
<1>2. NoBranch.pc = "none" /\ NoBranch.view = NewReview /\ NoBranch.out = {}
  BY DEF NoBranch
<1> QED
  BY <1>1, <1>2 DEF ReviewTypeOK, Branches, Pairs, Workflows

\* A branch that has not recorded, and has left no attempt behind.
LEMMA BeforeFacts ==
  ASSUME NEW pc_ \in {"none", "dispatch", "running", "record"}
  PROVE  /\ Before(pc_) \in Pairs
         /\ Before(pc_)["ours"].pc = pc_ /\ Before(pc_)["ours"].out = {}
         /\ Before(pc_)["stray"].pc = "none"
         /\ \A a \in Tries : Before(pc_)[a].view = NewReview /\ Before(pc_)[a].pc \in {"none", pc_}
<1>1. /\ [NoBranch EXCEPT !.pc = pc_] \in Branches
      /\ [NoBranch EXCEPT !.pc = pc_].pc = pc_
      /\ [NoBranch EXCEPT !.pc = pc_].view = NewReview
      /\ [NoBranch EXCEPT !.pc = pc_].out = {}
  BY BranchFacts DEF Branches, NoBranch
<1>2. /\ "ours" \in Tries /\ "stray" \in Tries
      /\ \A a \in Tries : Before(pc_)[a] = IF a = "ours" THEN [NoBranch EXCEPT !.pc = pc_] ELSE NoBranch
      /\ DOMAIN Before(pc_) = Tries
      /\ Before(pc_) = [a \in Tries |-> Before(pc_)[a]]
  BY DEF Before, Tries
<1>3. \A a \in Tries : Before(pc_)[a] \in Branches
  BY <1>1, <1>2, BranchFacts
<1>4. Before(pc_) \in Pairs
  BY <1>2, <1>3 DEF Pairs
<1> QED
  BY <1>1, <1>2, <1>4, BranchFacts

\* A branch, its stray included, that moves to p; one of the two, to b.
Moves(w, c, p) == rec' = [rec EXCEPT ![w][c] = p]
With(w, c, a, b) == [rec[w][c] EXCEPT ![a] = b]

LEMMA MovesFacts ==
  ASSUME ReviewTypeOK, NEW w \in Workflows, NEW c \in Clis, NEW p \in Pairs, Moves(w, c, p)
  PROVE  /\ rec' \in [Workflows -> [Clis -> Pairs]]
         /\ rec'[w][c] = p
         /\ \A x \in Workflows, k \in Clis : <<x, k>> # <<w, c>> => rec'[x][k] = rec[x][k]
<1>1. rec \in [Workflows -> [Clis -> Pairs]]
  BY BranchFacts
<1> QED
  BY <1>1 DEF Moves

LEMMA WithFacts ==
  ASSUME ReviewTypeOK, NEW w \in Workflows, NEW c \in Clis, NEW a \in Tries, NEW b \in Branches
  PROVE  /\ With(w, c, a, b) \in Pairs
         /\ With(w, c, a, b)[a] = b
         /\ \A d \in Tries \ {a} : With(w, c, a, b)[d] = rec[w][c][d]
         /\ Moves(w, c, With(w, c, a, b)) <=> rec' = [rec EXCEPT ![w][c][a] = b]
<1>1. rec \in [Workflows -> [Clis -> Pairs]] /\ rec[w][c] \in Pairs
  BY BranchFacts
<1> QED
  BY <1>1 DEF With, Pairs, Moves

\* The bounds that depend on the replies carry over to any row within them.
LEMMA AnsweredFacts ==
  ASSUME ReviewTypeOK, RoundsWithin
  PROVE  /\ Answered \in Nat /\ Answered <= MaxReplies
         /\ \A r \in Rows : Within(r) => r.rounds <= Answered + 1
         /\ \A n \in Nat : n <= Answered + 1 => n \in Rounds
         /\ Within(NewReview)
<1>1. replies \in 0 .. MaxReplies /\ MaxReplies \in Nat /\ max_rounds \in Nat /\ max_rounds >= 1
  BY MaxRoundsAssumption, BoundsAssumption DEF ReviewTypeOK
<1>2. Answered \in Nat /\ Answered <= MaxReplies
  BY <1>1 DEF RoundsWithin, Answered
<1>3. \A n \in Nat : n <= Answered + 1 => n \in Rounds
  BY <1>1, <1>2 DEF Rounds
<1>4. Within(NewReview)
  BY <1>2 DEF Within, NewReview
<1> QED
  BY <1>2, <1>3, <1>4 DEF Within

\* What a branch may become without touching the row.
MayMove(w, c, p) ==
  /\ p["ours"].pc \notin {"none", "dispatch", "running"}
  /\ p["stray"].pc \notin {"none", "done", "gave_up"} => p["stray"].out = p["ours"].out
  /\ \A a \in Tries : /\ Within(p[a].view)
                      /\ p[a].pc = "write" => (overlap' \/ p[a].view = review)
  /\ ~overlap /\ ~crossed /\ ~undelivered /\ w = started =>
       /\ p["ours"].pc = "gave_up" => undelivered'
       /\ c \in DOMAIN review.per_cli => p["ours"].out = rec[w][c]["ours"].out
       /\ p["ours"].pc \in {"recorded", "done"} => c \in DOMAIN review.per_cli

\* A branch that is out moves on, and the row stays.
LEMMA BranchMoves ==
  ASSUME ReviewInv, NEW w \in Workflows, NEW c \in Clis, NEW p \in Pairs,
         Moves(w, c, p), MayMove(w, c, p), \E a \in Tries : Out(w, c, a),
         UNCHANGED <<review, started, reply, replies, opened, crossed>>,
         overlap => overlap', undelivered => undelivered'
  PROVE  /\ rec' \in [Workflows -> [Clis -> Pairs]]
         /\ rec'[w][c] = p
         /\ \A x \in Workflows, k \in Clis : <<x, k>> # <<w, c>> => rec'[x][k] = rec[x][k]
         /\ RoundsWithin' /\ ViewsFresh' /\ RoundsCountedOnce' /\ StraysFollow' /\ SlotsTally'
         /\ ~crossed => /\ w = started
                        /\ \A x \in Workflows, k \in Clis, a \in Tries : x # started => ~Out(x, k, a)'
<1>1. /\ ReviewTypeOK /\ RoundsWithin /\ ViewsFresh /\ RoundsCountedOnce /\ OneRoundOut
      /\ StraysFollow /\ SlotsTally /\ "ours" \in Tries /\ "stray" \in Tries
  BY DEF ReviewInv, Tries
<1>2. /\ rec' \in [Workflows -> [Clis -> Pairs]]
      /\ rec'[w][c] = p
      /\ \A x \in Workflows, k \in Clis : <<x, k>> # <<w, c>> => rec'[x][k] = rec[x][k]
  BY <1>1, MovesFacts
<1>3. RoundsWithin'
  <2>1. Answered' = Answered
    BY DEF Answered
  <2>2. \A r : Within(r)' <=> Within(r)
    BY <2>1 DEF Within
  <2>3. \A x \in Workflows, k \in Clis, a \in Tries : Within(rec'[x][k][a].view)
    BY <1>1, <1>2 DEF RoundsWithin, MayMove
  <2> QED
    BY <1>1, <2>1, <2>2, <2>3 DEF RoundsWithin, Within
<1>4. ViewsFresh'
  <2> SUFFICES ASSUME ~overlap' PROVE ViewsFresh'
    BY DEF ViewsFresh
  <2>1. ASSUME NEW x \in Workflows, NEW k \in Clis, NEW a \in Tries, Holds(x, k, a)'
        PROVE  rec'[x][k][a].view = review
    <3>1. CASE <<x, k>> = <<w, c>>
      BY <1>2, <2>1, <3>1 DEF Holds, At, MayMove
    <3>2. CASE <<x, k>> # <<w, c>>
      BY <1>1, <1>2, <2>1, <3>2 DEF ViewsFresh, Holds, At
    <3> QED
      BY <3>1, <3>2
  <2> QED
    BY <1>1, <2>1 DEF ViewsFresh
<1>5. RoundsCountedOnce'
  BY <1>1 DEF RoundsCountedOnce
<1>6. ASSUME ~crossed
      PROVE  /\ w = started
             /\ \A x \in Workflows, k \in Clis, a \in Tries : x # started => ~Out(x, k, a)'
  <2>1. w = started
    BY <1>1, <1>6 DEF OneRoundOut
  <2> QED
    BY <1>1, <1>2, <1>6, <2>1 DEF OneRoundOut, Out
<1>7. StraysFollow'
  BY <1>1, <1>2 DEF StraysFollow, Out, MayMove
<1>8. SlotsTally'
  <2> SUFFICES ASSUME ~overlap', ~crossed, ~undelivered'
               PROVE  SlotsTally'
    BY DEF SlotsTally
  <2>1. w = started /\ ~undelivered /\ ~overlap /\ started \in Workflows
    BY <1>1, <1>6 DEF ReviewTypeOK
  <2>2. rec'[started][c] = p /\ \A k \in Clis : k # c => rec'[started][k] = rec[started][k]
    BY <1>2, <2>1
  <2>3. DOMAIN review.per_cli \subseteq Clis
    BY <1>1, RowFacts, SlotsFacts DEF ReviewTypeOK
  <2>4. \A k \in DOMAIN review.per_cli : rec'[started][k]["ours"].out = rec[started][k]["ours"].out
    BY <2>1, <2>2, <2>3 DEF MayMove
  <2>5. \A k \in Clis :
          /\ rec'[started][k]["ours"].pc \notin {"none", "gave_up"}
          /\ rec'[started][k]["ours"].pc \in {"dispatch", "running"} => k \notin DOMAIN review.per_cli
          /\ rec'[started][k]["ours"].pc \in {"recorded", "done"} => k \in DOMAIN review.per_cli
    BY <1>1, <2>1, <2>2 DEF MayMove, SlotsTally
  <2> QED
    BY <1>1, <2>1, <2>4, <2>5 DEF SlotsTally
<1> QED
  BY <1>2, <1>3, <1>4, <1>5, <1>6, <1>7, <1>8

\* What the attempts of a branch that are about to append have not seen.
AppendsOnce(c, p) ==
  \A a \in Tries : p[a].pc = "append" =>
    /\ trail[c][p[a].view.rounds] = 0
    /\ \A b \in Tries \ {a} : p[b].pc # "append"

\* The trail is not written, and an entry about to be written is not there.
LEMMA TrailKeeps ==
  ASSUME ReviewInv, NEW w \in Workflows, NEW c \in Clis, NEW p \in Pairs,
         Moves(w, c, p), ~crossed /\ ~beside' => AppendsOnce(c, p),
         UNCHANGED <<trail, started, crossed>>, beside => beside',
         ~crossed => \A x \in Workflows, k \in Clis, a \in Tries : x # started => ~Out(x, k, a)'
  PROVE  OneRoundOut' /\ OneEntryPerRound'
<1>1. ReviewTypeOK /\ OneRoundOut /\ OneEntryPerRound
  BY DEF ReviewInv
<1>2. /\ rec'[w][c] = p
      /\ \A x \in Workflows, k \in Clis : <<x, k>> # <<w, c>> => rec'[x][k] = rec[x][k]
  BY <1>1, MovesFacts
<1>3. OneEntryPerRound'
  BY <1>1 DEF OneEntryPerRound
<1>4. ASSUME ~crossed, ~beside', NEW x \in Workflows, NEW k \in Clis, NEW a \in Tries,
             At(x, k, a, "append")'
      PROVE  /\ trail'[k][rec'[x][k][a].view.rounds] = 0
             /\ \A b \in Tries \ {a} : ~At(x, k, b, "append")'
  <2>1. CASE <<x, k>> = <<w, c>>
    BY <1>2, <1>4, <2>1 DEF At, AppendsOnce
  <2>2. CASE <<x, k>> # <<w, c>>
    BY <1>1, <1>2, <1>4, <2>2 DEF At, OneRoundOut
  <2> QED
    BY <2>1, <2>2
<1> QED
  BY <1>3, <1>4 DEF OneRoundOut

\* An attempt that goes on to the slot, and what it then holds of the row.
MayWrite(w, c, a, b) ==
  /\ b.pc = "write" /\ Within(b.view) /\ b.out = rec[w][c][a].out
  /\ overlap' \/ b.view = review

LEMMA AttemptWrites ==
  ASSUME ReviewInv, NEW w \in Workflows, NEW c \in Clis, NEW a \in Tries, NEW b \in Branches,
         rec' = [rec EXCEPT ![w][c][a] = b], MayWrite(w, c, a, b), rec[w][c][a].pc = "append",
         UNCHANGED <<review, started, reply, replies, opened, crossed, undelivered>>,
         overlap => overlap'
  PROVE  LET p == With(w, c, a, b) IN
         /\ p \in Pairs /\ Moves(w, c, p) /\ p[a] = b
         /\ \A d \in Tries \ {a} : p[d] = rec[w][c][d]
         /\ rec' \in [Workflows -> [Clis -> Pairs]]
         /\ rec'[w][c] = p
         /\ \A x \in Workflows, k \in Clis : <<x, k>> # <<w, c>> => rec'[x][k] = rec[x][k]
         /\ RoundsWithin' /\ ViewsFresh' /\ RoundsCountedOnce' /\ StraysFollow' /\ SlotsTally'
         /\ ~crossed => /\ w = started
                        /\ \A x \in Workflows, k \in Clis, d \in Tries : x # started => ~Out(x, k, d)'
<1> DEFINE p == With(w, c, a, b)
<1>1. /\ ReviewTypeOK /\ RoundsWithin /\ ViewsFresh /\ SlotsTally /\ StraysFollow
      /\ "ours" \in Tries /\ "stray" \in Tries /\ Tries = {"ours", "stray"}
  BY DEF ReviewInv, Tries
<1>2. p \in Pairs /\ p[a] = b /\ \A d \in Tries \ {a} : p[d] = rec[w][c][d]
  BY <1>1, WithFacts
<1>3. Moves(w, c, p)
  BY <1>1, WithFacts
<1> HIDE DEF p
<1>4. Out(w, c, a)
  BY DEF Out
<1>5. \A d \in Tries : Within(p[d].view) /\ (p[d].pc = "write" => overlap' \/ p[d].view = review)
  BY <1>1, <1>2 DEF MayWrite, RoundsWithin, ViewsFresh, Holds, At
<1>6. /\ p["ours"].pc \notin {"none", "dispatch", "running"}
      /\ p["ours"].out = rec[w][c]["ours"].out /\ p["stray"].out = rec[w][c]["stray"].out
      /\ p["ours"].pc = rec[w][c]["ours"].pc \/ p["ours"].pc = "write"
  BY <1>1, <1>2, <1>4 DEF MayWrite, StraysFollow
<1>7. p["stray"].pc \notin {"none", "done", "gave_up"} => p["stray"].out = p["ours"].out
  BY <1>1, <1>2, <1>6 DEF StraysFollow, Out
<1>8. MayMove(w, c, p)
  BY <1>1, <1>5, <1>6, <1>7 DEF MayMove, SlotsTally
<1> QED
  BY <1>2, <1>3, <1>4, <1>8, BranchMoves DEF p

LEMMA ChildEndsKeeps ==
  ASSUME ReviewInv, NEW w \in Workflows, NEW c \in Clis, NEW out \in SUBSET Findings,
         ChildEnds(w, c, out)
  PROVE  ReviewInv'
<1> DEFINE b == [rec[w][c]["ours"] EXCEPT !.pc = "record", !.out = out]
           p == With(w, c, "ours", b)
<1>1. /\ ReviewTypeOK /\ RoundsWithin /\ ViewsFresh /\ SlotsTally /\ StraysFollow /\ OneRoundOut
      /\ "ours" \in Tries /\ "stray" \in Tries /\ Tries = {"ours", "stray"}
  BY DEF ReviewInv, Tries
<1>2. /\ rec \in [Workflows -> [Clis -> Pairs]] /\ rec[w][c] \in Pairs
      /\ rec[w][c]["ours"] \in Branches
  BY <1>1, BranchFacts DEF Pairs
<1>3. b \in Branches /\ b.pc = "record" /\ b.view = rec[w][c]["ours"].view
  BY <1>2 DEF Branches
<1>4. rec' = [rec EXCEPT ![w][c]["ours"] = b]
  <2>1. rec' = [rec EXCEPT ![w][c]["ours"].pc = "record", ![w][c]["ours"].out = out]
    BY DEF ChildEnds
  <2> QED
    BY <1>1, <1>2, <2>1 DEF Pairs
<1>5. rec[w][c]["ours"].pc = "running"
  BY DEF ChildEnds, At
<1> HIDE DEF b
<1>6. /\ p \in Pairs /\ Moves(w, c, p) /\ p["ours"] = b /\ p["stray"] = rec[w][c]["stray"]
  <2>1. /\ p \in Pairs /\ p["ours"] = b
        /\ \A d \in Tries \ {"ours"} : p[d] = rec[w][c][d]
    BY <1>1, <1>3, WithFacts
  <2>2. Moves(w, c, p)
    BY <1>1, <1>3, <1>4, WithFacts
  <2> QED
    BY <1>1, <2>1, <2>2
<1> HIDE DEF p
<1>7. \E a \in Tries : Out(w, c, a)
  BY <1>1, <1>5 DEF Out
<1>8. ~Out(w, c, "stray")
  BY <1>1, <1>5 DEF StraysFollow
<1>9. MayMove(w, c, p)
  <2>1. \A a \in Tries : Within(p[a].view) /\ p[a].pc # "write"
    BY <1>1, <1>3, <1>6, <1>8 DEF RoundsWithin, Out
  <2> QED
    BY <1>1, <1>3, <1>5, <1>6, <1>8, <2>1 DEF MayMove, SlotsTally, Out
<1>10. /\ UNCHANGED <<review, trail, started, reply, replies, opened, overlap, crossed, beside,
                      undelivered>>
  BY DEF ChildEnds, history
<1>11. /\ rec' \in [Workflows -> [Clis -> Pairs]]
       /\ RoundsWithin' /\ ViewsFresh' /\ RoundsCountedOnce' /\ StraysFollow' /\ SlotsTally'
       /\ ~crossed => \A x \in Workflows, k \in Clis, a \in Tries : x # started => ~Out(x, k, a)'
  BY <1>6, <1>7, <1>9, <1>10, BranchMoves
<1>12. AppendsOnce(c, p)
  BY <1>1, <1>3, <1>6, <1>8 DEF AppendsOnce, Out
<1>13. OneRoundOut' /\ OneEntryPerRound'
  BY <1>6, <1>10, <1>11, <1>12, TrailKeeps
<1>14. ReviewTypeOK'
  <2>1. UNCHANGED failures /\ child' = [child EXCEPT ![c] = 0]
    BY DEF ChildEnds
  <2>2. child' \in [Clis -> 0 .. MaxWorkflows]
    BY <1>1, <2>1, BoundsAssumption DEF ReviewTypeOK
  <2> QED
    BY <1>1, <1>10, <1>11, <2>1, <2>2 DEF ReviewTypeOK, Branches, Pairs
<1> QED
  BY <1>11, <1>13, <1>14 DEF ReviewInv

LEMMA RecordBeginsKeeps ==
  ASSUME ReviewInv, NEW w \in Workflows, NEW c \in Clis, NEW a \in Tries, RecordBegins(w, c, a)
  PROVE  ReviewInv'
<1> DEFINE to == IF review.status = "done" THEN Through(a)
                 ELSE IF trail[c][review.rounds] > 0 THEN "write" ELSE "append"
           b == [rec[w][c][a] EXCEPT !.view = review, !.pc = to]
           p == With(w, c, a, b)
<1>1. /\ ReviewTypeOK /\ RoundsWithin /\ ViewsFresh /\ SlotsTally /\ StraysFollow /\ OneRoundOut
      /\ "ours" \in Tries /\ "stray" \in Tries /\ Tries = {"ours", "stray"}
  BY DEF ReviewInv, Tries
<1>2. /\ rec \in [Workflows -> [Clis -> Pairs]] /\ rec[w][c] \in Pairs
      /\ rec[w][c][a] \in Branches /\ review \in Rows
  BY <1>1, BranchFacts DEF Pairs, ReviewTypeOK
<1>3. to \in {"recorded", "done", "write", "append"} /\ (a = "ours" => to # "done")
  BY DEF Through
<1>4. /\ to = "append" => trail[c][review.rounds] = 0
      /\ to = "recorded" => review.status # "running"
  <2>1. review.rounds \in Rounds /\ trail[c][review.rounds] \in Nat
    BY <1>1, RowFacts DEF ReviewTypeOK
  <2> QED
    BY <2>1 DEF Through
<1>5. /\ At(w, c, a, "record")
      /\ rec' = [rec EXCEPT ![w][c][a].view = review, ![w][c][a].pc = to]
      /\ beside' = (beside \/ (to = "append" /\ \E d \in Tries \ {a} : At(w, c, d, "append")))
      /\ UNCHANGED <<review, trail, child, started, reply, replies, failures,
                     opened, overlap, crossed, undelivered>>
  BY DEF RecordBegins, Reads
<1> HIDE DEF to
<1>6. b \in Branches /\ b.pc = to /\ b.view = review /\ b.out = rec[w][c][a].out
  BY <1>2, <1>3 DEF Branches
<1>7. rec' = [rec EXCEPT ![w][c][a] = b]
  BY <1>2, <1>5 DEF Pairs
<1> HIDE DEF b
<1>8. /\ p \in Pairs /\ Moves(w, c, p) /\ p[a] = b
      /\ \A d \in Tries \ {a} : p[d] = rec[w][c][d]
  <2>1. /\ p \in Pairs /\ p[a] = b
        /\ \A d \in Tries \ {a} : p[d] = rec[w][c][d]
    BY <1>1, <1>6, WithFacts
  <2>2. Moves(w, c, p)
    BY <1>1, <1>6, <1>7, WithFacts
  <2> QED
    BY <2>1, <2>2
<1> HIDE DEF p
<1>9. Out(w, c, a) /\ rec[w][c][a].pc = "record"
  BY <1>5 DEF Out, At
<1>10. MayMove(w, c, p)
  <2>1. \A d \in Tries : Within(p[d].view) /\ (p[d].pc = "write" => overlap' \/ p[d].view = review)
    BY <1>1, <1>5, <1>6, <1>8 DEF RoundsWithin, ViewsFresh, Holds, At
  <2>2. CASE a = "ours"
    <3>1. p["ours"] = b /\ p["stray"] = rec[w][c]["stray"]
      BY <1>1, <1>8, <2>2
    <3> QED
      BY <1>1, <1>3, <1>4, <1>6, <1>9, <2>1, <2>2, <3>1 DEF MayMove, SlotsTally, StraysFollow, Out
  <2>3. CASE a = "stray"
    <3>1. p["stray"] = b /\ p["ours"] = rec[w][c]["ours"]
      BY <1>1, <1>8, <2>3
    <3>3. /\ rec[w][c]["ours"].pc \notin {"none", "dispatch", "running"}
          /\ b.out = rec[w][c]["ours"].out
      BY <1>1, <1>6, <1>9, <2>3 DEF StraysFollow
    <3>4. ~overlap /\ ~crossed /\ ~undelivered /\ w = started =>
            /\ p["ours"].pc # "gave_up"
            /\ p["ours"].pc \in {"recorded", "done"} => c \in DOMAIN review.per_cli
      BY <1>1, <3>1 DEF SlotsTally
    <3> QED
      BY <2>1, <3>1, <3>3, <3>4 DEF MayMove
  <2> QED
    BY <1>1, <2>2, <2>3
<1>11. /\ rec' \in [Workflows -> [Clis -> Pairs]]
       /\ RoundsWithin' /\ ViewsFresh' /\ RoundsCountedOnce' /\ StraysFollow' /\ SlotsTally'
       /\ ~crossed => \A x \in Workflows, k \in Clis, d \in Tries : x # started => ~Out(x, k, d)'
  BY <1>5, <1>8, <1>9, <1>10, BranchMoves
<1>12. ~crossed /\ ~beside' => AppendsOnce(c, p)
  <2> SUFFICES ASSUME ~crossed, ~beside' PROVE AppendsOnce(c, p)
    OBVIOUS
  <2>1. to = "append" => \A d \in Tries \ {a} : ~At(w, c, d, "append")
    BY <1>5
  <2>2. \A d \in Tries : At(w, c, d, "append") =>
          /\ trail[c][rec[w][c][d].view.rounds] = 0
          /\ \A e \in Tries \ {d} : ~At(w, c, e, "append")
    BY <1>1, <1>5 DEF OneRoundOut
  <2> QED
    BY <1>4, <1>6, <1>8, <2>1, <2>2 DEF AppendsOnce, At
<1>13. OneRoundOut' /\ OneEntryPerRound'
  BY <1>5, <1>8, <1>11, <1>12, TrailKeeps
<1>14. beside' \in BOOLEAN
  BY <1>5
<1>15. ReviewTypeOK'
  BY <1>1, <1>5, <1>11, <1>14 DEF ReviewTypeOK, Branches, Pairs
<1> QED
  BY <1>11, <1>13, <1>15 DEF ReviewInv

LEMMA AppendEntryKeeps ==
  ASSUME ReviewInv, NEW w \in Workflows, NEW c \in Clis, NEW a \in Tries, AppendEntry(w, c, a)
  PROVE  ReviewInv'
<1> DEFINE b == [rec[w][c][a] EXCEPT !.pc = "write", !.view = review]
           p == With(w, c, a, b)
           n == rec[w][c][a].view.rounds
<1>1. /\ ReviewTypeOK /\ RoundsWithin /\ SlotsTally /\ OneRoundOut /\ OneEntryPerRound
  BY DEF ReviewInv
<1>2. /\ rec \in [Workflows -> [Clis -> Pairs]] /\ rec[w][c] \in Pairs
      /\ rec[w][c][a] \in Branches /\ review \in Rows
  BY <1>1, BranchFacts DEF Pairs, ReviewTypeOK
<1>3. /\ At(w, c, a, "append")
      /\ rec' = [rec EXCEPT ![w][c][a].pc = "write", ![w][c][a].view = review]
      /\ trail' = [trail EXCEPT ![c][n] = @ + 1]
      /\ UNCHANGED <<review, child, started, reply, replies, failures, opened, overlap,
                     crossed, beside, undelivered>>
  BY DEF AppendEntry, history
<1>4. b \in Branches /\ b.pc = "write" /\ b.view = review /\ b.out = rec[w][c][a].out
  BY <1>2 DEF Branches
<1>5. rec' = [rec EXCEPT ![w][c][a] = b]
  BY <1>2, <1>3 DEF Pairs
<1> HIDE DEF b
<1>6. rec[w][c][a].pc = "append"
  BY <1>3 DEF At
<1>7. MayWrite(w, c, a, b)
  BY <1>1, <1>4, <1>6 DEF MayWrite, RoundsWithin
<1>8. /\ p \in Pairs /\ Moves(w, c, p) /\ p[a] = b
      /\ \A d \in Tries \ {a} : p[d] = rec[w][c][d]
      /\ rec' \in [Workflows -> [Clis -> Pairs]]
      /\ rec'[w][c] = p
      /\ \A x \in Workflows, k \in Clis : <<x, k>> # <<w, c>> => rec'[x][k] = rec[x][k]
      /\ RoundsWithin' /\ ViewsFresh' /\ RoundsCountedOnce' /\ StraysFollow' /\ SlotsTally'
      /\ ~crossed => /\ w = started
                     /\ \A x \in Workflows, k \in Clis, d \in Tries : x # started => ~Out(x, k, d)'
  BY <1>3, <1>4, <1>5, <1>6, <1>7, AttemptWrites
<1>9. n \in Rounds /\ trail \in [Clis -> [Rounds -> Nat]]
  BY <1>1, <1>2, BranchFacts, RowFacts DEF ReviewTypeOK
<1> HIDE DEF n, p
<1>10. /\ trail' \in [Clis -> [Rounds -> Nat]]
       /\ trail'[c][n] = trail[c][n] + 1
       /\ \A k \in Clis, i \in Rounds : <<k, i>> # <<c, n>> => trail'[k][i] = trail[k][i]
  BY <1>3, <1>9
<1>11. ASSUME ~crossed, ~beside
       PROVE  trail[c][n] = 0 /\ \A d \in Tries \ {a} : ~At(w, c, d, "append")
  BY <1>1, <1>3, <1>11 DEF OneRoundOut, n
<1>12. OneEntryPerRound'
  BY <1>1, <1>3, <1>9, <1>10, <1>11 DEF OneEntryPerRound
<1>13. OneRoundOut'
  <2>1. ASSUME ~crossed, ~beside, NEW x \in Workflows, NEW k \in Clis, NEW d \in Tries,
               At(x, k, d, "append")'
        PROVE  /\ trail'[k][rec'[x][k][d].view.rounds] = 0
               /\ \A e \in Tries \ {d} : ~At(x, k, e, "append")'
    <3>1. <<x, k>> # <<w, c>>
      BY <1>4, <1>8, <1>11, <2>1 DEF At
    <3>2. rec'[x][k] = rec[x][k] /\ At(x, k, d, "append")
      BY <1>8, <2>1, <3>1 DEF At
    <3>3. k # c
      BY <1>1, <1>8, <2>1, <3>1, <3>2 DEF OneRoundOut, Out, At
    <3>4. rec[x][k][d].view.rounds \in Rounds
      BY <1>2, BranchFacts, RowFacts DEF Pairs
    <3> QED
      BY <1>1, <1>10, <2>1, <3>2, <3>3, <3>4 DEF OneRoundOut, At
  <2> QED
    BY <1>3, <1>8, <2>1 DEF OneRoundOut
<1>14. ReviewTypeOK'
  BY <1>1, <1>3, <1>8, <1>10 DEF ReviewTypeOK, Branches, Pairs
<1> QED
  BY <1>8, <1>12, <1>13, <1>14 DEF ReviewInv

\* The entry is lost, and the attempt goes on to the slot.
LEMMA AppendLostKeeps ==
  ASSUME ReviewInv, NEW w \in Workflows, NEW c \in Clis, NEW a \in Tries, NEW view,
         AppendLost(w, c, a, view)
  PROVE  ReviewInv'
<1> DEFINE b == [rec[w][c][a] EXCEPT !.pc = "write", !.view = view]
           p == With(w, c, a, b)
<1>1. /\ ReviewTypeOK /\ RoundsWithin /\ SlotsTally /\ OneRoundOut /\ OneEntryPerRound
  BY DEF ReviewInv
<1>2. /\ rec \in [Workflows -> [Clis -> Pairs]] /\ rec[w][c] \in Pairs
      /\ rec[w][c][a] \in Branches /\ review \in Rows
  BY <1>1, BranchFacts DEF Pairs, ReviewTypeOK
<1>3. /\ At(w, c, a, "append") /\ view \in {review, rec[w][c][a].view}
      /\ failures' = failures + 1 /\ failures' + 3 * replies <= MaxFaults
      /\ rec' = [rec EXCEPT ![w][c][a].pc = "write", ![w][c][a].view = view]
      /\ overlap' = (overlap \/ view # review)
      /\ UNCHANGED <<review, trail, child, started, reply, replies, opened, crossed, beside,
                     undelivered>>
  BY DEF AppendLost
<1>4. view \in Rows /\ Within(view)
  BY <1>1, <1>2, <1>3, BranchFacts DEF RoundsWithin
<1>5. b \in Branches /\ b.pc = "write" /\ b.view = view /\ b.out = rec[w][c][a].out
  BY <1>2, <1>4 DEF Branches
<1>6. rec' = [rec EXCEPT ![w][c][a] = b]
  BY <1>2, <1>3 DEF Pairs
<1> HIDE DEF b
<1>7. rec[w][c][a].pc = "append"
  BY <1>3 DEF At
<1>8. MayWrite(w, c, a, b)
  BY <1>3, <1>4, <1>5, <1>7 DEF MayWrite
<1>9. /\ p \in Pairs /\ Moves(w, c, p) /\ p[a] = b
      /\ \A d \in Tries \ {a} : p[d] = rec[w][c][d]
      /\ rec' \in [Workflows -> [Clis -> Pairs]]
      /\ rec'[w][c] = p
      /\ \A x \in Workflows, k \in Clis : <<x, k>> # <<w, c>> => rec'[x][k] = rec[x][k]
      /\ RoundsWithin' /\ ViewsFresh' /\ RoundsCountedOnce' /\ StraysFollow' /\ SlotsTally'
      /\ ~crossed => /\ w = started
                     /\ \A x \in Workflows, k \in Clis, d \in Tries : x # started => ~Out(x, k, d)'
  <2>1. /\ overlap => overlap'
        /\ UNCHANGED <<review, started, reply, replies, opened, crossed, undelivered>>
    BY <1>3
  <2> QED
    BY <1>5, <1>6, <1>7, <1>8, <2>1, AttemptWrites
<1> HIDE DEF p
<1>10. ~crossed /\ ~beside' => AppendsOnce(c, p)
  BY <1>1, <1>3, <1>5, <1>9 DEF AppendsOnce, OneRoundOut, At
<1>11. OneRoundOut' /\ OneEntryPerRound'
  BY <1>3, <1>9, <1>10, TrailKeeps
<1>12. failures' \in 0 .. MaxFaults /\ overlap' \in BOOLEAN
  <2>1. failures \in Nat /\ replies \in Nat /\ MaxFaults \in Nat
    BY <1>1, BoundsAssumption DEF ReviewTypeOK
  <2>2. failures' \in Nat /\ failures' <= MaxFaults
    BY <1>3, <2>1
  <2> QED
    BY <1>3, <2>1, <2>2
<1>13. ReviewTypeOK'
  BY <1>1, <1>3, <1>9, <1>12 DEF ReviewTypeOK, Branches, Pairs
<1> QED
  BY <1>9, <1>11, <1>13 DEF ReviewInv

LEMMA RecordAckedKeeps ==
  ASSUME ReviewInv, NEW w \in Workflows, NEW c \in Clis, RecordAcked(w, c)
  PROVE  ReviewInv'
<1> DEFINE b == [rec[w][c]["ours"] EXCEPT !.pc = "done", !.attempt = 1]
           p == With(w, c, "ours", b)
<1>1. /\ ReviewTypeOK /\ RoundsWithin /\ ViewsFresh /\ SlotsTally /\ StraysFollow /\ OneRoundOut
      /\ "ours" \in Tries /\ "stray" \in Tries /\ Tries = {"ours", "stray"}
  BY DEF ReviewInv, Tries
<1>2. /\ rec \in [Workflows -> [Clis -> Pairs]] /\ rec[w][c] \in Pairs
      /\ rec[w][c]["ours"] \in Branches
  BY <1>1, BranchFacts DEF Pairs
<1>3. /\ b \in Branches /\ b.pc = "done" /\ b.view = rec[w][c]["ours"].view
      /\ b.out = rec[w][c]["ours"].out
  <2>1. 1 \in 1 .. maximum_attempts
    BY DEF maximum_attempts
  <2> QED
    BY <1>2, <2>1 DEF Branches
<1>4. /\ At(w, c, "ours", "recorded")
      /\ rec' = [rec EXCEPT ![w][c]["ours"].pc = "done", ![w][c]["ours"].attempt = 1]
      /\ UNCHANGED <<review, trail, child, started, reply, replies, failures, opened, overlap,
                     crossed, beside, undelivered>>
  BY DEF RecordAcked, history
<1>5. rec' = [rec EXCEPT ![w][c]["ours"] = b]
  BY <1>1, <1>2, <1>4 DEF Pairs
<1> HIDE DEF b
<1>6. /\ p \in Pairs /\ Moves(w, c, p) /\ p["ours"] = b /\ p["stray"] = rec[w][c]["stray"]
  <2>1. /\ p \in Pairs /\ p["ours"] = b
        /\ \A d \in Tries \ {"ours"} : p[d] = rec[w][c][d]
    BY <1>1, <1>3, WithFacts
  <2>2. Moves(w, c, p)
    BY <1>1, <1>3, <1>5, WithFacts
  <2> QED
    BY <1>1, <2>1, <2>2
<1> HIDE DEF p
<1>7. rec[w][c]["ours"].pc = "recorded"
  BY <1>4 DEF At
<1>8. \E a \in Tries : Out(w, c, a)
  BY <1>1, <1>7 DEF Out
<1>9. MayMove(w, c, p)
  <2>1. \A a \in Tries : Within(p[a].view) /\ (p[a].pc = "write" => overlap' \/ p[a].view = review)
    BY <1>1, <1>3, <1>4, <1>6 DEF RoundsWithin, ViewsFresh, Holds, At
  <2> QED
    BY <1>1, <1>3, <1>6, <1>7, <2>1 DEF MayMove, SlotsTally, StraysFollow, Out
<1>10. /\ rec' \in [Workflows -> [Clis -> Pairs]]
       /\ RoundsWithin' /\ ViewsFresh' /\ RoundsCountedOnce' /\ StraysFollow' /\ SlotsTally'
       /\ ~crossed => \A x \in Workflows, k \in Clis, d \in Tries : x # started => ~Out(x, k, d)'
  BY <1>4, <1>6, <1>8, <1>9, BranchMoves
<1>11. ~crossed /\ ~beside' => AppendsOnce(c, p)
  BY <1>1, <1>3, <1>4, <1>6 DEF AppendsOnce, OneRoundOut, At
<1>12. OneRoundOut' /\ OneEntryPerRound'
  BY <1>4, <1>6, <1>10, <1>11, TrailKeeps
<1>13. ReviewTypeOK'
  BY <1>1, <1>4, <1>10 DEF ReviewTypeOK, Branches, Pairs
<1> QED
  BY <1>10, <1>12, <1>13 DEF ReviewInv

\* An attempt is given up on, and its thread may run on beside the next.
LEMMA RecordFailsKeeps ==
  ASSUME ReviewInv, NEW w \in Workflows, NEW c \in Clis, NEW runsOn \in BOOLEAN,
         RecordFails(w, c, runsOn)
  PROVE  ReviewInv'
<1> DEFINE ours == rec[w][c]["ours"]
           stray == rec[w][c]["stray"]
           again == [ours EXCEPT !.pc = "record", !.attempt = @ + 1, !.view = NewReview]
           over  == [ours EXCEPT !.pc = "gave_up", !.view = NewReview]
           retried == ours.attempt < maximum_attempts
           b == IF retried THEN again ELSE over
           left == [ours EXCEPT !.attempt = 1]
           s == IF runsOn THEN left ELSE stray
           p == [a \in Tries |-> IF a = "ours" THEN b ELSE s]
<1>1. /\ ReviewTypeOK /\ RoundsWithin /\ ViewsFresh /\ SlotsTally /\ StraysFollow /\ OneRoundOut
      /\ "ours" \in Tries /\ "stray" \in Tries /\ Tries = {"ours", "stray"}
  BY DEF ReviewInv, Tries
<1>2. /\ rec \in [Workflows -> [Clis -> Pairs]] /\ rec[w][c] \in Pairs
      /\ ours \in Branches /\ stray \in Branches /\ NewReview \in Rows
  BY <1>1, BranchFacts, RowFacts DEF Pairs
<1>3. /\ b \in Branches /\ b.view = NewReview /\ b.out = ours.out
      /\ b.pc = IF retried THEN "record" ELSE "gave_up"
  <2>1. over \in Branches /\ over.view = NewReview /\ over.out = ours.out /\ over.pc = "gave_up"
    BY <1>2 DEF Branches
  <2>2. ASSUME retried
        PROVE  /\ again \in Branches /\ again.view = NewReview
               /\ again.out = ours.out /\ again.pc = "record"
    <3>1. ours.attempt + 1 \in 1 .. maximum_attempts
      BY <1>2, <2>2 DEF Branches, maximum_attempts
    <3> QED
      BY <1>2, <3>1 DEF Branches
  <2> HIDE DEF over, again
  <2> QED
    BY <2>1, <2>2
<1>4. /\ s \in Branches
      /\ runsOn => s.view = ours.view /\ s.out = ours.out /\ s.pc = ours.pc
      /\ ~runsOn => s = stray
  BY <1>2 DEF Branches, maximum_attempts
<1>5. /\ ours.pc \in {"record", "append", "write", "recorded"}
      /\ runsOn => ours.pc # "recorded" /\ ~Out(w, c, "stray")
      /\ failures' = failures + (IF runsOn THEN 2 ELSE 1)
      /\ failures' + 3 * replies <= MaxFaults
      /\ undelivered' = (undelivered \/ ~retried)
      /\ UNCHANGED <<review, trail, child, started, reply, replies, opened, overlap, crossed, beside>>
  BY DEF RecordFails
<1>6. rec' = [rec EXCEPT ![w][c] = p]
  <2>1. rec' = [rec EXCEPT ![w][c] = [a \in Tries |->
                  IF a = "ours" THEN IF retried THEN again ELSE over
                                ELSE IF runsOn THEN left ELSE rec[w][c][a]]]
    BY DEF RecordFails
  <2>2. [a \in Tries |-> IF a = "ours" THEN IF retried THEN again ELSE over
                                       ELSE IF runsOn THEN left ELSE rec[w][c][a]] = p
    <3> HIDE DEF again, over, left, retried
    <3> QED
      BY <1>1
  <2> HIDE DEF p, again, over, left, retried
  <2> QED
    BY <2>1, <2>2
<1> HIDE DEF b, s, left, again, over
<1>7. p \in Pairs /\ p["ours"] = b /\ p["stray"] = s /\ Moves(w, c, p)
  BY <1>1, <1>3, <1>4, <1>6 DEF Pairs, Moves
<1> HIDE DEF p
<1>8. \E a \in Tries : Out(w, c, a)
  BY <1>1, <1>5 DEF Out
<1>9. undelivered' \in BOOLEAN /\ (undelivered => undelivered')
      /\ (b.pc = "gave_up" => undelivered')
  BY <1>1, <1>3, <1>5 DEF ReviewTypeOK
<1>10. MayMove(w, c, p)
  <2>1. Within(b.view) /\ b.pc # "write" /\ b.pc \in {"record", "gave_up"}
    BY <1>1, <1>3, AnsweredFacts
  <2>2. Within(s.view) /\ (s.pc = "write" => overlap' \/ s.view = review)
    BY <1>1, <1>4, <1>5 DEF RoundsWithin, ViewsFresh, Holds, At
  <2>3. s.pc \notin {"none", "done", "gave_up"} => s.out = b.out
    BY <1>1, <1>3, <1>4 DEF StraysFollow, Out
  <2> QED
    BY <1>1, <1>3, <1>7, <1>9, <2>1, <2>2, <2>3 DEF MayMove
<1>11. /\ rec' \in [Workflows -> [Clis -> Pairs]]
       /\ RoundsWithin' /\ ViewsFresh' /\ RoundsCountedOnce' /\ StraysFollow' /\ SlotsTally'
       /\ ~crossed => \A x \in Workflows, k \in Clis, a \in Tries : x # started => ~Out(x, k, a)'
  BY <1>5, <1>7, <1>8, <1>9, <1>10, BranchMoves
<1>12. ~crossed /\ ~beside' => AppendsOnce(c, p)
  <2>1. b.pc # "append"
    BY <1>3
  <2> QED
    BY <1>1, <1>4, <1>5, <1>7, <2>1 DEF AppendsOnce, OneRoundOut, At
<1>13. OneRoundOut' /\ OneEntryPerRound'
  BY <1>5, <1>7, <1>11, <1>12, TrailKeeps
<1>14. failures' \in 0 .. MaxFaults
  <2>1. failures \in Nat /\ replies \in Nat /\ MaxFaults \in Nat
    BY <1>1, BoundsAssumption DEF ReviewTypeOK
  <2>2. failures' \in Nat /\ failures' <= MaxFaults
    BY <1>5, <2>1
  <2> QED
    BY <2>1, <2>2
<1>15. ReviewTypeOK'
  BY <1>1, <1>5, <1>9, <1>11, <1>14 DEF ReviewTypeOK, Branches, Pairs
<1> QED
  BY <1>11, <1>13, <1>15 DEF ReviewInv

-----------------------------------------------------------------------------
(* Reviews: the children, the commit of a record, and the reply            *)

\* The children start together, and the row stays.
LEMMA StartChildrenKeeps ==
  ASSUME ReviewInv, NEW w \in Workflows, StartChildren(w)
  PROVE  ReviewInv'
<1> DEFINE q(c) == IF child[c] = 0 THEN "running" ELSE "record"
           p(c) == Before(q(c))
<1>1. /\ ReviewTypeOK /\ RoundsWithin /\ SlotsTally /\ OneRoundOut /\ OneEntryPerRound
      /\ ViewsFresh /\ RoundsCountedOnce /\ StraysFollow
      /\ "ours" \in Tries /\ "stray" \in Tries /\ Tries = {"ours", "stray"}
  BY DEF ReviewInv, Tries
<1>2. rec \in [Workflows -> [Clis -> Pairs]]
  BY <1>1, BranchFacts
<1>3. \A c \in Clis :
        /\ p(c) \in Pairs /\ p(c)["ours"].pc \in {"running", "record"} /\ p(c)["ours"].out = {}
        /\ p(c)["stray"].pc = "none"
        /\ \A a \in Tries : /\ p(c)[a].view = NewReview
                            /\ p(c)[a].pc \in {"none", "running", "record"}
  BY BeforeFacts
<1>4. rec' = [rec EXCEPT ![w] = [c \in Clis |-> p(c)]]
  BY DEF StartChildren
<1>5. \A c \in Clis : rec[w][c]["ours"].pc = "dispatch"
  BY DEF StartChildren, At
<1> HIDE DEF p
<1>6. /\ rec' \in [Workflows -> [Clis -> Pairs]]
      /\ \A c \in Clis : rec'[w][c] = p(c)
      /\ \A x \in Workflows : x # w => rec'[x] = rec[x]
  BY <1>2, <1>3, <1>4
<1>7. UNCHANGED <<review, trail, started, reply, replies, failures, opened, overlap, crossed,
                  beside, undelivered>>
  BY DEF StartChildren, history
<1>8. child' \in [Clis -> 0 .. MaxWorkflows]
  BY <1>1, BoundsAssumption DEF StartChildren, ReviewTypeOK, Workflows
<1>9. ReviewTypeOK'
  BY <1>1, <1>6, <1>7, <1>8 DEF ReviewTypeOK, Branches, Pairs
<1>10. RoundsWithin'
  <2>1. Answered' = Answered
    BY <1>7 DEF Answered
  <2>2. \A r : Within(r)' <=> Within(r)
    BY <2>1 DEF Within
  <2>3. ASSUME NEW x \in Workflows, NEW k \in Clis, NEW d \in Tries
        PROVE  Within(rec'[x][k][d].view)
    <3>1. CASE x = w
      BY <1>1, <1>3, <1>6, <3>1, AnsweredFacts
    <3>2. CASE x # w
      BY <1>1, <1>6, <3>2 DEF RoundsWithin
    <3> QED
      BY <3>1, <3>2
  <2> QED
    BY <1>1, <1>7, <2>1, <2>2, <2>3 DEF RoundsWithin, Within
<1>11. ViewsFresh'
  BY <1>1, <1>3, <1>6, <1>7 DEF ViewsFresh, Holds, At
<1>12. RoundsCountedOnce' /\ OneEntryPerRound'
  BY <1>1, <1>7 DEF RoundsCountedOnce, OneEntryPerRound
<1>13. OneRoundOut'
  <2>1. \A x \in Workflows, k \in Clis, d \in Tries : Out(x, k, d)' => Out(x, k, d)
    BY <1>1, <1>3, <1>5, <1>6 DEF Out
  <2>2. \A x \in Workflows, k \in Clis, d \in Tries :
          At(x, k, d, "append")' => At(x, k, d, "append") /\ rec'[x][k] = rec[x][k]
    BY <1>3, <1>6 DEF At
  <2> QED
    BY <1>1, <1>7, <2>1, <2>2 DEF OneRoundOut, At
<1>15. StraysFollow'
  BY <1>1, <1>3, <1>6 DEF StraysFollow, Out
<1>14. SlotsTally'
  <2> SUFFICES ASSUME ~overlap, ~crossed, ~undelivered PROVE SlotsTally'
    BY <1>7 DEF SlotsTally
  <2>1. CASE w # started
    <3>1. rec'[started] = rec[started]
      BY <1>1, <1>6, <2>1 DEF ReviewTypeOK
    <3> QED
      BY <1>1, <1>7, <3>1 DEF SlotsTally
  <2>2. CASE w = started
    <3>1. \A c \in Clis : c \notin DOMAIN review.per_cli
      BY <1>1, <1>5, <2>2 DEF SlotsTally
    <3>2. DOMAIN review.per_cli = {}
      BY <1>1, <3>1, RowFacts, SlotsFacts DEF ReviewTypeOK
    <3> QED
      BY <1>1, <1>3, <1>6, <1>7, <2>2, <3>2 DEF SlotsTally
  <2> QED
    BY <2>1, <2>2
<1> QED
  BY <1>9, <1>10, <1>11, <1>12, <1>13, <1>14, <1>15 DEF ReviewInv

\* A record commits.
LEMMA RecordCommitsKeeps ==
  ASSUME ReviewInv, NEW w \in Workflows, NEW c \in Clis, NEW a \in Tries,
         RecordCommits(w, c, a)
  PROVE  ReviewInv'
<1> DEFINE b == [rec[w][c][a] EXCEPT !.pc = Through(a), !.view = NewReview]
           view == rec[w][c][a].view
           out == rec[w][c][a].out
           new == Recorded(view, c, out)
<1>1. /\ ReviewTypeOK /\ RoundsWithin /\ ViewsFresh /\ RoundsCountedOnce /\ OneRoundOut
      /\ OneEntryPerRound /\ StraysFollow /\ SlotsTally
      /\ "ours" \in Tries /\ "stray" \in Tries /\ Tries = {"ours", "stray"}
  BY DEF ReviewInv, Tries
<1>2. /\ rec \in [Workflows -> [Clis -> Pairs]] /\ rec[w][c] \in Pairs /\ rec[w][c][a] \in Branches
      /\ NewReview \in Rows /\ view \in Rows /\ out \in SUBSET Findings /\ review \in Rows
  BY <1>1, BranchFacts, RowFacts DEF ReviewTypeOK, Pairs
<1>3. /\ b \in Branches /\ b.pc = Through(a) /\ b.view = NewReview /\ b.out = out
      /\ b.pc = IF a = "ours" THEN "recorded" ELSE "done"
  BY <1>2 DEF Branches, Through
<1>4. rec' = [rec EXCEPT ![w][c][a] = b]
  <2>1. rec' = [rec EXCEPT ![w][c][a].pc = Through(a), ![w][c][a].view = NewReview]
    BY DEF RecordCommits
  <2> QED
    BY <1>2, <2>1 DEF Pairs
<1>5. rec[w][c][a].pc = "write"
  BY DEF RecordCommits, At
<1>6. Out(w, c, a)
  BY <1>5 DEF Out
<1>7. /\ review' = Columns(view, new)
      /\ overlap' = (overlap \/ (review' # review /\ OthersHold(w, c, a)))
      /\ UNCHANGED <<trail, child, started, reply, replies, failures, opened, crossed, beside,
                     undelivered>>
  BY DEF RecordCommits
<1>8. Within(view) /\ view.rounds \in Nat /\ Answered \in Nat
  BY <1>1, <1>2, AnsweredFacts, RowFacts DEF RoundsWithin
<1> HIDE DEF b, view, out
<1>9. view.status = "running" => view.rounds + 1 \in Rounds
  BY <1>1, <1>8, AnsweredFacts DEF Within
<1>10. /\ new \in Rows
       /\ new.per_cli = SlotsWith(view, c, out)
       /\ ~Closes(view, c) =>
            /\ new.status = view.status /\ new.rounds = view.rounds
            /\ new.agreed = view.agreed
       /\ Closes(view, c) =>
            /\ new.status \in {"awaiting_response", "done"}
            /\ new.rounds = view.rounds + 1
            /\ new.status # "done" => new.rounds < max_rounds
            /\ new.agreed = Agreed(new.per_cli)
  BY <1>2, <1>9, RecordedFacts
<1> HIDE DEF new
<1>11. /\ review' \in Rows
       /\ review'.status = IF new.status # view.status THEN new.status ELSE review.status
       /\ review'.rounds = IF new.rounds # view.rounds THEN new.rounds ELSE review.rounds
       /\ view = review => review' = new
  BY <1>2, <1>7, <1>10, ColumnsFacts
<1>12. /\ rec' \in [Workflows -> [Clis -> Pairs]]
       /\ rec'[w][c][a] = b
       /\ \A x \in Workflows, k \in Clis, d \in Tries :
            <<x, k, d>> # <<w, c, a>> => rec'[x][k][d] = rec[x][k][d]
  BY <1>2, <1>3, <1>4 DEF Pairs
<1>13. ReviewTypeOK'
  <2>1. overlap' \in BOOLEAN
    BY <1>7
  <2> QED
    BY <1>1, <1>7, <1>11, <1>12, <2>1 DEF ReviewTypeOK, Branches, Pairs
<1>14. RoundsWithin'
  <2>1. Answered' = Answered
    BY <1>7 DEF Answered
  <2>2. \A r : Within(r)' <=> Within(r)
    BY <2>1 DEF Within
  <2>3. \A x \in Workflows, k \in Clis, d \in Tries : Within(rec'[x][k][d].view)
    BY <1>1, <1>3, <1>12, AnsweredFacts DEF RoundsWithin
  <2>4. review'.status = "running" => review'.rounds <= Answered
    <3>1. CASE Closes(view, c)
      BY <1>10, <1>11, <3>1 DEF Closes
    <3>2. CASE ~Closes(view, c)
      BY <1>1, <1>10, <1>11, <3>2 DEF RoundsWithin, Within
    <3> QED
      BY <3>1, <3>2
  <2>5. review'.rounds <= Answered + 1
    <3>1. CASE Closes(view, c)
      <4>1. review'.rounds = view.rounds + 1 /\ view.status = "running"
        BY <1>8, <1>10, <1>11, <3>1 DEF Closes
      <4> QED
        BY <1>8, <4>1 DEF Within
    <3>2. CASE ~Closes(view, c)
      BY <1>1, <1>10, <1>11, <3>2 DEF RoundsWithin, Within
    <3> QED
      BY <3>1, <3>2
  <2>6. Within(review') /\ Within(reply.view)
    BY <1>1, <2>4, <2>5 DEF Within, RoundsWithin
  <2> QED
    BY <1>1, <1>7, <2>1, <2>2, <2>3, <2>6 DEF RoundsWithin, Within
<1>15. ASSUME ~overlap'
       PROVE  /\ ~overlap /\ view = review /\ review' = new
              /\ review' # review => ~OthersHold(w, c, a)
  <2>1. ~overlap /\ (review' # review => ~OthersHold(w, c, a))
    BY <1>7, <1>15
  <2> QED
    BY <1>1, <1>5, <1>11, <2>1 DEF ViewsFresh, Holds, At, view
<1>16. ViewsFresh'
  <2> SUFFICES ASSUME ~overlap' PROVE ViewsFresh'
    BY DEF ViewsFresh
  <2>1. reply.pc = "commit" => reply.view = review'
    BY <1>1, <1>15 DEF ViewsFresh, OthersHold
  <2>2. ASSUME NEW x \in Workflows, NEW k \in Clis, NEW d \in Tries, Holds(x, k, d)'
        PROVE  rec'[x][k][d].view = review'
    <3>1. <<x, k, d>> # <<w, c, a>> /\ rec'[x][k][d] = rec[x][k][d] /\ Holds(x, k, d)
      BY <1>3, <1>12, <2>2 DEF Holds, At
    <3> QED
      BY <1>1, <1>15, <3>1 DEF ViewsFresh, OthersHold
  <2> QED
    BY <1>7, <2>1, <2>2 DEF ViewsFresh
<1>17. RoundsCountedOnce'
  <2> SUFFICES ASSUME ~overlap' PROVE RoundsCountedOnce'
    BY DEF RoundsCountedOnce
  <2>1. /\ review.rounds = IF review.status = "running" THEN opened - 1 ELSE opened
        /\ review.status # "done" => review.rounds < max_rounds
        /\ opened \in Nat
    BY <1>1, <1>15 DEF RoundsCountedOnce, ReviewTypeOK
  <2>2. CASE Closes(review, c)
    <3>1. review'.rounds = opened /\ review'.status # "running"
      BY <1>10, <1>15, <2>1, <2>2 DEF Closes
    <3> QED
      BY <1>7, <1>10, <1>15, <2>2, <3>1 DEF RoundsCountedOnce
  <2>3. CASE ~Closes(review, c)
    BY <1>7, <1>10, <1>15, <2>1, <2>3 DEF RoundsCountedOnce
  <2> QED
    BY <2>2, <2>3
<1>18. ~crossed => w = started
  BY <1>1, <1>6 DEF OneRoundOut
<1>19. \A x \in Workflows, k \in Clis, d \in Tries : Out(x, k, d)' => Out(x, k, d)
  BY <1>6, <1>12 DEF Out
<1>20. OneRoundOut' /\ OneEntryPerRound'
  <2>1. \A x \in Workflows, k \in Clis, d \in Tries :
          At(x, k, d, "append")' <=> At(x, k, d, "append") /\ rec'[x][k][d] = rec[x][k][d]
    BY <1>3, <1>5, <1>12 DEF At
  <2> QED
    BY <1>1, <1>7, <1>19, <2>1 DEF OneRoundOut, OneEntryPerRound
<1>22. StraysFollow'
  <2>1. ASSUME NEW x \in Workflows, NEW k \in Clis, Out(x, k, "stray")'
        PROVE  /\ rec'[x][k]["ours"].pc \notin {"none", "dispatch", "running"}
               /\ rec'[x][k]["stray"].out = rec'[x][k]["ours"].out
    <3>1. Out(x, k, "stray")
      BY <1>1, <1>19, <2>1
    <3>2. rec'[x][k]["stray"].out = rec[x][k]["stray"].out
      BY <1>1, <1>3, <1>12 DEF out
    <3>3. rec'[x][k]["ours"].out = rec[x][k]["ours"].out
      BY <1>1, <1>3, <1>12 DEF out
    <3>4. rec'[x][k]["ours"].pc \in {rec[x][k]["ours"].pc, "recorded"}
      BY <1>1, <1>3, <1>12
    <3> QED
      BY <1>1, <3>1, <3>2, <3>3, <3>4 DEF StraysFollow
  <2> QED
    BY <2>1 DEF StraysFollow
<1>23. ~crossed => out = rec[w][c]["ours"].out
  BY <1>1, <1>6 DEF StraysFollow, out
<1>21. SlotsTally'
  <2> SUFFICES ASSUME ~overlap', ~crossed, ~undelivered PROVE SlotsTally'
    BY <1>7 DEF SlotsTally
  <2>1. /\ ~overlap /\ view = review /\ review' = new /\ w = started
        /\ started' = started /\ started \in Workflows
    BY <1>1, <1>7, <1>15, <1>18 DEF ReviewTypeOK
  <2>2. /\ DOMAIN review'.per_cli = DOMAIN review.per_cli \cup {c}
        /\ \A k \in DOMAIN review'.per_cli :
             review'.per_cli[k] = IF k = c THEN out ELSE review.per_cli[k]
    BY <1>10, <2>1 DEF SlotsWith
  <2>3. DOMAIN review.per_cli \subseteq Clis
    BY <1>2, RowFacts, SlotsFacts
  <2>4. \A k \in Clis :
          /\ k # c => rec'[started][k]["ours"] = rec[started][k]["ours"]
          /\ rec'[started][k]["ours"].out = rec[started][k]["ours"].out
          /\ rec'[started][k]["ours"].pc \in {rec[started][k]["ours"].pc, "recorded"}
          /\ rec[started][c]["ours"].pc \notin {"none", "dispatch", "running"}
    BY <1>1, <1>3, <1>5, <1>6, <1>12, <2>1 DEF out, StraysFollow
  <2>5. /\ \A k \in DOMAIN review.per_cli : review.per_cli[k] = rec[started][k]["ours"].out
        /\ \A k \in Clis : rec[started][k]["ours"].pc \notin {"none", "gave_up"}
        /\ \A k \in Clis : rec[started][k]["ours"].pc \in {"dispatch", "running"}
                             => k \notin DOMAIN review.per_cli
        /\ \A k \in Clis : rec[started][k]["ours"].pc \in {"recorded", "done"}
                             => k \in DOMAIN review.per_cli
        /\ review.status = "running" =>
             review.agreed = {} /\ (Clis # {} => ~(Clis \subseteq DOMAIN review.per_cli))
        /\ review.status # "running" =>
             Clis \subseteq DOMAIN review.per_cli /\ review.agreed = Agreed(review.per_cli)
    BY <1>1, <2>1 DEF SlotsTally
  <2>6. \A k \in DOMAIN review'.per_cli : review'.per_cli[k] = rec'[started][k]["ours"].out
    BY <1>23, <2>1, <2>2, <2>3, <2>4, <2>5
  <2>7. /\ \A k \in Clis : rec'[started][k]["ours"].pc \notin {"none", "gave_up"}
        /\ \A k \in Clis : rec'[started][k]["ours"].pc \in {"dispatch", "running"}
                             => k \notin DOMAIN review'.per_cli
        /\ \A k \in Clis : rec'[started][k]["ours"].pc \in {"recorded", "done"}
                             => k \in DOMAIN review'.per_cli
    BY <2>2, <2>4, <2>5
  <2>8. CASE Closes(review, c)
    BY <1>10, <2>1, <2>2, <2>6, <2>7, <2>8 DEF SlotsTally, Closes
  <2>9. CASE ~Closes(review, c) /\ review.status = "running"
    BY <1>10, <2>1, <2>2, <2>5, <2>6, <2>7, <2>9 DEF SlotsTally, Closes
  <2>10. CASE review.status # "running"
    <3>1. c \in DOMAIN review.per_cli /\ out = review.per_cli[c]
      BY <1>23, <2>1, <2>5, <2>10
    <3>2. review'.per_cli = review.per_cli
      <4>1. DOMAIN review'.per_cli = DOMAIN review.per_cli
        BY <2>2, <3>1
      <4>2. \A k \in DOMAIN review.per_cli : review'.per_cli[k] = review.per_cli[k]
        BY <2>2, <3>1, <4>1
      <4>3. review.per_cli \in Slots /\ review'.per_cli \in Slots
        BY <1>2, <1>11, RowFacts
      <4> QED
        BY <4>1, <4>2, <4>3, SlotsFacts
    <3>3. review'.agreed = review.agreed /\ review'.status = review.status
      BY <1>10, <2>1, <2>10 DEF Closes
    <3> QED
      BY <2>1, <2>5, <2>6, <2>7, <2>10, <3>2, <3>3 DEF SlotsTally
  <2> QED
    BY <2>8, <2>9, <2>10
<1> QED
  BY <1>13, <1>14, <1>16, <1>17, <1>20, <1>21, <1>22 DEF ReviewInv

\* The reply has read the row.
LEMMA ReplyBeginsKeeps ==
  ASSUME ReviewInv, ReplyBegins
  PROVE  ReviewInv'
<1>1. /\ ReviewTypeOK /\ RoundsWithin /\ ViewsFresh /\ RoundsCountedOnce /\ OneRoundOut
      /\ OneEntryPerRound /\ StraysFollow /\ SlotsTally
  BY DEF ReviewInv
<1>2. /\ reply.pc = "idle" /\ reply' = [pc |-> "commit", view |-> review]
      /\ replies < MaxReplies /\ replies' = replies + 1
      /\ UNCHANGED <<review, trail, rec, child, started, failures, opened, overlap, crossed,
                     beside, undelivered>>
  BY DEF ReplyBegins, history
<1>3. replies \in Nat /\ MaxReplies \in Nat
  BY <1>1, BoundsAssumption DEF ReviewTypeOK
<1>4. Answered' = Answered
  BY <1>2, <1>3 DEF Answered
<1>5. ReviewTypeOK'
  BY <1>1, <1>2, <1>3 DEF ReviewTypeOK
<1>6. RoundsWithin'
  <2>1. reply'.view = review /\ replies' > 0
    BY <1>2, <1>3
  <2> QED
    BY <1>1, <1>2, <1>4, <2>1 DEF RoundsWithin, Within
<1>7. ViewsFresh'
  BY <1>1, <1>2 DEF ViewsFresh, Holds, At
<1>8. RoundsCountedOnce' /\ OneEntryPerRound'
  BY <1>1, <1>2 DEF RoundsCountedOnce, OneEntryPerRound
<1>9. OneRoundOut' /\ SlotsTally' /\ StraysFollow'
  BY <1>1, <1>2 DEF OneRoundOut, SlotsTally, StraysFollow, Out, At
<1> QED
  BY <1>5, <1>6, <1>7, <1>8, <1>9 DEF ReviewInv

\* The reply writes the row and starts a workflow.
LEMMA ReplyCommitsKeeps ==
  ASSUME ReviewInv, NEW ok \in BOOLEAN, ReplyCommits(ok)
  PROVE  ReviewInv'
<1> DEFINE view == reply.view
           new == Replied(view)
           runs == new.status = "running"
           fresh == Before("dispatch")
<1>1. /\ ReviewTypeOK /\ RoundsWithin /\ ViewsFresh /\ RoundsCountedOnce /\ OneRoundOut
      /\ OneEntryPerRound /\ StraysFollow /\ SlotsTally
  BY DEF ReviewInv
<1>2. /\ review \in Rows /\ view \in Rows /\ NoReply.view \in Rows
      /\ rec \in [Workflows -> [Clis -> Pairs]] /\ started \in Workflows
      /\ NoReply.view = NewReview
  BY <1>1, BranchFacts DEF ReviewTypeOK, NoReply
<1>3. /\ reply.pc = "commit" /\ reply' = NoReply /\ reply'.pc = "idle"
      /\ review' = Columns(view, new)
      /\ overlap' = (overlap \/ (review' # review /\
                                 \E w \in Workflows, c \in Clis, a \in Tries : Holds(w, c, a)))
      /\ ok => runs /\ started < MaxWorkflows
      /\ opened' = IF runs /\ view.status # "running" THEN opened + 1 ELSE opened
      /\ crossed' = (crossed \/ (runs /\ \E w \in Workflows, c \in Clis, a \in Tries : Out(w, c, a)))
      /\ undelivered' = (undelivered \/ (runs /\ ~ok))
      /\ started' = IF ok THEN started + 1 ELSE started
      /\ rec' = IF ok THEN Begun(started + 1) ELSE rec
      /\ UNCHANGED <<trail, child, replies, failures, beside>>
  BY DEF ReplyCommits, NoReply
<1>4. /\ new \in Rows /\ new.rounds = view.rounds
      /\ \/ view.status = "done" /\ new = view
         \/ /\ view.status # "done" /\ view.rounds >= max_rounds
            /\ new.status = "done" /\ new.per_cli = view.per_cli /\ new.agreed = view.agreed
         \/ /\ view.status # "done" /\ view.rounds < max_rounds
            /\ new.status = "running" /\ new.per_cli = NoSlots /\ new.agreed = {}
  BY <1>2, RepliedFacts
<1> HIDE DEF view, new
<1>5. /\ review' \in Rows
      /\ review'.rounds = review.rounds
      /\ view = review => review' = new
  BY <1>2, <1>3, <1>4, ColumnsFacts
<1>6. /\ fresh \in Pairs /\ fresh["ours"].pc = "dispatch" /\ fresh["stray"].pc = "none"
      /\ \A a \in Tries : fresh[a].view = NewReview /\ fresh[a].pc \in {"none", "dispatch"}
  BY BeforeFacts
<1> HIDE DEF fresh
<1>7. /\ started' \in Workflows
      /\ rec' \in [Workflows -> [Clis -> Pairs]]
      /\ ok => \A x \in Workflows, k \in Clis :
                 rec'[x][k] = IF x = started' THEN fresh ELSE rec[x][k]
      /\ ~ok => rec' = rec /\ started' = started
  <2>1. CASE ~ok
    BY <1>2, <1>3, <2>1
  <2>2. CASE ok
    <3>1. started' = started + 1 /\ started' \in Workflows
      BY <1>2, <1>3, <2>2, BoundsAssumption DEF Workflows
    <3>2. rec' = [rec EXCEPT ![started'] = [c \in Clis |-> fresh]]
      BY <1>3, <2>2, <3>1 DEF Begun, fresh
    <3> QED
      BY <1>2, <1>6, <2>2, <3>1, <3>2
  <2> QED
    BY <2>1, <2>2
<1>8. /\ Answered \in Nat /\ Answered' = Answered + 1 /\ Answered' = replies
      /\ replies \in Nat /\ replies <= MaxReplies
      /\ opened \in Nat /\ opened >= 1 /\ opened <= Answered + 1
      /\ review.rounds \in Nat /\ review.rounds <= Answered + 1
  BY <1>1, <1>2, <1>3, RowFacts, AnsweredFacts DEF RoundsWithin, Within, ReviewTypeOK, Answered
<1>9. opened' \in Nat /\ opened' >= 1 /\ opened' <= Answered' + 1
  BY <1>3, <1>8
<1>10. ReviewTypeOK'
  <2>1. opened' \in 1 .. MaxReplies + 1
    BY <1>8, <1>9, BoundsAssumption
  <2>2. overlap' \in BOOLEAN /\ crossed' \in BOOLEAN /\ undelivered' \in BOOLEAN
    BY <1>3
  <2>3. reply' \in [pc : {"idle", "commit"}, view : Rows]
    BY <1>2, <1>3 DEF NoReply
  <2> QED
    BY <1>1, <1>3, <1>5, <1>7, <2>1, <2>2, <2>3 DEF ReviewTypeOK, Branches, Pairs
<1>11. RoundsWithin'
  <2>1. \A r \in Rows : Within(r) => Within(r)'
    <3> SUFFICES ASSUME NEW r \in Rows, Within(r) PROVE Within(r)'
      OBVIOUS
    <3>1. r.rounds \in Nat /\ r.rounds <= Answered + 1
      BY RowFacts DEF Within
    <3>2. r.rounds <= Answered'
      BY <1>8, <3>1
    <3>3. r.rounds <= Answered' + 1
      BY <1>8, <3>1
    <3> QED
      BY <3>2, <3>3 DEF Within
  <2>2. Within(NewReview)
    BY <1>1, AnsweredFacts
  <2>3. ASSUME NEW x \in Workflows, NEW k \in Clis, NEW d \in Tries
        PROVE  Within(rec[x][k][d].view)'
    <3>1. rec'[x][k] \in Pairs /\ (rec'[x][k] = rec[x][k] \/ rec'[x][k] = fresh)
      BY <1>7
    <3>2. rec'[x][k][d].view \in Rows
      BY <3>1, BranchFacts DEF Pairs
    <3>3. Within(rec'[x][k][d].view)
      BY <1>1, <1>6, <2>2, <3>1 DEF RoundsWithin
    <3> QED
      BY <2>1, <3>2, <3>3 DEF Within
  <2>4. review'.rounds <= Answered' /\ review'.rounds <= Answered' + 1
    BY <1>5, <1>8
  <2>5. Within(NewReview)'
    BY <2>1, <2>2, RowFacts
  <2> QED
    BY <1>2, <1>3, <1>9, <2>3, <2>4, <2>5 DEF RoundsWithin, Within
<1>12. ASSUME ~overlap'
       PROVE  /\ ~overlap /\ view = review /\ review' = new
              /\ review' # review => \A w \in Workflows, c \in Clis, a \in Tries : ~Holds(w, c, a)
              /\ review.rounds = IF review.status = "running" THEN opened - 1 ELSE opened
              /\ review.status # "done" => review.rounds < max_rounds
              /\ max_rounds \in Nat
  <2>1. ~overlap /\ (review' # review => \A w \in Workflows, c \in Clis, a \in Tries : ~Holds(w, c, a))
    BY <1>3, <1>12
  <2>2. view = review
    BY <1>1, <1>3, <2>1 DEF ViewsFresh, view
  <2> QED
    BY <1>1, <1>5, <2>1, <2>2, MaxRoundsAssumption DEF RoundsCountedOnce
<1>13. \A x \in Workflows, k \in Clis :
         rec'[x][k] = rec[x][k] \/ (rec'[x][k] = fresh /\ x = started')
  BY <1>7
<1>14. ViewsFresh'
  <2> SUFFICES ASSUME ~overlap' PROVE ViewsFresh'
    BY DEF ViewsFresh
  <2>1. ASSUME NEW x \in Workflows, NEW k \in Clis, NEW d \in Tries, Holds(x, k, d)'
        PROVE  rec'[x][k][d].view = review'
    <3>1. rec'[x][k] = rec[x][k] /\ Holds(x, k, d)
      BY <1>6, <1>13, <2>1 DEF Holds, At
    <3> QED
      BY <1>1, <1>12, <3>1 DEF ViewsFresh
  <2> QED
    BY <1>3, <2>1 DEF ViewsFresh
<1>15. RoundsCountedOnce'
  <2> SUFFICES ASSUME ~overlap' PROVE RoundsCountedOnce'
    BY DEF RoundsCountedOnce
  <2>1. CASE review.status = "done"
    <3>1. review' = review /\ opened' = opened
      BY <1>3, <1>4, <1>12, <2>1
    <3> QED
      BY <1>12, <2>1, <3>1 DEF RoundsCountedOnce
  <2>2. CASE review.status # "done"
    <3>1. /\ new.status = "running" /\ new.rounds = review.rounds /\ review' = new
          /\ review.rounds < max_rounds /\ view = review
      BY <1>4, <1>8, <1>12, <2>2
    <3>2. review.rounds = opened' - 1
      BY <1>3, <1>8, <1>12, <3>1
    <3> QED
      BY <3>1, <3>2 DEF RoundsCountedOnce
  <2> QED
    BY <2>1, <2>2
<1>16. OneEntryPerRound'
  BY <1>1, <1>3 DEF OneEntryPerRound
<1>17. ASSUME ~crossed'
       PROVE  ~crossed /\ (runs => \A w \in Workflows, c \in Clis, a \in Tries : ~Out(w, c, a))
  BY <1>3, <1>17
<1>18. OneRoundOut'
  <2> SUFFICES ASSUME ~crossed' PROVE OneRoundOut'
    BY DEF OneRoundOut
  <2>1. ASSUME NEW x \in Workflows, NEW k \in Clis, NEW d \in Tries, x # started'
        PROVE  ~Out(x, k, d)'
    <3>1. rec'[x][k] = rec[x][k]
      BY <1>13, <2>1
    <3>2. ~Out(x, k, d)
      BY <1>1, <1>3, <1>7, <1>17, <2>1 DEF OneRoundOut
    <3> QED
      BY <3>1, <3>2 DEF Out
  <2>2. ASSUME ~beside, NEW x \in Workflows, NEW k \in Clis, NEW d \in Tries,
               At(x, k, d, "append")'
        PROVE  /\ trail'[k][rec'[x][k][d].view.rounds] = 0
               /\ \A e \in Tries \ {d} : ~At(x, k, e, "append")'
    <3>1. rec'[x][k] = rec[x][k] /\ At(x, k, d, "append")
      BY <1>6, <1>13, <2>2 DEF At
    <3> QED
      BY <1>1, <1>3, <1>17, <2>2, <3>1 DEF OneRoundOut, At
  <2> QED
    BY <1>3, <2>1, <2>2 DEF OneRoundOut
<1>20. StraysFollow'
  <2>1. \A x \in Workflows, k \in Clis : Out(x, k, "stray")' => rec'[x][k] = rec[x][k]
    BY <1>6, <1>13 DEF Out
  <2> QED
    BY <1>1, <2>1 DEF StraysFollow, Out
<1>19. SlotsTally'
  <2> SUFFICES ASSUME ~overlap', ~crossed', ~undelivered' PROVE SlotsTally'
    BY DEF SlotsTally
  <2>1. ~overlap /\ ~crossed /\ ~undelivered /\ (runs => ok)
    BY <1>3, <1>12, <1>17
  <2>2. CASE review.status = "done"
    <3>1. review' = review /\ ~runs
      BY <1>4, <1>12, <2>2
    <3>2. rec' = rec /\ started' = started
      BY <1>3, <1>7, <3>1
    <3> QED
      BY <1>1, <2>1, <3>1, <3>2 DEF SlotsTally
  <2>3. CASE review.status # "done"
    <3>1. /\ review'.status = "running" /\ review'.per_cli = NoSlots /\ review'.agreed = {}
          /\ runs
      BY <1>4, <1>8, <1>12, <2>3
    <3>2. \A k \in Clis : rec'[started'][k] = fresh
      BY <1>7, <2>1, <3>1
    <3> QED
      BY <1>6, <3>1, <3>2, SlotsFacts DEF SlotsTally
  <2> QED
    BY <2>2, <2>3
<1> QED
  BY <1>10, <1>11, <1>14, <1>15, <1>16, <1>18, <1>19, <1>20 DEF ReviewInv

-----------------------------------------------------------------------------
(* Reviews: the theorems                                                   *)

LEMMA ReviewStarts == ReviewInit => ReviewInv
<1> SUFFICES ASSUME ReviewInit PROVE ReviewInv
  OBVIOUS
<1> DEFINE fresh == Before("dispatch")
           none_ == Before("none")
<1>1. /\ NewReview \in Rows /\ 0 \in Rounds /\ "ours" \in Tries /\ "stray" \in Tries
      /\ fresh \in Pairs /\ none_ \in Pairs
      /\ fresh["ours"].pc = "dispatch" /\ fresh["ours"].out = {} /\ fresh["stray"].pc = "none"
      /\ \A a \in Tries : fresh[a].view = NewReview /\ fresh[a].pc \in {"none", "dispatch"}
      /\ \A a \in Tries : none_[a].view = NewReview /\ none_[a].pc = "none"
  BY BeforeFacts, RowFacts DEF Tries
<1>2. /\ review = NewReview /\ reply = NoReply /\ started = 1 /\ opened = 1
      /\ replies = 0 /\ failures = 0
      /\ overlap = FALSE /\ crossed = FALSE /\ beside = FALSE /\ undelivered = FALSE
      /\ trail = [c \in Clis |-> [n \in Rounds |-> 0]]
      /\ child = [c \in Clis |-> 0]
      /\ rec = [w \in Workflows |-> [c \in Clis |-> Before(IF w = 1 THEN "dispatch" ELSE "none")]]
  BY DEF ReviewInit, Rounds
<1>3. /\ 1 \in Workflows /\ MaxReplies \in Nat /\ MaxWorkflows \in Nat /\ MaxFaults \in Nat
      /\ max_rounds \in Nat /\ max_rounds > 0
  BY BoundsAssumption, MaxRoundsAssumption DEF Workflows
<1>4. /\ rec \in [Workflows -> [Clis -> Pairs]]
      /\ \A w \in Workflows, c \in Clis : rec[w][c] = IF w = 1 THEN fresh ELSE none_
  <2>1. \A w \in Workflows : Before(IF w = 1 THEN "dispatch" ELSE "none") = IF w = 1 THEN fresh ELSE none_
    OBVIOUS
  <2> HIDE DEF fresh, none_
  <2> QED
    BY <1>1, <1>2, <2>1
<1> HIDE DEF fresh, none_
<1>5. NoReply = [pc |-> "idle", view |-> NewReview]
  BY DEF NoReply
<1>6. ReviewTypeOK
  <2>1. trail \in [Clis -> [Rounds -> Nat]] /\ child \in [Clis -> 0 .. MaxWorkflows]
    BY <1>2, <1>3
  <2>2. /\ opened \in 1 .. MaxReplies + 1 /\ replies \in 0 .. MaxReplies
        /\ failures \in 0 .. MaxFaults
    BY <1>2, <1>3
  <2>3. reply \in [pc : {"idle", "commit"}, view : Rows] /\ review \in Rows
    BY <1>1, <1>2, <1>5
  <2> QED
    BY <1>2, <1>3, <1>4, <2>1, <2>2, <2>3 DEF ReviewTypeOK, Branches, Pairs
<1>7. NewReview.rounds = 0 /\ NewReview.status = "running" /\ NewReview.per_cli = NoSlots
      /\ NewReview.agreed = {}
  BY DEF NewReview
<1>8. Answered = 0
  BY <1>2, <1>5 DEF Answered
<1>9. RoundsWithin
  BY <1>1, <1>2, <1>4, <1>5, <1>7, <1>8 DEF RoundsWithin, Within
<1>10. ViewsFresh /\ OneRoundOut /\ StraysFollow
  BY <1>1, <1>2, <1>4, <1>5 DEF ViewsFresh, OneRoundOut, StraysFollow, Holds, At, Out
<1>11. RoundsCountedOnce
  BY <1>2, <1>3, <1>7 DEF RoundsCountedOnce
<1>12. OneEntryPerRound
  BY <1>2 DEF OneEntryPerRound
<1>13. SlotsTally
  BY <1>1, <1>2, <1>3, <1>4, <1>7, SlotsFacts DEF SlotsTally
<1> QED
  BY <1>6, <1>9, <1>10, <1>11, <1>12, <1>13 DEF ReviewInv

LEMMA ReviewStep == ReviewInv /\ [ReviewNext]_reviewVars => ReviewInv'
<1> SUFFICES ASSUME ReviewInv, [ReviewNext]_reviewVars PROVE ReviewInv'
  OBVIOUS
<1>1. ASSUME NEW w \in Workflows, NEW c \in Clis, NEW a \in Tries, Record(w, c, a)
      PROVE  ReviewInv'
  BY <1>1, RecordBeginsKeeps, AppendEntryKeeps, RecordCommitsKeeps DEF Record
<1>2. ASSUME NEW w \in Workflows, NEW c \in Clis, Branch(w, c)
      PROVE  ReviewInv'
  BY <1>2, <1>1, ChildEndsKeeps, RecordAckedKeeps DEF Branch, Tries
<1>3. ASSUME NEW w \in Workflows, StartChildren(w)
      PROVE  ReviewInv'
  BY <1>3, StartChildrenKeeps
<1>4. ASSUME NEW ok \in BOOLEAN, ReplyCommits(ok)
      PROVE  ReviewInv'
  BY <1>4, ReplyCommitsKeeps
<1>5. ASSUME NEW w \in Workflows, NEW c \in Clis, NEW runsOn \in BOOLEAN,
             RecordFails(w, c, runsOn)
      PROVE  ReviewInv'
  BY <1>5, RecordFailsKeeps
<1>6. ASSUME NEW w \in Workflows, NEW c \in Clis, NEW a \in Tries, NEW view,
             AppendLost(w, c, a, view)
      PROVE  ReviewInv'
  BY <1>6, AppendLostKeeps
<1>7. CASE ReplyBegins
  BY <1>7, ReplyBeginsKeeps
<1>8. CASE UNCHANGED reviewVars
  BY <1>8 DEF reviewVars, ReviewInv, ReviewTypeOK, RoundsWithin, Within, Answered, ViewsFresh,
     Holds, At, RoundsCountedOnce, OneRoundOut, Out, OneEntryPerRound, StraysFollow, SlotsTally
<1>9. ASSUME NEW w \in Workflows, NEW c \in Clis, Record(w, c, "stray")
      PROVE  ReviewInv'
  BY <1>9, <1>1 DEF Tries
<1>10. CASE Progress
  BY <1>2, <1>3, <1>4, <1>10 DEF Progress
<1>11. CASE \E w \in Workflows, c \in Clis, a \in Tries :
              AppendLost(w, c, a, review) \/ AppendLost(w, c, a, rec[w][c][a].view)
  BY <1>6, <1>11
<1> QED
  BY <1>5, <1>7, <1>8, <1>9, <1>10, <1>11 DEF ReviewNext

\* The inductive invariant of a review.
THEOREM ReviewInvariant == ReviewSpec => []ReviewInv
<1> QED
  BY ReviewStarts, ReviewStep, PTL DEF ReviewSpec

\* Every column, branch and counter of a review keeps its type; in particular
\* rounds_completed stays bounded, also where operations overlap.
THEOREM ReviewTypeCorrect == ReviewSpec => []ReviewTypeOK
<1>1. ReviewInv => ReviewTypeOK
  BY DEF ReviewInv
<1> QED
  BY <1>1, ReviewInvariant, PTL

\* Late, repeated and retried records and replies included, each round that
\* was opened is counted once, unless two operations overlapped.
THEOREM RoundsAreCounted == ReviewSpec => []RoundsCountedOnce
<1>1. ReviewInv => RoundsCountedOnce
  BY DEF ReviewInv
<1> QED
  BY <1>1, ReviewInvariant, PTL

\* The audit trail has at most one entry of a CLI per round, however often its
\* activity is retried, attempts that run on after their timeout included;
\* unless a reply overtook the CLIs of its round, or an attempt and its retry
\* searched the trail before either of them appended.
THEOREM TrailHasNoDoubles == ReviewSpec => []OneEntryPerRound
<1>1. ReviewInv => OneEntryPerRound
  BY DEF ReviewInv
<1> QED
  BY <1>1, ReviewInvariant, PTL

\* The findings the operator is shown as agreed are those that the CLIs of the
\* round reported, for any CLIs and findings.
THEOREM VoteIsTrue == ReviewSpec => []VoteIsOfThisRound
<1>1. ReviewInv => VoteIsOfThisRound
  <2> SUFFICES ASSUME ReviewInv, ~overlap, ~crossed, ~undelivered, Reported(started)
               PROVE  review.agreed = Agreed([c \in Clis |-> rec[started][c]["ours"].out])
    BY DEF VoteIsOfThisRound
  <2>1. /\ ReviewTypeOK /\ SlotsTally
        /\ \A c \in Clis : rec[started][c]["ours"].pc = "done"
    BY DEF ReviewInv, Reported
  <2>2. review.per_cli \in Slots /\ DOMAIN review.per_cli \subseteq Clis
    BY <2>1, RowFacts, SlotsFacts DEF ReviewTypeOK
  <2>3. Clis \subseteq DOMAIN review.per_cli
    BY <2>1 DEF SlotsTally
  <2>4. review.per_cli = [c \in Clis |-> rec[started][c]["ours"].out]
    <3>1. review.per_cli = [c \in DOMAIN review.per_cli |-> review.per_cli[c]]
      BY <2>2, SlotsFacts
    <3>2. \A c \in Clis : review.per_cli[c] = rec[started][c]["ours"].out
      BY <2>1, <2>3 DEF SlotsTally
    <3> QED
      BY <2>2, <2>3, <3>1, <3>2
  <2>5. CASE review.status # "running"
    BY <2>1, <2>4, <2>5 DEF SlotsTally
  <2>6. CASE review.status = "running"
    <3>1. Clis = {} /\ review.agreed = {}
      BY <2>1, <2>3, <2>6 DEF SlotsTally
    <3>2. \A s : DOMAIN s = {} => Agreed(s) = {}
      <4> SUFFICES ASSUME NEW s, DOMAIN s = {} PROVE Agreed(s) = {}
        OBVIOUS
      <4>1. \A f : {c \in DOMAIN s : f \in s[c]} = {}
        OBVIOUS
      <4>2. Cardinality({}) = 0
        BY FS_EmptySet
      <4> QED
        BY <4>1, <4>2 DEF Agreed
    <3>3. DOMAIN [c \in Clis |-> rec[started][c]["ours"].out] = {}
      BY <3>1
    <3> QED
      BY <3>1, <3>2, <3>3
  <2> QED
    BY <2>5, <2>6
<1> QED
  BY <1>1, ReviewInvariant, PTL

-----------------------------------------------------------------------------
(* Coalitions: the invariant                                               *)

SessionRows == [status : {"active", "completed"}, index : DOMAIN Phases,
                rounds : Nat, consensus : {"no", "yes", "partial"}]
Entries   == [phase : ToSet(Phases), round : Nat, agent : Agents, about : ToSet(Phases)]
Answers   == {TRUE, FALSE, None}
Posting   == [pc : {"post"}, agent : Agents, agrees : Answers, index : DOMAIN Phases,
              round : Nat, about : ToSet(Phases)]
Advancing == [pc : {"advance"}, agrees : Answers, row : SessionRows]
StepTypes == [round : 0 .. LastRound, phase : ToSet(Phases) \cup {None},
              agent : Agents \cup {None}, attempt : Nat, runner : Workers \cup {None}]

CollabTypes ==
  /\ row \in SessionRows
  /\ board \in Seq(Entries)
  /\ serving \in [Sessions -> {Free} \cup Posting \cup Advancing]
  /\ overtaken \in BOOLEAN /\ rewound \in BOOLEAN

WorkflowTypes ==
  /\ step \in StepTypes
  /\ pc \in {"prepare", "cli", "record", "finalize", "reported", "failed"}
  /\ pc \in {"cli", "record"} => step.phase \in ToSet(Phases) /\ step.agent \in Agents
  /\ outside \in 0 .. MaxOutside /\ trouble \in 0 .. MaxTrouble

\* Phase k has a contribution on blackboard b; in round n.
Entered(b, k) == \E v \in DOMAIN b : b[v].phase = Phases[k]
EnteredIn(b, k, n) == \E v \in DOMAIN b : b[v].phase = Phases[k] /\ b[v].round = n

\* The phases below index that round n of the session has been through.
Passed(b, index, n) ==
  \A k \in DOMAIN Phases : k < index /\ (k >= Restart \/ n = 0) => EnteredIn(b, k, n)

\* A session completes with a round, and stays completed.
CompletedInv ==
  /\ row.status = "completed" => row.rounds > 0
  /\ \A s \in Sessions : serving[s].pc = "advance" /\ serving[s].row.status = "completed"
                           => row.status = "completed"

\* The phases before the session's own have entries; a call that has posted its
\* entry has seen those up to its own entered.
RowEntered ==
  /\ row.rounds > 0 => \A k \in DOMAIN Phases : Entered(board, k)
  /\ row.status = "completed" \/ Passed(board, row.index, row.rounds)

CallEntered(s) ==
  /\ serving[s].row.rounds > 0 => \A k \in DOMAIN Phases : Entered(board, k)
  /\ \/ serving[s].row.status = "completed"
     \/ Passed(board, serving[s].row.index + 1, serving[s].row.rounds)

EntriesInv ==
  ~overtaken =>
    /\ RowEntered
    /\ \A s \in Sessions : serving[s].pc = "advance" => CallEntered(s)

\* Each recorded step takes the session a phase further, unless it was set back.
WorkersAgree == \A w \in Workers : serving[w] # Free => serving[w].agrees = TRUE

RunnerRuns == step.runner # None => pc = "record" /\ serving[step.runner] # Free

StepsFurther ==
  ~rewound =>
    /\ pc \in {"prepare", "cli", "record"} => row.index > step.round
    /\ step.runner # None /\ serving[step.runner].pc = "advance"
         => serving[step.runner].row.index > step.round
    /\ pc \in {"finalize", "reported"} => row.status = "completed"

ProgressInv == WorkersAgree /\ RunnerRuns /\ StepsFurther

AllAtFirst ==
  \A s \in Sessions :
    /\ serving[s].pc = "post" => serving[s].index = 1
    /\ serving[s].pc = "advance" => serving[s].row.index = 1

\* While only the workflow contributes, the session is at the phase under way,
\* or where its agent is refused.
SessionOnTrack ==
  /\ \A v \in DOMAIN board : board[v].about = board[v].phase
  /\ \A s \in Sessions : serving[s].pc = "post" => serving[s].about = Phases[serving[s].index]
  /\ \A o \in Outsiders : serving[o] = Free
  /\ row.index = 1 => AllAtFirst

StepAt(p) ==
  /\ step.phase = Phases[p] /\ step.agent = AgentFor(Phases[p])
  /\ p > 1 => row.index > 1
  /\ p = 1 => row.index <= 2 /\ AllAtFirst

ContributionInv ==
  OwnPhases /\ outside = 0 /\ ~overtaken =>
    /\ SessionOnTrack
    /\ pc \in {"cli", "record"} => \E p \in DOMAIN Phases : StepAt(p)

CoalitionInv ==
  /\ CollabTypes
  /\ WorkflowTypes
  /\ CompletedInv
  /\ EntriesInv
  /\ ProgressInv
  /\ ContributionInv

\* No step takes a completed session back.
CompletedStays == row.status = "completed" => row'.status = "completed"

-----------------------------------------------------------------------------
(* Coalitions: the pattern and the session                                 *)

LEMMA PhaseFacts ==
  /\ Len(Phases) \in Nat /\ Len(Phases) >= 1 /\ DOMAIN Phases = 1 .. Len(Phases)
  /\ LastRound \in Nat /\ LastRound + 1 = Len(Phases)
  /\ Restart \in DOMAIN Phases
  /\ \A k \in DOMAIN Phases : Phases[k] \in ToSet(Phases)
  /\ \A p \in ToSet(Phases) : AgentFor(p) \in Agents
<1>1. Phases \in Seq(ToSet(Phases)) /\ Len(Phases) > 0 /\ Restart \in DOMAIN Phases
  BY CollaborationAssumption
<1>2. Len(Phases) \in Nat /\ DOMAIN Phases = 1 .. Len(Phases)
  BY <1>1
<1>3. LastRound \in Nat /\ LastRound + 1 = Len(Phases) /\ Len(Phases) >= 1
  BY <1>1, <1>2 DEF LastRound
<1>4. \A k \in DOMAIN Phases : Phases[k] \in ToSet(Phases)
  BY DEF ToSet
<1>5. ASSUME NEW p \in ToSet(Phases) PROVE AgentFor(p) \in Agents
  <2>1. Required[p] \in Seq(Roles) /\ Required[p] # <<>> /\ Assigned \in [Roles -> Agents]
    BY CollaborationAssumption
  <2>2. Required[p][1] \in Roles
    BY <2>1
  <2> QED
    BY <2>1, <2>2 DEF AgentFor
<1> QED
  BY <1>1, <1>2, <1>3, <1>4, <1>5

\* What a contribution makes of the session it has read.
LEMMA MovedFacts ==
  ASSUME NEW r \in SessionRows, NEW agrees \in Answers
  PROVE  LET new == Moved(r, agrees) IN
         /\ new \in SessionRows
         /\ r.index < Len(Phases) =>
              new.index = r.index + 1 /\ new.rounds = r.rounds /\ new.status = r.status
         /\ r.index = Len(Phases) =>
              /\ new.rounds = r.rounds + 1
              /\ \/ agrees # TRUE /\ new.index = Restart /\ new.status = r.status
                 \/ new.index = r.index /\ new.status = "completed"
<1>1. /\ r.index \in 1 .. Len(Phases) /\ Len(Phases) \in Nat /\ Restart \in DOMAIN Phases
      /\ r.rounds \in Nat /\ r.rounds + 1 \in Nat /\ DOMAIN Phases = 1 .. Len(Phases)
  BY PhaseFacts DEF SessionRows
<1> DEFINE new == Moved(r, agrees)
           reached == IF agrees = TRUE THEN "yes" ELSE "partial"
<1>2. CASE r.index < Len(Phases)
  <2>1. ~IsTerminal(r.index)
    BY <1>1, <1>2 DEF IsTerminal
  <2>2. new = [r EXCEPT !.index = @ + 1]
    BY <2>1 DEF Moved
  <2>3. r.index + 1 \in DOMAIN Phases
    BY <1>1, <1>2
  <2> HIDE DEF new
  <2>4. /\ new \in SessionRows
        /\ new.index = r.index + 1 /\ new.rounds = r.rounds /\ new.status = r.status
    BY <2>2, <2>3 DEF SessionRows
  <2>5. r.index # Len(Phases)
    BY <1>1, <1>2
  <2> QED
    BY <2>4, <2>5 DEF new
<1>3. ASSUME r.index = Len(Phases)
      PROVE  /\ new \in SessionRows
             /\ new.rounds = r.rounds + 1
             /\ \/ agrees # TRUE /\ new.index = Restart /\ new.status = r.status
                \/ new.index = r.index /\ new.status = "completed"
  <2>1. IsTerminal(r.index)
    BY <1>3 DEF IsTerminal
  <2>2. \/ agrees # TRUE /\ new = [r EXCEPT !.rounds = @ + 1, !.index = Restart]
        \/ new = [r EXCEPT !.rounds = @ + 1, !.status = "completed", !.consensus = reached]
    BY <2>1 DEF Moved
  <2>3. reached \in {"no", "yes", "partial"}
    OBVIOUS
  <2> HIDE DEF new, reached
  <2>4. CASE agrees # TRUE /\ new = [r EXCEPT !.rounds = @ + 1, !.index = Restart]
    <3>1. /\ new \in SessionRows /\ new.rounds = r.rounds + 1
          /\ new.index = Restart /\ new.status = r.status
      BY <1>1, <2>4 DEF SessionRows
    <3> QED
      BY <2>4, <3>1
  <2>5. CASE new = [r EXCEPT !.rounds = @ + 1, !.status = "completed", !.consensus = reached]
    <3>1. /\ new \in SessionRows /\ new.rounds = r.rounds + 1
          /\ new.index = r.index /\ new.status = "completed"
      BY <1>1, <2>3, <2>5 DEF SessionRows
    <3> QED
      BY <3>1
  <2> QED
    BY <2>2, <2>4, <2>5
<1>4. r.index < Len(Phases) \/ r.index = Len(Phases)
  BY <1>1
<1>5. CASE r.index = Len(Phases)
  <2>1. ~(r.index < Len(Phases))
    BY <1>1, <1>5
  <2> HIDE DEF new
  <2> QED
    BY <1>3, <1>5, <2>1 DEF new
<1> QED
  BY <1>2, <1>4, <1>5

\* An UPDATE, column by column.
LEMMA SessionWritten ==
  ASSUME NEW now \in SessionRows, NEW old \in SessionRows, NEW new \in SessionRows
  PROVE  LET r == Written(now, old, new) IN
         /\ r \in SessionRows
         /\ r.status = IF new.status = old.status THEN now.status ELSE new.status
         /\ r.index = IF new.index = old.index THEN now.index ELSE new.index
         /\ r.rounds = IF new.rounds = old.rounds THEN now.rounds ELSE new.rounds
<1> DEFINE r == Written(now, old, new)
           cols == {"status", "index", "rounds", "consensus"}
<1>1. DOMAIN now = cols
  BY DEF SessionRows
<1>2. /\ DOMAIN r = cols
      /\ \A k \in cols : r[k] = IF new[k] = old[k] THEN now[k] ELSE new[k]
      /\ r = [k \in cols |-> r[k]]
  BY <1>1 DEF Written
<1> HIDE DEF r
<1>3. r = [status |-> r["status"], index |-> r["index"], rounds |-> r["rounds"],
           consensus |-> r["consensus"]]
  BY <1>2
<1>4. r \in SessionRows
  BY <1>2, <1>3 DEF SessionRows
<1> QED
  BY <1>2, <1>4 DEF r

\* The three states of a database session.
LEMMA CallFacts ==
  ASSUME CollabTypes, NEW s \in Sessions
  PROVE  /\ serving[s] = Free \/ serving[s] \in Posting \/ serving[s] \in Advancing
         /\ serving[s] = Free <=> serving[s].pc = "free"
         /\ serving[s].pc = "post" =>
              /\ serving[s] \in Posting
              /\ serving[s].index \in DOMAIN Phases /\ serving[s].round \in Nat
              /\ serving[s].agent \in Agents /\ serving[s].agrees \in Answers
              /\ serving[s].about \in ToSet(Phases)
         /\ serving[s].pc = "advance" =>
              /\ serving[s] \in Advancing
              /\ serving[s].row \in SessionRows /\ serving[s].agrees \in Answers
<1>1. serving[s] = Free \/ serving[s] \in Posting \/ serving[s] \in Advancing
  BY DEF CollabTypes
<1>2. CASE serving[s] = Free
  <2>1. serving[s].pc = "free"
    BY <1>2 DEF Free
  <2> QED
    BY <1>2, <2>1
<1>3. CASE serving[s] \in Posting
  <2>1. /\ serving[s].pc = "post"
        /\ serving[s].index \in DOMAIN Phases /\ serving[s].round \in Nat
        /\ serving[s].agent \in Agents /\ serving[s].agrees \in Answers
        /\ serving[s].about \in ToSet(Phases)
    BY <1>3 DEF Posting
  <2>2. Free.pc = "free"
    BY DEF Free
  <2> QED
    BY <1>3, <2>1, <2>2
<1>4. CASE serving[s] \in Advancing
  <2>1. /\ serving[s].pc = "advance"
        /\ serving[s].row \in SessionRows /\ serving[s].agrees \in Answers
    BY <1>4 DEF Advancing
  <2>2. Free.pc = "free"
    BY DEF Free
  <2> QED
    BY <1>4, <2>1, <2>2
<1> QED
  BY <1>1, <1>2, <1>3, <1>4

\* A contribution is accepted.
LEMMA Entering ==
  ASSUME CollabTypes, NEW s \in Sessions, NEW agent \in Agents, NEW agrees \in Answers,
         NEW about \in ToSet(Phases), Enter(s, agent, agrees, about)
  PROVE  /\ CollabTypes'
         /\ serving[s] = Free /\ Accepted(agent, agrees)
         /\ serving'[s].pc = "post" /\ serving'[s] # Free
         /\ serving'[s].index = row.index /\ serving'[s].about = about
         /\ serving'[s].agrees = agrees
         /\ \A t \in Sessions : t # s => serving'[t] = serving[t]
         /\ UNCHANGED <<row, board, overtaken, rewound>>
<1> DEFINE call == [pc |-> "post", agent |-> agent, agrees |-> agrees, index |-> row.index,
                    round |-> row.rounds, about |-> about]
<1>1. /\ serving[s] = Free /\ Accepted(agent, agrees)
      /\ serving' = [serving EXCEPT ![s] = call]
      /\ UNCHANGED <<row, board, overtaken, rewound>>
  BY DEF Enter
<1>2. row.index \in DOMAIN Phases /\ row.rounds \in Nat
  BY DEF CollabTypes, SessionRows
<1>3. call \in Posting
  BY <1>2 DEF Posting
<1>4. /\ call.pc = "post" /\ call.index = row.index /\ call.about = about
      /\ call.agrees = agrees /\ call # Free
  BY DEF Free
<1> HIDE DEF call
<1>5. /\ serving' \in [Sessions -> {Free} \cup Posting \cup Advancing]
      /\ serving'[s] = call
      /\ \A t \in Sessions : t # s => serving'[t] = serving[t]
  BY <1>1, <1>3 DEF CollabTypes
<1>6. CollabTypes'
  BY <1>1, <1>5 DEF CollabTypes
<1> QED
  BY <1>1, <1>4, <1>5, <1>6

\* A contribution is on the blackboard, and the session has been read again.
LEMMA Posted ==
  ASSUME CollabTypes, NEW s \in Sessions, Post(s)
  PROVE  /\ CollabTypes'
         /\ serving[s].pc = "post" /\ serving'[s].pc = "advance" /\ serving'[s] # Free
         /\ serving'[s].row = row /\ serving'[s].agrees = serving[s].agrees
         /\ \A t \in Sessions : t # s => serving'[t] = serving[t]
         /\ \E e \in Entries :
              /\ e.phase = Phases[serving[s].index] /\ e.round = serving[s].round
              /\ e.about = serving[s].about
              /\ board' = Append(board, e)
         /\ ~overtaken' => /\ ~overtaken
                           /\ row.index = serving[s].index /\ row.rounds = serving[s].round
         /\ UNCHANGED <<row, rewound>>
<1> DEFINE me == serving[s]
           e == [phase |-> Phases[me.index], round |-> me.round,
                 agent |-> me.agent, about |-> me.about]
           call == [pc |-> "advance", agrees |-> me.agrees, row |-> row]
<1>1. /\ me.pc = "post"
      /\ board' = Append(board, e)
      /\ serving' = [serving EXCEPT ![s] = call]
      /\ overtaken' = (overtaken \/ row.index # me.index \/ row.rounds # me.round)
      /\ UNCHANGED <<row, rewound>>
  BY DEF Post
<1>2. /\ me.index \in DOMAIN Phases /\ me.round \in Nat /\ me.agent \in Agents
      /\ me.agrees \in Answers /\ me.about \in ToSet(Phases)
  BY <1>1, CallFacts
<1>3. Phases[me.index] \in ToSet(Phases)
  BY <1>2, PhaseFacts
<1>4. /\ e \in Entries
      /\ e.phase = Phases[me.index] /\ e.round = me.round /\ e.about = me.about
  BY <1>2, <1>3 DEF Entries
<1>5. call \in Advancing
  BY <1>2 DEF Advancing, CollabTypes
<1>6. call.pc = "advance" /\ call.row = row /\ call.agrees = me.agrees /\ call # Free
  BY DEF Free
<1> HIDE DEF e, call
<1>7. /\ serving' \in [Sessions -> {Free} \cup Posting \cup Advancing]
      /\ serving'[s] = call
      /\ \A t \in Sessions : t # s => serving'[t] = serving[t]
  BY <1>1, <1>5 DEF CollabTypes
<1>8. board' \in Seq(Entries)
  BY <1>1, <1>4 DEF CollabTypes
<1>9. overtaken' \in BOOLEAN
  BY <1>1 DEF CollabTypes
<1>10. CollabTypes'
  BY <1>1, <1>7, <1>8, <1>9 DEF CollabTypes
<1>11. ~overtaken' => ~overtaken /\ row.index = me.index /\ row.rounds = me.round
  BY <1>1
<1> QED
  BY <1>1, <1>4, <1>6, <1>7, <1>10, <1>11

\* The session has moved on from what the call had read.
LEMMA Advanced ==
  ASSUME CollabTypes, CompletedInv, NEW s \in Sessions, Advance(s)
  PROVE  LET view == serving[s].row IN
         /\ CollabTypes'
         /\ serving[s].pc = "advance" /\ serving'[s] = Free
         /\ view \in SessionRows
         /\ \A t \in Sessions : t # s => serving'[t] = serving[t]
         /\ UNCHANGED board
         /\ ~overtaken' => ~overtaken /\ row.rounds = view.rounds
         /\ ~rewound' => ~rewound /\ ~(row'.index < row.index)
         /\ row.status = "completed" => row'.status = "completed"
         /\ view.index < Len(Phases) =>
              /\ row'.index = view.index + 1
              /\ row'.rounds = row.rounds /\ row'.status = row.status
         /\ view.index = Len(Phases) =>
              /\ row'.rounds = view.rounds + 1
              /\ \/ /\ serving[s].agrees # TRUE
                    /\ row'.index = Restart \/ (Restart = Len(Phases) /\ row'.index = row.index)
                    /\ row'.status = row.status
                 \/ row'.index = row.index /\ row'.status = "completed"
<1> DEFINE view == serving[s].row
           agrees == serving[s].agrees
           new == Moved(view, agrees)
<1>1. /\ serving[s].pc = "advance"
      /\ row' = Written(row, view, new)
      /\ rewound' = (rewound \/ row'.index < row.index)
      /\ overtaken' = (overtaken \/ row.rounds # view.rounds)
      /\ serving' = [serving EXCEPT ![s] = Free]
      /\ UNCHANGED board
  BY DEF Advance
<1>2. view \in SessionRows /\ agrees \in Answers /\ row \in SessionRows
  BY <1>1, CallFacts DEF CollabTypes
<1>3. /\ new \in SessionRows
      /\ view.index < Len(Phases) =>
           new.index = view.index + 1 /\ new.rounds = view.rounds /\ new.status = view.status
      /\ view.index = Len(Phases) =>
           /\ new.rounds = view.rounds + 1
           /\ \/ agrees # TRUE /\ new.index = Restart /\ new.status = view.status
              \/ new.index = view.index /\ new.status = "completed"
  BY <1>2, MovedFacts
<1>4. view.status = "completed" => row.status = "completed"
  BY <1>1 DEF CompletedInv
<1> HIDE DEF new, view, agrees
<1>5. /\ row' \in SessionRows
      /\ row'.status = IF new.status = view.status THEN row.status ELSE new.status
      /\ row'.index = IF new.index = view.index THEN row.index ELSE new.index
      /\ row'.rounds = IF new.rounds = view.rounds THEN row.rounds ELSE new.rounds
  BY <1>1, <1>2, <1>3, SessionWritten
<1>6. /\ view.index \in Nat /\ view.rounds \in Nat /\ Restart \in Nat
      /\ view.status \in {"active", "completed"} /\ row.status \in {"active", "completed"}
      /\ view.index + 1 # view.index /\ view.rounds + 1 # view.rounds
  <2>1. /\ view.index \in Nat /\ view.rounds \in Nat /\ Restart \in Nat
        /\ view.status \in {"active", "completed"} /\ row.status \in {"active", "completed"}
    BY <1>2, PhaseFacts DEF SessionRows
  <2> QED
    BY <2>1
<1>7. view.index < Len(Phases) =>
        /\ row'.index = view.index + 1
        /\ row'.rounds = row.rounds /\ row'.status = row.status
  BY <1>3, <1>5, <1>6
<1>8. ASSUME view.index = Len(Phases)
      PROVE  /\ row'.rounds = view.rounds + 1
             /\ \/ /\ agrees # TRUE
                   /\ row'.index = Restart \/ (Restart = Len(Phases) /\ row'.index = row.index)
                   /\ row'.status = row.status
                \/ row'.index = row.index /\ row'.status = "completed"
  <2>1. row'.rounds = view.rounds + 1
    BY <1>3, <1>5, <1>6, <1>8
  <2>2. CASE agrees # TRUE /\ new.index = Restart /\ new.status = view.status
    <3>1. row'.status = row.status
      BY <1>5, <2>2
    <3>2. row'.index = Restart \/ (Restart = Len(Phases) /\ row'.index = row.index)
      BY <1>5, <1>8, <2>2
    <3> QED
      BY <2>1, <2>2, <3>1, <3>2
  <2>3. CASE new.index = view.index /\ new.status = "completed"
    <3>1. row'.index = row.index /\ row'.status = "completed"
      BY <1>4, <1>5, <2>3
    <3> QED
      BY <2>1, <3>1
  <2> QED
    BY <1>3, <1>8, <2>2, <2>3
<1>9. row.status = "completed" => row'.status = "completed"
  <2>1. view.index \in 1 .. Len(Phases) /\ Len(Phases) \in Nat
    BY <1>2, PhaseFacts DEF SessionRows
  <2>2. view.index < Len(Phases) \/ view.index = Len(Phases)
    BY <2>1
  <2> QED
    BY <1>7, <1>8, <2>2
<1>10. /\ serving' \in [Sessions -> {Free} \cup Posting \cup Advancing]
       /\ serving'[s] = Free
       /\ \A t \in Sessions : t # s => serving'[t] = serving[t]
  BY <1>1 DEF CollabTypes
<1>11. overtaken' \in BOOLEAN /\ rewound' \in BOOLEAN
  BY <1>1 DEF CollabTypes
<1>12. CollabTypes'
  BY <1>1, <1>5, <1>10, <1>11 DEF CollabTypes
<1>13. /\ ~overtaken' => ~overtaken /\ row.rounds = view.rounds
       /\ ~rewound' => ~rewound /\ ~(row'.index < row.index)
  BY <1>1
<1> QED
  BY <1>1, <1>2, <1>7, <1>8, <1>9, <1>10, <1>12, <1>13 DEF view, agrees

\* A call has died.
LEMMA Aborted ==
  ASSUME CollabTypes, NEW s \in Sessions, Abort(s)
  PROVE  /\ CollabTypes'
         /\ serving[s] # Free /\ serving'[s] = Free
         /\ \A t \in Sessions : t # s => serving'[t] = serving[t]
         /\ UNCHANGED <<row, board, overtaken, rewound>>
<1>1. /\ serving[s] # Free
      /\ serving' = [serving EXCEPT ![s] = Free]
      /\ UNCHANGED <<row, board, overtaken, rewound>>
  BY DEF Abort
<1>2. /\ serving' \in [Sessions -> {Free} \cup Posting \cup Advancing]
      /\ serving'[s] = Free
      /\ \A t \in Sessions : t # s => serving'[t] = serving[t]
  BY <1>1 DEF CollabTypes
<1>3. CollabTypes'
  BY <1>1, <1>2 DEF CollabTypes
<1> QED
  BY <1>1, <1>2, <1>3

-----------------------------------------------------------------------------
(* Coalitions: every phase has its entry                                   *)

\* A call that begins or dies leaves what the others have seen as it is.
LEMMA EntriesLeft ==
  ASSUME CompletedInv, EntriesInv, NEW s \in Sessions,
         UNCHANGED <<row, board, overtaken>>, serving'[s].pc # "advance",
         \A t \in Sessions : t # s => serving'[t] = serving[t]
  PROVE  CompletedInv' /\ EntriesInv'
<1>1. \A t \in Sessions : serving'[t].pc = "advance" =>
        serving[t].pc = "advance" /\ serving'[t].row = serving[t].row
  OBVIOUS
<1>2. CompletedInv'
  BY <1>1 DEF CompletedInv
<1>3. EntriesInv'
  <2> SUFFICES ASSUME ~overtaken' PROVE RowEntered' /\ \A t \in Sessions :
                 serving'[t].pc = "advance" => CallEntered(t)'
    BY DEF EntriesInv
  <2>1. RowEntered /\ \A t \in Sessions : serving[t].pc = "advance" => CallEntered(t)
    BY DEF EntriesInv
  <2>2. RowEntered'
    BY <2>1 DEF RowEntered
  <2>3. ASSUME NEW t \in Sessions, serving'[t].pc = "advance" PROVE CallEntered(t)'
    BY <1>1, <2>1, <2>3 DEF CallEntered
  <2> QED
    BY <2>2, <2>3
<1> QED
  BY <1>2, <1>3

\* The blackboard only grows.
LEMMA EntriesGrow ==
  ASSUME NEW b \in Seq(Entries), NEW e \in Entries
  PROVE  LET b2 == Append(b, e) IN
         /\ \A k \in DOMAIN Phases : Entered(b, k) => Entered(b2, k)
         /\ \A k \in DOMAIN Phases, n \in Nat : EnteredIn(b, k, n) => EnteredIn(b2, k, n)
         /\ \A index, n \in Nat : Passed(b, index, n) => Passed(b2, index, n)
         /\ \A k \in DOMAIN Phases : e.phase = Phases[k] => EnteredIn(b2, k, e.round)
<1> DEFINE b2 == Append(b, e)
<1>1. /\ \A v \in DOMAIN b : v \in DOMAIN b2 /\ b2[v] = b[v]
      /\ Len(b) + 1 \in DOMAIN b2 /\ b2[Len(b) + 1] = e
  OBVIOUS
<1> HIDE DEF b2
<1>2. \A k \in DOMAIN Phases : Entered(b, k) => Entered(b2, k)
  BY <1>1 DEF Entered
<1>3. \A k \in DOMAIN Phases, n \in Nat : EnteredIn(b, k, n) => EnteredIn(b2, k, n)
  BY <1>1 DEF EnteredIn
<1>4. \A index, n \in Nat : Passed(b, index, n) => Passed(b2, index, n)
  BY <1>3 DEF Passed
<1>5. \A k \in DOMAIN Phases : e.phase = Phases[k] => EnteredIn(b2, k, e.round)
  BY <1>1 DEF EnteredIn
<1> QED
  BY <1>2, <1>3, <1>4, <1>5 DEF b2

\* A call that posts has seen the phases before its own, and its own entry.
LEMMA PostEnters ==
  ASSUME CollabTypes, CompletedInv, EntriesInv, NEW s \in Sessions, Post(s)
  PROVE  CompletedInv' /\ EntriesInv'
<1>1. /\ serving[s].pc = "post" /\ serving'[s].pc = "advance" /\ serving'[s].row = row
      /\ \A t \in Sessions : t # s => serving'[t] = serving[t]
      /\ ~overtaken' => /\ ~overtaken
                        /\ row.index = serving[s].index /\ row.rounds = serving[s].round
      /\ UNCHANGED <<row, rewound>>
  BY Posted
<1>2. PICK e \in Entries :
        /\ e.phase = Phases[serving[s].index] /\ e.round = serving[s].round
        /\ board' = Append(board, e)
  BY Posted
<1>3. /\ \A k \in DOMAIN Phases : Entered(board, k) => Entered(board', k)
      /\ \A index, n \in Nat : Passed(board, index, n) => Passed(board', index, n)
      /\ \A k \in DOMAIN Phases : e.phase = Phases[k] => EnteredIn(board', k, e.round)
  BY <1>2, EntriesGrow DEF CollabTypes
<1>4. row.index \in DOMAIN Phases /\ row.rounds \in Nat /\ row.index \in Nat
  BY PhaseFacts DEF CollabTypes, SessionRows
<1>5. CompletedInv'
  <2>1. \A t \in Sessions : serving'[t].pc = "advance" /\ serving'[t].row.status = "completed"
                              => row.status = "completed"
    BY <1>1 DEF CompletedInv
  <2> QED
    BY <1>1, <2>1 DEF CompletedInv
<1>6. ASSUME ~overtaken' PROVE RowEntered'
  <2>1. RowEntered
    BY <1>1, <1>6 DEF EntriesInv
  <2> QED
    BY <1>1, <1>3, <1>4, <2>1 DEF RowEntered
<1>7. ASSUME ~overtaken', NEW t \in Sessions, serving'[t].pc = "advance" PROVE CallEntered(t)'
  <2>1. CASE t = s
    <3>1. RowEntered
      BY <1>1, <1>7 DEF EntriesInv
    <3>2. EnteredIn(board', row.index, row.rounds)
      BY <1>1, <1>2, <1>3, <1>4, <1>7
    <3>3. Passed(board', row.index, row.rounds) => Passed(board', row.index + 1, row.rounds)
      <4>1. \A k \in DOMAIN Phases : k < row.index + 1 => k < row.index \/ k = row.index
        <5>1. \A k \in 1 .. Len(Phases) : k < row.index + 1 => k < row.index \/ k = row.index
          BY <1>4
        <5> QED
          BY <5>1, PhaseFacts
      <4> QED
        BY <3>2, <4>1 DEF Passed
    <3>4. /\ row.rounds > 0 => \A k \in DOMAIN Phases : Entered(board', k)
          /\ row.status = "completed" \/ Passed(board', row.index + 1, row.rounds)
      BY <1>3, <1>4, <3>1, <3>3 DEF RowEntered
    <3> QED
      BY <1>1, <2>1, <3>4 DEF CallEntered
  <2>2. CASE t # s
    <3>1. serving'[t] = serving[t] /\ serving[t].pc = "advance"
      BY <1>1, <1>7, <2>2
    <3>2. CallEntered(t)
      BY <1>1, <1>7, <3>1 DEF EntriesInv
    <3>3. serving[t].row.index + 1 \in Nat /\ serving[t].row.rounds \in Nat
      <4>1. serving[t].row \in SessionRows
        BY <3>1, CallFacts
      <4>2. serving[t].row.index \in 1 .. Len(Phases) /\ serving[t].row.rounds \in Nat
        BY <4>1, PhaseFacts DEF SessionRows
      <4> QED
        BY <4>2
    <3>4. /\ serving[t].row.rounds > 0 => \A k \in DOMAIN Phases : Entered(board', k)
          /\ \/ serving[t].row.status = "completed"
             \/ Passed(board', serving[t].row.index + 1, serving[t].row.rounds)
      BY <1>3, <3>2, <3>3 DEF CallEntered
    <3> QED
      BY <3>1, <3>4 DEF CallEntered
  <2> QED
    BY <2>1, <2>2
<1>8. EntriesInv'
  BY <1>6, <1>7 DEF EntriesInv
<1> QED
  BY <1>5, <1>8

\* A round that ends has been through all phases; the next starts at Restart.
LEMMA AdvanceEntered ==
  ASSUME CollabTypes, CompletedInv, EntriesInv, NEW s \in Sessions, Advance(s)
  PROVE  CompletedInv' /\ EntriesInv'
<1> DEFINE view == serving[s].row
<1>1. /\ serving[s].pc = "advance" /\ serving'[s] = Free /\ view \in SessionRows
      /\ \A t \in Sessions : t # s => serving'[t] = serving[t]
      /\ board' = board
      /\ ~overtaken' => ~overtaken /\ row.rounds = view.rounds
      /\ row.status = "completed" => row'.status = "completed"
      /\ view.index < Len(Phases) =>
           /\ row'.index = view.index + 1
           /\ row'.rounds = row.rounds /\ row'.status = row.status
      /\ view.index = Len(Phases) =>
           /\ row'.rounds = view.rounds + 1
           /\ \/ /\ row'.index = Restart \/ (Restart = Len(Phases) /\ row'.index = row.index)
                 /\ row'.status = row.status
              \/ row'.status = "completed"
  BY Advanced
<1>2. /\ view.index \in 1 .. Len(Phases) /\ view.rounds \in Nat
      /\ Len(Phases) \in Nat /\ Restart \in 1 .. Len(Phases) /\ DOMAIN Phases = 1 .. Len(Phases)
      /\ row.index \in 1 .. Len(Phases) /\ row.rounds \in Nat
  BY <1>1, PhaseFacts DEF CollabTypes, SessionRows
<1>3. view.index < Len(Phases) \/ view.index = Len(Phases)
  BY <1>2
<1>4. view.rounds + 1 > 0 /\ view.rounds + 1 # 0 /\ (view.rounds > 0 \/ view.rounds = 0)
  BY <1>2
<1>5. \A t \in Sessions : serving'[t].pc = "advance" =>
        serving[t].pc = "advance" /\ serving'[t] = serving[t]
  BY <1>1 DEF Free
<1>6. view.status = "completed" => row.status = "completed" /\ row.rounds > 0
  BY <1>1 DEF CompletedInv
<1> HIDE DEF view
<1>7. CompletedInv'
  <2>1. row'.status = "completed" => row'.rounds > 0
    BY <1>1, <1>3, <1>4 DEF CompletedInv
  <2>2. \A t \in Sessions : serving'[t].pc = "advance" /\ serving'[t].row.status = "completed"
                              => row'.status = "completed"
    BY <1>1, <1>5 DEF CompletedInv
  <2> QED
    BY <2>1, <2>2 DEF CompletedInv
<1>8. ASSUME ~overtaken' PROVE RowEntered'
  <2>1. /\ RowEntered
        /\ view.rounds > 0 => \A k \in DOMAIN Phases : Entered(board, k)
        /\ view.status = "completed" \/ Passed(board, view.index + 1, view.rounds)
    BY <1>1, <1>8 DEF EntriesInv, CallEntered, view
  <2>2. CASE view.index < Len(Phases)
    <3>1. row'.status = "completed" \/ Passed(board, row'.index, row'.rounds)
      BY <1>1, <1>6, <1>8, <2>1, <2>2
    <3> QED
      BY <1>1, <2>1, <2>2, <3>1 DEF RowEntered
  <2>3. CASE view.index = Len(Phases)
    <3>1. \A k \in DOMAIN Phases : Entered(board, k)
      <4>1. CASE view.rounds > 0
        BY <2>1, <4>1
      <4>2. CASE view.rounds = 0
        <5>1. ~(row.rounds > 0)
          BY <1>1, <1>8, <4>2
        <5>2. Passed(board, view.index + 1, 0)
          BY <1>6, <2>1, <4>2, <5>1
        <5>3. \A k \in DOMAIN Phases : k < view.index + 1
          BY <1>2, <2>3
        <5>4. \A k \in DOMAIN Phases : EnteredIn(board, k, 0)
          BY <5>2, <5>3 DEF Passed
        <5> QED
          BY <5>4 DEF Entered, EnteredIn
      <4> QED
        BY <1>4, <4>1, <4>2
    <3>2. row'.status = "completed" \/ Passed(board, row'.index, row'.rounds)
      <4> SUFFICES ASSUME row'.status # "completed"
                   PROVE  Passed(board, row'.index, row'.rounds)
        OBVIOUS
      <4>1. row'.index = Restart \/ (Restart = Len(Phases) /\ row'.index = row.index)
        BY <1>1, <2>3
      <4>2. row'.rounds # 0
        BY <1>1, <1>4, <2>3
      <4>3. \A k \in DOMAIN Phases : ~(k < row'.index /\ k >= Restart)
        <5> SUFFICES ASSUME NEW k \in DOMAIN Phases PROVE ~(k < row'.index /\ k >= Restart)
          OBVIOUS
        <5>1. k \in Nat /\ Restart \in Nat /\ row.index \in Nat /\ row.index <= Len(Phases)
          BY <1>2
        <5>2. CASE row'.index = Restart
          BY <5>1, <5>2
        <5>3. CASE Restart = Len(Phases) /\ row'.index = row.index
          BY <5>1, <5>3
        <5> QED
          BY <4>1, <5>2, <5>3
      <4> QED
        BY <4>2, <4>3 DEF Passed
    <3> QED
      BY <1>1, <3>1, <3>2 DEF RowEntered
  <2> QED
    BY <1>3, <2>2, <2>3
<1>9. ASSUME ~overtaken', NEW t \in Sessions, serving'[t].pc = "advance" PROVE CallEntered(t)'
  <2>1. serving'[t] = serving[t] /\ CallEntered(t)
    BY <1>1, <1>5, <1>9 DEF EntriesInv
  <2> QED
    BY <1>1, <2>1 DEF CallEntered
<1>10. EntriesInv'
  BY <1>8, <1>9 DEF EntriesInv
<1> QED
  BY <1>7, <1>10

-----------------------------------------------------------------------------
(* Coalitions: the workflow                                                *)

LEMMA SessionFacts ==
  /\ Workers \subseteq Sessions /\ Outsiders \subseteq Sessions
  /\ Workers \cap Outsiders = {} /\ None \notin Workers /\ None \notin Sessions
BY CoalitionAssumption

\* An attempt fails: the step stays what it was about.
LEMMA AttemptFailing ==
  ASSUME step \in StepTypes, AttemptFails
  PROVE  /\ pc' \in {pc, "failed"}
         /\ step' \in StepTypes /\ step'.runner = None
         /\ step'.round = step.round /\ step'.phase = step.phase /\ step'.agent = step.agent
<1>1. step' = [step EXCEPT !.attempt = @ + 1, !.runner = None]
  BY DEF AttemptFails
<1>2. pc' \in {pc, "failed"}
  BY DEF AttemptFails
<1>3. step.attempt + 1 \in Nat
  BY DEF StepTypes
<1>4. /\ step' \in StepTypes /\ step'.runner = None
      /\ step'.round = step.round /\ step'.phase = step.phase /\ step'.agent = step.agent
  BY <1>1, <1>3 DEF StepTypes
<1> QED
  BY <1>2, <1>4

\* A step has been recorded: the next one, or the end of the workflow.
LEMMA StepRecorded ==
  ASSUME step \in StepTypes, NEW w \in Workers, AfterStep(w),
         NEW told, told = Moved(serving[w].row, serving[w].agrees).status
  PROVE  /\ step' \in StepTypes /\ step'.runner = None
         /\ \/ pc' = "finalize" /\ (told = "completed" \/ step.round = LastRound)
            \/ /\ pc' = "prepare" /\ told # "completed"
               /\ step.round < LastRound /\ step'.round = step.round + 1
<1> DEFINE round == IF pc' = "prepare" THEN step.round + 1 ELSE step.round
<1>1. /\ pc' = IF told = "completed" \/ step.round = LastRound
                 THEN "finalize" ELSE "prepare"
      /\ step' = [round |-> round, phase |-> None, agent |-> None, attempt |-> 0,
                  runner |-> None]
  BY DEF AfterStep
<1>2. step.round \in 0 .. LastRound /\ LastRound \in Nat
  BY PhaseFacts DEF StepTypes
<1>3. step.round # LastRound =>
        step.round < LastRound /\ step.round + 1 \in 0 .. LastRound
  BY <1>2
<1>4. \/ pc' = "finalize" /\ (told = "completed" \/ step.round = LastRound)
      \/ pc' = "prepare" /\ told # "completed" /\ step.round # LastRound
  BY <1>1
<1>5. round \in 0 .. LastRound
  BY <1>2, <1>3, <1>4
<1>6. pc' = "prepare" => round = step.round + 1
  OBVIOUS
<1> HIDE DEF round
<1>7. step' \in StepTypes /\ step'.runner = None /\ step'.round = round
  BY <1>1, <1>5 DEF StepTypes
<1> QED
  BY <1>3, <1>4, <1>6, <1>7

\* Each action on the session and each on the workflow has its types.
LEMMA CoalitionTypesStep ==
  ASSUME CoalitionInv, [Next]_vars
  PROVE  CollabTypes' /\ WorkflowTypes' /\ CompletedInv' /\ EntriesInv'
<1> USE DEF CoalitionInv
<1> DEFINE Collab == CollabTypes /\ CompletedInv /\ EntriesInv
<1>1. ASSUME UNCHANGED collab PROVE Collab'
  <2>1. row' = row /\ board' = board /\ serving' = serving
        /\ overtaken' = overtaken /\ rewound' = rewound
    BY <1>1 DEF collab
  <2>2. CollabTypes' /\ CompletedInv'
    BY <2>1 DEF CollabTypes, CompletedInv
  <2>3. EntriesInv'
    BY <2>1 DEF EntriesInv, RowEntered, CallEntered
  <2> QED
    BY <2>2, <2>3
<1>2. ASSUME NEW s \in Sessions, NEW agent \in Agents, NEW agrees \in Answers,
             NEW about \in ToSet(Phases), Enter(s, agent, agrees, about)
      PROVE  Collab'
  <2>1. /\ CollabTypes' /\ serving'[s].pc = "post"
        /\ \A t \in Sessions : t # s => serving'[t] = serving[t]
        /\ UNCHANGED <<row, board, overtaken, rewound>>
    BY <1>2, Entering
  <2>2. serving'[s].pc # "advance" /\ UNCHANGED <<row, board, overtaken>>
    BY <2>1
  <2> QED
    BY <2>1, <2>2, EntriesLeft
<1>3. ASSUME NEW s \in Sessions, Post(s) PROVE Collab'
  BY <1>3, Posted, PostEnters
<1>4. ASSUME NEW s \in Sessions, Advance(s) PROVE Collab'
  BY <1>4, Advanced, AdvanceEntered
<1>5. ASSUME NEW s \in Sessions, Abort(s) PROVE Collab'
  <2>1. /\ CollabTypes' /\ serving'[s] = Free
        /\ \A t \in Sessions : t # s => serving'[t] = serving[t]
        /\ UNCHANGED <<row, board, overtaken, rewound>>
    BY <1>5, Aborted
  <2>2. serving'[s].pc # "advance" /\ UNCHANGED <<row, board, overtaken>>
    BY <2>1 DEF Free
  <2> QED
    BY <2>1, <2>2, EntriesLeft
<1>6. /\ step \in StepTypes
      /\ pc \in {"prepare", "cli", "record", "finalize", "reported", "failed"}
      /\ outside \in 0 .. MaxOutside /\ trouble \in 0 .. MaxTrouble
  BY DEF WorkflowTypes
<1>7. TroubleHappens => trouble' \in 0 .. MaxTrouble
  BY <1>6, CoalitionAssumption DEF TroubleHappens
<1>8. Workers \subseteq Sessions /\ Outsiders \subseteq Sessions /\ TRUE \in Answers
  BY SessionFacts DEF Answers
<1>9. AttemptFails => /\ pc' \in {pc, "failed"} /\ step' \in StepTypes
                      /\ step'.phase = step.phase /\ step'.agent = step.agent
  BY <1>6, AttemptFailing
<1>10. row.index \in DOMAIN Phases /\ Phase \in ToSet(Phases) /\ AgentFor(Phase) \in Agents
  BY PhaseFacts DEF CollabTypes, SessionRows, Phase
<1> HIDE DEF Collab
<1>11. Collab' => CollabTypes' /\ CompletedInv' /\ EntriesInv'
  BY DEF Collab
<1>12. CASE UNCHANGED vars
  <2>1. Collab'
    BY <1>1, <1>12 DEF vars
  <2>2. WorkflowTypes'
    BY <1>12 DEF vars, WorkflowTypes
  <2> QED
    BY <1>11, <2>1, <2>2
<1>13. CASE Prepare
  <2>1. Collab'
    BY <1>1, <1>13 DEF Prepare
  <2>2. /\ pc' = "cli" /\ outside' = outside /\ trouble' = trouble
        /\ step' = [step EXCEPT !.phase = Phase, !.agent = AgentFor(Phase)]
    BY <1>13 DEF Prepare
  <2>3. step' \in StepTypes /\ step'.phase \in ToSet(Phases) /\ step'.agent \in Agents
    BY <1>6, <1>10, <2>2 DEF StepTypes
  <2>4. WorkflowTypes'
    BY <2>2, <2>3 DEF WorkflowTypes
  <2> QED
    BY <1>11, <2>1, <2>4
<1>14. CASE Generate
  <2>1. Collab'
    BY <1>1, <1>14 DEF Generate
  <2>2. /\ pc = "cli" /\ pc' = "record" /\ outside' = outside /\ trouble' = trouble
        /\ step' = [step EXCEPT !.attempt = 1]
    BY <1>14 DEF Generate
  <2>3. step' \in StepTypes /\ step'.phase = step.phase /\ step'.agent = step.agent
    BY <1>6, <2>2 DEF StepTypes
  <2>4. WorkflowTypes'
    BY <2>2, <2>3 DEF WorkflowTypes
  <2> QED
    BY <1>11, <2>1, <2>4
<1>15. ASSUME NEW w \in Workers, StartAttempt(w) PROVE Collab' /\ WorkflowTypes'
  <2>1. pc = "record" /\ step.phase \in ToSet(Phases) /\ step.agent \in Agents
    BY <1>15 DEF StartAttempt, WorkflowTypes
  <2>2. UNCHANGED <<outside, trouble>>
    BY <1>15 DEF StartAttempt
  <2>3. CASE Enter(w, step.agent, TRUE, step.phase) /\ pc' = pc
             /\ step' = [step EXCEPT !.runner = w]
    <3>1. Collab'
      BY <1>2, <1>8, <2>1, <2>3
    <3>2. step' \in StepTypes /\ step'.phase = step.phase /\ step'.agent = step.agent
      BY <1>6, <2>3 DEF StepTypes
    <3>3. WorkflowTypes'
      BY <2>1, <2>2, <2>3, <3>2 DEF WorkflowTypes
    <3> QED
      BY <3>1, <3>3
  <2>4. CASE AttemptFails /\ UNCHANGED collab
    <3>1. WorkflowTypes'
      BY <1>9, <2>1, <2>2, <2>4 DEF WorkflowTypes
    <3> QED
      BY <1>1, <2>4, <3>1
  <2> QED
    BY <1>15, <2>3, <2>4 DEF StartAttempt
<1>16. ASSUME NEW w \in Workers, Work(w) PROVE Collab' /\ WorkflowTypes'
  <2>1. UNCHANGED <<outside, trouble>>
    BY <1>16 DEF Work
  <2>2. Collab'
    BY <1>3, <1>4, <1>8, <1>16 DEF Work
  <2>3. UNCHANGED <<pc, step>> \/ AfterStep(w)
    BY <1>16 DEF Work
  <2>4. CASE UNCHANGED <<pc, step>>
    BY <2>1, <2>2, <2>4 DEF WorkflowTypes
  <2>5. CASE AfterStep(w)
    <3>1. step' \in StepTypes /\ pc' \in {"finalize", "prepare"}
      BY <1>6, <2>5, StepRecorded
    <3> QED
      BY <2>1, <2>2, <3>1 DEF WorkflowTypes
  <2> QED
    BY <2>3, <2>4, <2>5
<1>17. ASSUME NEW w \in Workers, ResultLost(w) PROVE Collab' /\ WorkflowTypes'
  <2>1. Advance(w) /\ AttemptFails /\ TroubleHappens /\ outside' = outside
    BY <1>17 DEF ResultLost
  <2> QED
    BY <1>4, <1>7, <1>8, <1>9, <2>1 DEF WorkflowTypes
<1>18. CASE AttemptTimesOut
  <2>1. UNCHANGED collab /\ AttemptFails /\ TroubleHappens /\ outside' = outside
    BY <1>18 DEF AttemptTimesOut
  <2> QED
    BY <1>1, <1>7, <1>9, <1>11, <2>1 DEF WorkflowTypes
<1>19. ASSUME NEW w \in Workers, WorkerDies(w) PROVE Collab' /\ WorkflowTypes'
  <2>1. /\ Abort(w) /\ TroubleHappens /\ outside' = outside
        /\ AttemptFails \/ UNCHANGED <<pc, step>>
    BY <1>19 DEF WorkerDies
  <2> QED
    BY <1>5, <1>7, <1>8, <1>9, <2>1 DEF WorkflowTypes
<1>20. CASE Finalize
  <2>1. UNCHANGED collab /\ pc' = "reported" /\ UNCHANGED <<step, outside, trouble>>
    BY <1>20 DEF Finalize
  <2> QED
    BY <1>1, <1>11, <2>1 DEF WorkflowTypes
<1>21. CASE ActivityFails
  <2>1. /\ UNCHANGED collab /\ pc' = "failed" /\ UNCHANGED <<step, outside>>
        /\ TroubleHappens
    BY <1>21 DEF ActivityFails
  <2> QED
    BY <1>1, <1>7, <1>11, <2>1 DEF WorkflowTypes
<1>22. ASSUME NEW o \in Outsiders, Contribute(o) PROVE Collab' /\ WorkflowTypes'
  <2>1. /\ outside < MaxOutside /\ outside' = outside + 1
        /\ UNCHANGED <<pc, step, trouble>>
    BY <1>22 DEF Contribute
  <2>2. PICK agent \in Agents, agrees \in Answers : Enter(o, agent, agrees, Phase)
    BY <1>22 DEF Contribute, Answers
  <2>3. Collab'
    BY <1>2, <1>8, <1>10, <2>2
  <2>4. outside' \in 0 .. MaxOutside
    BY <1>6, <2>1, CoalitionAssumption
  <2>5. WorkflowTypes'
    BY <2>1, <2>4 DEF WorkflowTypes
  <2> QED
    BY <2>3, <2>5
<1>23. ASSUME NEW o \in Outsiders, OutsiderStep(o) PROVE Collab' /\ WorkflowTypes'
  <2>1. UNCHANGED <<pc, step, outside, trouble>>
    BY <1>23 DEF OutsiderStep
  <2>2. Collab'
    BY <1>3, <1>4, <1>5, <1>8, <1>23 DEF OutsiderStep
  <2>3. WorkflowTypes'
    BY <2>1 DEF WorkflowTypes
  <2> QED
    BY <2>2, <2>3
<1> QED
  BY <1>11, <1>12, <1>13, <1>14, <1>15, <1>16, <1>17, <1>18, <1>19, <1>20, <1>21, <1>22,
     <1>23 DEF Next, WorkflowStep

\* One session changes: the workers still agree.
LEMMA WorkersStillAgree ==
  ASSUME WorkersAgree, NEW s \in Sessions,
         \A t \in Sessions : t # s => serving'[t] = serving[t],
         \/ s \notin Workers
         \/ serving'[s] = Free
         \/ serving'[s].agrees = TRUE
  PROVE  WorkersAgree'
<1> SUFFICES ASSUME NEW w \in Workers, serving'[w] # Free PROVE serving'[w].agrees = TRUE
  BY DEF WorkersAgree
<1>1. w \in Sessions
  BY SessionFacts
<1>2. CASE w = s
  BY <1>2
<1>3. CASE w # s
  BY <1>1, <1>3 DEF WorkersAgree
<1> QED
  BY <1>2, <1>3

\* The step under way fails: the session is no less far.
LEMMA StepFailing ==
  ASSUME CoalitionInv, AttemptFails, pc \in {"record", "failed"}, WorkersAgree',
         ~rewound' => ~rewound /\ ~(row'.index < row.index),
         row' \in SessionRows
  PROVE  ProgressInv'
<1>1. /\ pc' \in {pc, "failed"} /\ step'.runner = None /\ step'.round = step.round
      /\ step \in StepTypes
  BY AttemptFailing DEF CoalitionInv, WorkflowTypes
<1>2. RunnerRuns'
  BY <1>1 DEF RunnerRuns
<1>3. ASSUME ~rewound', pc' = "record" PROVE row'.index > step'.round
  <2>1. row.index > step.round
    BY <1>1, <1>3 DEF CoalitionInv, ProgressInv, StepsFurther
  <2>2. row.index \in Nat /\ row'.index \in Nat /\ step.round \in Nat
    <3>1. row \in SessionRows /\ step.round \in 0 .. LastRound
      BY <1>1 DEF CoalitionInv, CollabTypes, StepTypes
    <3>2. row.index \in 1 .. Len(Phases) /\ row'.index \in 1 .. Len(Phases)
      BY <3>1, PhaseFacts DEF SessionRows
    <3> QED
      BY <3>1, <3>2
  <2>3. ~(row'.index < row.index)
    BY <1>3
  <2> QED
    BY <1>1, <2>1, <2>2, <2>3
<1>4. StepsFurther'
  BY <1>1, <1>3 DEF StepsFurther
<1> QED
  BY <1>2, <1>4 DEF ProgressInv

\* Somebody else's call changes the session: the step under way is as it was.
LEMMA StepUndisturbed ==
  ASSUME CoalitionInv, NEW s \in Sessions, s # step.runner, UNCHANGED <<pc, step>>,
         \A t \in Sessions : t # s => serving'[t] = serving[t],
         WorkersAgree', row' \in SessionRows,
         ~rewound' => ~rewound /\ ~(row'.index < row.index),
         row.status = "completed" => row'.status = "completed"
  PROVE  ProgressInv'
<1>1. /\ step'.runner = step.runner /\ step'.round = step.round /\ pc' = pc
      /\ step \in StepTypes
  BY DEF CoalitionInv, WorkflowTypes
<1>2. step.runner # None => serving'[step.runner] = serving[step.runner]
  <2>1. step.runner # None => step.runner \in Sessions
    BY <1>1, SessionFacts DEF StepTypes
  <2> QED
    BY <2>1
<1>3. RunnerRuns'
  BY <1>1, <1>2 DEF CoalitionInv, ProgressInv, RunnerRuns
<1>4. ASSUME ~rewound', pc \in {"prepare", "cli", "record"} PROVE row'.index > step.round
  <2>1. row.index > step.round
    BY <1>4 DEF CoalitionInv, ProgressInv, StepsFurther
  <2>2. row.index \in Nat /\ row'.index \in Nat /\ step.round \in Nat
    <3>1. row \in SessionRows /\ step.round \in 0 .. LastRound
      BY <1>1 DEF CoalitionInv, CollabTypes, StepTypes
    <3>2. row.index \in 1 .. Len(Phases) /\ row'.index \in 1 .. Len(Phases)
      BY <3>1, PhaseFacts DEF SessionRows
    <3> QED
      BY <3>1, <3>2
  <2>3. ~(row'.index < row.index)
    BY <1>4
  <2> QED
    BY <2>1, <2>2, <2>3
<1>5. StepsFurther'
  BY <1>1, <1>2, <1>4 DEF CoalitionInv, ProgressInv, StepsFurther
<1> QED
  BY <1>3, <1>5 DEF ProgressInv

\* The runner's second commit: what it had read was at least at its step.
LEMMA RunnerAdvances ==
  ASSUME CoalitionInv, NEW w \in Workers, step.runner = w, Advance(w), AfterStep(w),
         WorkersAgree'
  PROVE  ProgressInv'
<1> DEFINE view == serving[w].row
           told == Moved(view, serving[w].agrees).status
<1>1. /\ serving[w].pc = "advance" /\ view \in SessionRows
      /\ ~rewound' => ~rewound /\ ~(row'.index < row.index)
      /\ row.status = "completed" => row'.status = "completed"
      /\ view.index < Len(Phases) =>
           /\ row'.index = view.index + 1
           /\ row'.rounds = row.rounds /\ row'.status = row.status
      /\ view.index = Len(Phases) =>
           /\ row'.rounds = view.rounds + 1
           /\ \/ /\ serving[w].agrees # TRUE
                 /\ row'.index = Restart \/ (Restart = Len(Phases) /\ row'.index = row.index)
                 /\ row'.status = row.status
              \/ row'.index = row.index /\ row'.status = "completed"
  BY Advanced, SessionFacts DEF CoalitionInv
<1>2. /\ step \in StepTypes /\ step.round \in 0 .. LastRound
      /\ step'.runner = None
      /\ \/ pc' = "finalize" /\ (told = "completed" \/ step.round = LastRound)
         \/ /\ pc' = "prepare" /\ told # "completed"
            /\ step.round < LastRound /\ step'.round = step.round + 1
  BY StepRecorded DEF CoalitionInv, WorkflowTypes, StepTypes
<1>3. serving[w].agrees = TRUE
  BY <1>1 DEF CoalitionInv, ProgressInv, WorkersAgree, Free
<1>4. w # None /\ (~rewound => view.index > step.round)
  BY <1>1, SessionFacts DEF CoalitionInv, ProgressInv, StepsFurther
<1>4a. w \in Sessions
  BY SessionFacts
<1>5. view.index = Len(Phases) => row'.status = "completed" /\ told = "completed"
  <2>1. serving[w].agrees \in Answers
    BY <1>1, <1>4a, CallFacts DEF CoalitionInv
  <2>2. view.index = Len(Phases) => told = "completed"
    BY <1>1, <1>3, <2>1, MovedFacts
  <2> QED
    BY <1>1, <1>3, <2>2
<1>5a. told = "completed" => row'.status = "completed"
  <2>1. serving[w].agrees \in Answers
    BY <1>1, <1>4a, CallFacts DEF CoalitionInv
  <2>2. view.index < Len(Phases) => told = view.status
    BY <1>1, <2>1, MovedFacts
  <2>3. view.status = "completed" => row.status = "completed"
    BY <1>1, SessionFacts DEF CoalitionInv, CompletedInv
  <2>4. view.index < Len(Phases) \/ view.index = Len(Phases)
    <3>1. view.index \in 1 .. Len(Phases) /\ Len(Phases) \in Nat
      BY <1>1, PhaseFacts DEF SessionRows
    <3> QED
      BY <3>1
  <2> QED
    BY <1>1, <1>5, <2>2, <2>3, <2>4
<1> HIDE DEF told
<1>6. view.index \in 1 .. Len(Phases) /\ Len(Phases) \in Nat /\ LastRound + 1 = Len(Phases)
      /\ LastRound \in Nat
  BY <1>1, PhaseFacts DEF SessionRows
<1>7. RunnerRuns'
  BY <1>2 DEF RunnerRuns
<1>8. ASSUME ~rewound' PROVE pc' = "finalize" => row'.status = "completed"
  <2> SUFFICES ASSUME step.round = LastRound PROVE row'.status = "completed"
    BY <1>2, <1>5a
  <2>1. view.index > step.round
    BY <1>1, <1>4, <1>8
  <2> HIDE DEF view
  <2>2. view.index = Len(Phases)
    BY <1>6, <2>1
  <2> QED
    BY <1>5, <2>2
<1>9. ASSUME ~rewound' PROVE pc' = "prepare" => row'.index > step'.round
  <2> SUFFICES ASSUME pc' = "prepare" PROVE row'.index > step'.round
    OBVIOUS
  <2>1. view.index > step.round /\ step'.round = step.round + 1
    BY <1>1, <1>2, <1>4, <1>9
  <2>2. view.index # Len(Phases)
    BY <1>2, <1>5
  <2> HIDE DEF view
  <2>3. view.index < Len(Phases)
    BY <1>6, <2>2
  <2>4. row'.index = view.index + 1
    BY <1>1, <2>3 DEF view
  <2> QED
    BY <1>2, <1>6, <2>1, <2>4
<1>10. StepsFurther'
  BY <1>2, <1>8, <1>9 DEF StepsFurther
<1> QED
  BY <1>7, <1>10 DEF ProgressInv

\* Each action leaves the workflow no further than the session.
LEMMA ProgressStep ==
  ASSUME CoalitionInv, [Next]_vars
  PROVE  ProgressInv'
<1>1. CollabTypes /\ WorkflowTypes /\ WorkersAgree /\ RunnerRuns /\ StepsFurther /\ CompletedInv
  BY DEF CoalitionInv, ProgressInv
<1>2. /\ CollabTypes' /\ row' \in SessionRows
      /\ Workers \subseteq Sessions /\ Outsiders \subseteq Sessions /\ TRUE \in Answers
      /\ \A o \in Outsiders : o \notin Workers /\ o # step.runner
  <2>1. step.runner \in Workers \cup {None}
    BY <1>1 DEF WorkflowTypes, StepTypes
  <2> QED
    BY <2>1, CoalitionTypesStep, SessionFacts DEF CollabTypes, Answers
<1>3. step.runner # None => pc = "record"
  BY <1>1 DEF RunnerRuns
<1>4. UNCHANGED collab => /\ row' = row /\ serving' = serving /\ rewound' = rewound
                          /\ WorkersAgree' /\ (rewound' \/ ~(row'.index < row.index))
  <2> SUFFICES ASSUME UNCHANGED collab
               PROVE  /\ row' = row /\ serving' = serving /\ rewound' = rewound
                      /\ WorkersAgree' /\ ~(row'.index < row.index)
    OBVIOUS
  <2>1. row' = row /\ serving' = serving /\ rewound' = rewound
    BY DEF collab
  <2>2. WorkersAgree'
    BY <1>1, <2>1 DEF WorkersAgree
  <2>3. row.index \in 1 .. Len(Phases)
    BY <1>1, PhaseFacts DEF CollabTypes, SessionRows
  <2>4. ~(row.index < row.index)
    BY <2>3
  <2> QED
    BY <2>1, <2>2, <2>4
<1>5. CASE UNCHANGED vars
  <2>1. UNCHANGED collab /\ pc' = pc /\ step' = step
    BY <1>5 DEF vars
  <2>2. RunnerRuns' /\ StepsFurther'
    BY <1>1, <1>4, <2>1 DEF RunnerRuns, StepsFurther
  <2> QED
    BY <1>4, <2>1, <2>2 DEF ProgressInv
<1>6. CASE Prepare
  <2>1. /\ UNCHANGED collab /\ pc = "prepare" /\ pc' = "cli"
        /\ step' = [step EXCEPT !.phase = Phase, !.agent = AgentFor(Phase)]
    BY <1>6 DEF Prepare
  <2>2. step'.runner = None /\ step'.round = step.round
    BY <1>1, <1>3, <2>1 DEF WorkflowTypes, StepTypes
  <2>3. RunnerRuns' /\ StepsFurther'
    BY <1>1, <1>4, <2>1, <2>2 DEF RunnerRuns, StepsFurther
  <2> QED
    BY <1>4, <2>1, <2>3 DEF ProgressInv
<1>7. CASE Generate
  <2>1. /\ UNCHANGED collab /\ pc = "cli" /\ pc' = "record"
        /\ step' = [step EXCEPT !.attempt = 1]
    BY <1>7 DEF Generate
  <2>2. step'.runner = None /\ step'.round = step.round
    BY <1>1, <1>3, <2>1 DEF WorkflowTypes, StepTypes
  <2>3. RunnerRuns' /\ StepsFurther'
    BY <1>1, <1>4, <2>1, <2>2 DEF RunnerRuns, StepsFurther
  <2> QED
    BY <1>4, <2>1, <2>3 DEF ProgressInv
<1>8. ASSUME NEW w \in Workers, StartAttempt(w) PROVE ProgressInv'
  <2>1. pc = "record" /\ step.runner = None /\ step.phase \in ToSet(Phases) /\ step.agent \in Agents
    BY <1>1, <1>8 DEF StartAttempt, WorkflowTypes
  <2>2. CASE Enter(w, step.agent, TRUE, step.phase) /\ pc' = pc
             /\ step' = [step EXCEPT !.runner = w]
    <3>1. /\ serving'[w].pc = "post" /\ serving'[w] # Free /\ serving'[w].agrees = TRUE
          /\ \A t \in Sessions : t # w => serving'[t] = serving[t]
          /\ UNCHANGED <<row, board, overtaken, rewound>>
      BY <1>1, <1>2, <2>1, <2>2, Entering
    <3>2. WorkersAgree'
      BY <1>1, <1>2, <3>1, WorkersStillAgree
    <3>3. step'.runner = w /\ step'.round = step.round
      BY <1>1, <2>2 DEF WorkflowTypes, StepTypes
    <3>4. RunnerRuns'
      BY <2>1, <2>2, <3>1, <3>3 DEF RunnerRuns
    <3>5. StepsFurther'
      BY <1>1, <2>1, <2>2, <3>1, <3>3 DEF StepsFurther
    <3> QED
      BY <3>2, <3>4, <3>5 DEF ProgressInv
  <2>3. CASE AttemptFails /\ UNCHANGED collab
    BY <1>2, <1>4, <2>1, <2>3, StepFailing
  <2> QED
    BY <1>8, <2>2, <2>3 DEF StartAttempt
<1>9. ASSUME NEW w \in Workers, Post(w), UNCHANGED <<pc, step>> PROVE ProgressInv'
  <2>1. /\ serving[w].pc = "post" /\ serving'[w].pc = "advance" /\ serving'[w] # Free
        /\ serving'[w].row = row /\ serving'[w].agrees = serving[w].agrees
        /\ \A t \in Sessions : t # w => serving'[t] = serving[t]
        /\ row' = row /\ rewound' = rewound
    BY <1>1, <1>2, <1>9, Posted
  <2>2. serving[w] # Free
    BY <2>1 DEF Free
  <2>3. WorkersAgree'
    <3>1. serving'[w].agrees = TRUE
      BY <1>1, <2>1, <2>2 DEF WorkersAgree
    <3> QED
      BY <1>1, <1>2, <2>1, <3>1, WorkersStillAgree
  <2>4. step.runner # None => /\ step.runner \in Sessions
                              /\ step.runner # w => serving'[step.runner] = serving[step.runner]
    BY <1>1, <1>2, <2>1 DEF WorkflowTypes, StepTypes
  <2>5. RunnerRuns'
    BY <1>1, <1>9, <2>1, <2>4 DEF RunnerRuns
  <2>6. StepsFurther'
    BY <1>1, <1>3, <1>9, <2>1, <2>4 DEF StepsFurther
  <2> QED
    BY <2>3, <2>5, <2>6 DEF ProgressInv
<1>10. ASSUME NEW s \in Sessions, Advance(s)
       PROVE  /\ ~rewound' => ~rewound /\ ~(row'.index < row.index)
              /\ row.status = "completed" => row'.status = "completed"
              /\ \A t \in Sessions : t # s => serving'[t] = serving[t]
              /\ WorkersAgree'
  <2>1. /\ ~rewound' => ~rewound /\ ~(row'.index < row.index)
        /\ row.status = "completed" => row'.status = "completed"
        /\ \A t \in Sessions : t # s => serving'[t] = serving[t]
        /\ serving'[s] = Free
    BY <1>1, <1>10, Advanced
  <2>2. WorkersAgree'
    BY <1>1, <2>1, WorkersStillAgree
  <2> QED
    BY <2>1, <2>2
<1>11. ASSUME NEW w \in Workers, Work(w) PROVE ProgressInv'
  <2>1. CASE Post(w) /\ UNCHANGED <<pc, step>>
    BY <1>9, <2>1
  <2>2. CASE Advance(w) /\ step.runner = w /\ AfterStep(w)
    BY <1>2, <1>10, <2>2, RunnerAdvances
  <2>3. CASE Advance(w) /\ step.runner # w /\ UNCHANGED <<pc, step>>
    BY <1>2, <1>10, <2>3, StepUndisturbed
  <2> QED
    BY <1>11, <2>1, <2>2, <2>3 DEF Work
<1>12. ASSUME NEW w \in Workers, ResultLost(w) PROVE ProgressInv'
  <2>1. step.runner = w /\ Advance(w) /\ AttemptFails
    BY <1>12 DEF ResultLost
  <2>2. pc = "record"
    BY <1>3, <2>1, SessionFacts
  <2> QED
    BY <1>2, <1>10, <2>1, <2>2, StepFailing
<1>13. CASE AttemptTimesOut
  <2>1. UNCHANGED collab /\ AttemptFails /\ pc = "record"
    BY <1>3, <1>13 DEF AttemptTimesOut
  <2> QED
    BY <1>2, <1>4, <2>1, StepFailing
<1>14. ASSUME NEW s \in Sessions, Abort(s)
       PROVE  /\ ~rewound' => ~rewound /\ ~(row'.index < row.index)
              /\ row.status = "completed" => row'.status = "completed"
              /\ \A t \in Sessions : t # s => serving'[t] = serving[t]
              /\ WorkersAgree'
  <2>1. /\ serving'[s] = Free
        /\ \A t \in Sessions : t # s => serving'[t] = serving[t]
        /\ UNCHANGED <<row, board, overtaken, rewound>>
    BY <1>1, <1>14, Aborted
  <2>2. WorkersAgree'
    BY <1>1, <2>1, WorkersStillAgree
  <2>3. row.index \in 1 .. Len(Phases)
    BY <1>1, PhaseFacts DEF CollabTypes, SessionRows
  <2>4. ~(row.index < row.index)
    BY <2>3
  <2> QED
    BY <2>1, <2>2, <2>4
<1>15. ASSUME NEW w \in Workers, WorkerDies(w) PROVE ProgressInv'
  <2>1. CASE Abort(w) /\ step.runner = w /\ AttemptFails
    <3>1. pc = "record"
      BY <1>3, <2>1, SessionFacts
    <3> QED
      BY <1>2, <1>14, <2>1, <3>1, StepFailing
  <2>2. CASE Abort(w) /\ step.runner # w /\ UNCHANGED <<pc, step>>
    BY <1>2, <1>14, <2>2, StepUndisturbed
  <2> QED
    BY <1>15, <2>1, <2>2 DEF WorkerDies
<1>16. CASE Finalize
  <2>1. UNCHANGED collab /\ pc = "finalize" /\ pc' = "reported" /\ step' = step
    BY <1>16 DEF Finalize
  <2>2. RunnerRuns' /\ StepsFurther'
    BY <1>1, <1>3, <1>4, <2>1 DEF RunnerRuns, StepsFurther
  <2> QED
    BY <1>4, <2>1, <2>2 DEF ProgressInv
<1>17. CASE ActivityFails
  <2>1. UNCHANGED collab /\ pc # "record" /\ pc' = "failed" /\ step' = step
    BY <1>17 DEF ActivityFails
  <2>2. RunnerRuns' /\ StepsFurther'
    BY <1>1, <1>3, <1>4, <2>1 DEF RunnerRuns, StepsFurther
  <2> QED
    BY <1>4, <2>1, <2>2 DEF ProgressInv
<1>18. ASSUME NEW o \in Outsiders, Contribute(o) PROVE ProgressInv'
  <2>1. UNCHANGED <<pc, step>>
    BY <1>18 DEF Contribute
  <2>2. PICK agent \in Agents, agrees \in Answers : Enter(o, agent, agrees, Phase)
    BY <1>18 DEF Contribute, Answers
  <2>3. row.index \in DOMAIN Phases /\ Phase \in ToSet(Phases)
    BY <1>1, PhaseFacts DEF CollabTypes, SessionRows, Phase
  <2>4. /\ \A t \in Sessions : t # o => serving'[t] = serving[t]
        /\ UNCHANGED <<row, board, overtaken, rewound>>
    BY <1>1, <1>2, <2>2, <2>3, Entering
  <2>5. WorkersAgree'
    BY <1>1, <1>2, <2>4, WorkersStillAgree
  <2>6. ~(row'.index < row.index)
    <3>1. row.index \in 1 .. Len(Phases)
      BY <2>3, PhaseFacts
    <3>2. ~(row.index < row.index)
      BY <3>1
    <3> QED
      BY <2>4, <3>2
  <2> QED
    BY <1>2, <2>1, <2>4, <2>5, <2>6, StepUndisturbed
<1>19. ASSUME NEW o \in Outsiders, OutsiderStep(o) PROVE ProgressInv'
  <2>1. UNCHANGED <<pc, step>> /\ o \in Sessions /\ o # step.runner
    BY <1>2, <1>19 DEF OutsiderStep
  <2>2. CASE Post(o)
    <3>1. /\ \A t \in Sessions : t # o => serving'[t] = serving[t]
          /\ row' = row /\ rewound' = rewound
      BY <1>1, <2>1, <2>2, Posted
    <3>2. WorkersAgree'
      BY <1>1, <1>2, <2>1, <3>1, WorkersStillAgree
    <3>3. row.index \in 1 .. Len(Phases)
      BY <1>1, PhaseFacts DEF CollabTypes, SessionRows
    <3>4. ~(row.index < row.index)
      BY <3>3
    <3> QED
      BY <1>2, <2>1, <3>1, <3>2, <3>4, StepUndisturbed
  <2>3. CASE Advance(o)
    BY <1>2, <1>10, <2>1, <2>3, StepUndisturbed
  <2>4. CASE Abort(o)
    BY <1>2, <1>14, <2>1, <2>4, StepUndisturbed
  <2> QED
    BY <1>19, <2>2, <2>3, <2>4 DEF OutsiderStep
<1> QED
  BY <1>5, <1>6, <1>7, <1>8, <1>11, <1>12, <1>13, <1>15, <1>16, <1>17, <1>18, <1>19
     DEF Next, WorkflowStep

-----------------------------------------------------------------------------
(* Coalitions: what is written for a phase is recorded in it               *)

LEMMA StillAtFirst ==
  ASSUME AllAtFirst, NEW s \in Sessions,
         \A t \in Sessions : t # s => serving'[t] = serving[t],
         serving'[s].pc = "post" => serving'[s].index = 1,
         serving'[s].pc = "advance" => serving'[s].row.index = 1
  PROVE  AllAtFirst'
<1> SUFFICES ASSUME NEW t \in Sessions
             PROVE  /\ serving'[t].pc = "post" => serving'[t].index = 1
                    /\ serving'[t].pc = "advance" => serving'[t].row.index = 1
  BY DEF AllAtFirst
<1>1. CASE t = s
  BY <1>1
<1>2. CASE t # s
  BY <1>2 DEF AllAtFirst
<1> QED
  BY <1>1, <1>2

\* Nothing has happened to the session.
LEMMA TrackKept ==
  ASSUME SessionOnTrack, UNCHANGED collab
  PROVE  /\ SessionOnTrack'
         /\ \A p \in DOMAIN Phases :
              StepAt(p) /\ step'.phase = step.phase /\ step'.agent = step.agent => StepAt(p)'
<1>1. row' = row /\ board' = board /\ serving' = serving
  BY DEF collab
<1>2. AllAtFirst => AllAtFirst'
  BY <1>1 DEF AllAtFirst
<1>3. SessionOnTrack'
  BY <1>1, <1>2 DEF SessionOnTrack
<1>4. \A p \in DOMAIN Phases :
        StepAt(p) /\ step'.phase = step.phase /\ step'.agent = step.agent => StepAt(p)'
  BY <1>1, <1>2 DEF StepAt
<1> QED
  BY <1>3, <1>4

\* The agent of the step is accepted only where the step belongs.
LEMMA EntersItsPhase ==
  ASSUME CollabTypes, OwnPhases, SessionOnTrack, NEW w \in Workers,
         NEW p \in DOMAIN Phases, StepAt(p), step.agent \in Agents, step.phase \in ToSet(Phases),
         Enter(w, step.agent, TRUE, step.phase),
         step'.phase = step.phase, step'.agent = step.agent
  PROVE  SessionOnTrack' /\ StepAt(p)'
<1>1. w \in Sessions /\ w \notin Outsiders /\ TRUE \in Answers
  BY SessionFacts DEF Answers
<1>2. /\ Accepted(step.agent, TRUE)
      /\ serving'[w].pc = "post"
      /\ serving'[w].index = row.index /\ serving'[w].about = step.phase
      /\ \A t \in Sessions : t # w => serving'[t] = serving[t]
      /\ row' = row /\ board' = board
  BY <1>1, Entering
<1>3. row.index = p
  <2>1. row.index \in DOMAIN Phases
    BY DEF CollabTypes, SessionRows
  <2>2. RoleOf(AgentFor(Phases[p])) \in ToSet(Required[Phases[row.index]])
    BY <1>2 DEF Accepted, Phase, StepAt
  <2>3. row.index \in {p, 1} \/ (p = 1 /\ row.index > 2)
    BY <2>1, <2>2 DEF OwnPhases
  <2>4. /\ p > 1 => row.index > 1
        /\ p = 1 => row.index <= 2
    BY DEF StepAt
  <2>5. p \in Nat /\ p >= 1 /\ row.index \in Nat /\ row.index >= 1
    <3>1. p \in 1 .. Len(Phases) /\ row.index \in 1 .. Len(Phases)
      BY <2>1, PhaseFacts
    <3> QED
      BY <3>1
  <2> QED
    BY <2>3, <2>4, <2>5
<1>4. row.index = 1 => AllAtFirst'
  <2> SUFFICES ASSUME row.index = 1 PROVE AllAtFirst'
    OBVIOUS
  <2>1. AllAtFirst
    BY DEF SessionOnTrack
  <2>2. /\ serving'[w].pc = "post" => serving'[w].index = 1
        /\ serving'[w].pc = "advance" => serving'[w].row.index = 1
    BY <1>2
  <2> QED
    BY <1>1, <1>2, <2>1, <2>2, StillAtFirst
<1>5. SessionOnTrack'
  <2>1. \A v \in DOMAIN board' : board'[v].about = board'[v].phase
    BY <1>2 DEF SessionOnTrack
  <2>2. ASSUME NEW s \in Sessions, serving'[s].pc = "post"
        PROVE  serving'[s].about = Phases[serving'[s].index]
    <3>1. CASE s = w
      BY <1>2, <1>3, <3>1 DEF StepAt
    <3>2. CASE s # w
      BY <1>2, <2>2, <3>2 DEF SessionOnTrack
    <3> QED
      BY <3>1, <3>2
  <2>3. \A o \in Outsiders : serving'[o] = Free
    BY <1>1, <1>2, SessionFacts DEF SessionOnTrack
  <2> QED
    BY <1>2, <1>4, <2>1, <2>2, <2>3 DEF SessionOnTrack
<1>6. StepAt(p)'
  BY <1>2, <1>3, <1>4 DEF StepAt
<1> QED
  BY <1>5, <1>6

\* The entry is for the phase that was checked.
LEMMA PostsInItsPhase ==
  ASSUME CollabTypes, SessionOnTrack, NEW w \in Workers, Post(w), ~overtaken'
  PROVE  /\ SessionOnTrack'
         /\ \A p \in DOMAIN Phases :
              StepAt(p) /\ step'.phase = step.phase /\ step'.agent = step.agent => StepAt(p)'
<1>1. w \in Sessions /\ w \notin Outsiders
  BY SessionFacts
<1>2. /\ serving[w].pc = "post" /\ serving'[w].pc = "advance"
      /\ serving'[w].row = row
      /\ \A t \in Sessions : t # w => serving'[t] = serving[t]
      /\ row.index = serving[w].index
      /\ row' = row
  BY <1>1, Posted
<1>3. PICK e \in Entries :
        /\ e.phase = Phases[serving[w].index] /\ e.about = serving[w].about
        /\ board' = Append(board, e)
  BY <1>1, Posted
<1>4. AllAtFirst => AllAtFirst'
  <2> SUFFICES ASSUME AllAtFirst PROVE AllAtFirst'
    OBVIOUS
  <2>1. serving'[w].row.index = 1 /\ serving'[w].pc # "post"
    BY <1>1, <1>2 DEF AllAtFirst
  <2> QED
    BY <1>1, <1>2, <2>1, StillAtFirst
<1>5. SessionOnTrack'
  <2>1. \A v \in DOMAIN board' : board'[v].about = board'[v].phase
    <3>1. e.about = e.phase
      BY <1>1, <1>2, <1>3 DEF SessionOnTrack
    <3>2. \A v \in DOMAIN board' : board'[v] = e \/ (v \in DOMAIN board /\ board'[v] = board[v])
      BY <1>3 DEF CollabTypes
    <3> QED
      BY <3>1, <3>2 DEF SessionOnTrack
  <2>2. ASSUME NEW s \in Sessions, serving'[s].pc = "post"
        PROVE  serving'[s].about = Phases[serving'[s].index]
    BY <1>2, <2>2 DEF SessionOnTrack
  <2>3. \A o \in Outsiders : serving'[o] = Free
    BY <1>1, <1>2, SessionFacts DEF SessionOnTrack
  <2> QED
    BY <1>2, <1>4, <2>1, <2>2, <2>3 DEF SessionOnTrack
<1>6. \A p \in DOMAIN Phases :
        StepAt(p) /\ step'.phase = step.phase /\ step'.agent = step.agent => StepAt(p)'
  BY <1>2, <1>4 DEF StepAt
<1> QED
  BY <1>5, <1>6

\* The workers agree: the session never returns to its first phase.
LEMMA AdvancesOnTrack ==
  ASSUME CollabTypes, CompletedInv, WorkersAgree, SessionOnTrack, NEW w \in Workers,
         Advance(w), ~overtaken'
  PROVE  /\ SessionOnTrack'
         /\ \A p \in DOMAIN Phases :
              StepAt(p) /\ step'.phase = step.phase /\ step'.agent = step.agent => StepAt(p)'
<1> DEFINE view == serving[w].row
<1>1. w \in Sessions /\ w \notin Outsiders
  BY SessionFacts
<1>2. /\ serving[w].pc = "advance" /\ serving'[w] = Free /\ view \in SessionRows
      /\ \A t \in Sessions : t # w => serving'[t] = serving[t]
      /\ board' = board
      /\ view.index < Len(Phases) => row'.index = view.index + 1
      /\ view.index = Len(Phases) => serving[w].agrees # TRUE \/ row'.index = row.index
  BY <1>1, Advanced
<1>3. serving[w].agrees = TRUE
  BY <1>2 DEF WorkersAgree, Free
<1>4. view.index \in 1 .. Len(Phases) /\ row.index \in 1 .. Len(Phases) /\ Len(Phases) \in Nat
  BY <1>2, PhaseFacts DEF CollabTypes, SessionRows
<1>5. view.index < Len(Phases) \/ view.index = Len(Phases)
  BY <1>4
<1>6. row'.index = view.index + 1 \/ row'.index = row.index
  BY <1>2, <1>3, <1>5
<1>7. AllAtFirst => AllAtFirst' /\ view.index = 1
  <2> SUFFICES ASSUME AllAtFirst PROVE AllAtFirst' /\ view.index = 1
    OBVIOUS
  <2>1. serving'[w].pc # "post" /\ serving'[w].pc # "advance"
    BY <1>2 DEF Free
  <2>2. view.index = 1
    BY <1>1, <1>2 DEF AllAtFirst
  <2> QED
    BY <1>1, <1>2, <2>1, <2>2, StillAtFirst
<1>8. row'.index = 1 => row.index = 1
  BY <1>4, <1>6
<1>9. row.index > 1 => row'.index > 1
  BY <1>4, <1>6
<1>10. view.index = 1 /\ row.index <= 2 => row'.index <= 2
  BY <1>4, <1>6
<1>11. SessionOnTrack'
  <2>1. \A v \in DOMAIN board' : board'[v].about = board'[v].phase
    BY <1>2 DEF SessionOnTrack
  <2>2. ASSUME NEW s \in Sessions, serving'[s].pc = "post"
        PROVE  serving'[s].about = Phases[serving'[s].index]
    <3>1. s # w
      BY <1>2, <2>2 DEF Free
    <3> QED
      BY <1>2, <2>2, <3>1 DEF SessionOnTrack
  <2>3. \A o \in Outsiders : serving'[o] = Free
    BY <1>1, <1>2, SessionFacts DEF SessionOnTrack
  <2>4. row'.index = 1 => AllAtFirst'
    BY <1>7, <1>8 DEF SessionOnTrack
  <2> QED
    BY <2>1, <2>2, <2>3, <2>4 DEF SessionOnTrack
<1>12. \A p \in DOMAIN Phases :
         StepAt(p) /\ step'.phase = step.phase /\ step'.agent = step.agent => StepAt(p)'
  BY <1>7, <1>9, <1>10 DEF StepAt
<1> QED
  BY <1>11, <1>12

\* An attempt that dies takes nothing with it.
LEMMA AbortsOnTrack ==
  ASSUME CollabTypes, SessionOnTrack, NEW w \in Workers, Abort(w)
  PROVE  /\ SessionOnTrack'
         /\ \A p \in DOMAIN Phases :
              StepAt(p) /\ step'.phase = step.phase /\ step'.agent = step.agent => StepAt(p)'
<1>1. w \in Sessions /\ w \notin Outsiders
  BY SessionFacts
<1>2. /\ serving'[w] = Free
      /\ \A t \in Sessions : t # w => serving'[t] = serving[t]
      /\ row' = row /\ board' = board
  BY <1>1, Aborted
<1>3. serving'[w].pc # "post" /\ serving'[w].pc # "advance"
  BY <1>2 DEF Free
<1>4. AllAtFirst => AllAtFirst'
  BY <1>1, <1>2, <1>3, StillAtFirst
<1>5. SessionOnTrack'
  <2>1. ASSUME NEW s \in Sessions, serving'[s].pc = "post"
        PROVE  serving'[s].about = Phases[serving'[s].index]
    <3>1. s # w
      BY <1>3, <2>1
    <3> QED
      BY <1>2, <2>1, <3>1 DEF SessionOnTrack
  <2>2. \A o \in Outsiders : serving'[o] = Free
    BY <1>1, <1>2, SessionFacts DEF SessionOnTrack
  <2> QED
    BY <1>2, <1>4, <2>1, <2>2 DEF SessionOnTrack
<1>6. \A p \in DOMAIN Phases :
        StepAt(p) /\ step'.phase = step.phase /\ step'.agent = step.agent => StepAt(p)'
  BY <1>2, <1>4 DEF StepAt
<1> QED
  BY <1>5, <1>6

\* A call that has been overtaken stays so.
LEMMA OvertakenForever ==
  ASSUME CollabTypes, CompletedInv, [Next]_vars
  PROVE  overtaken => overtaken'
<1>1. /\ \A s \in Sessions : Post(s) => (overtaken => overtaken')
      /\ \A s \in Sessions : Advance(s) => (overtaken => overtaken')
  BY Posted, Advanced
<1>2. \A s \in Sessions : Abort(s) => overtaken' = overtaken
  BY DEF Abort
<1>3. \A s \in Sessions : \A agent, agrees, about : Enter(s, agent, agrees, about) => overtaken' = overtaken
  BY DEF Enter
<1> QED
  BY <1>1, <1>2, <1>3, SessionFacts
     DEF Next, WorkflowStep, vars, collab, Prepare, Generate, StartAttempt, Work, ResultLost,
         AttemptTimesOut, WorkerDies, Finalize, ActivityFails, Contribute, OutsiderStep

\* Each action keeps the workflow where its contributions belong.
LEMMA ContributionStep ==
  ASSUME CoalitionInv, [Next]_vars
  PROVE  ContributionInv'
<1>1. /\ CollabTypes /\ CompletedInv /\ WorkersAgree
      /\ step \in StepTypes /\ outside \in Nat /\ Workers \subseteq Sessions
  BY SessionFacts, CoalitionAssumption DEF CoalitionInv, ProgressInv, WorkflowTypes
<1>2. SUFFICES ASSUME OwnPhases, outside' = 0, ~overtaken'
               PROVE  /\ SessionOnTrack'
                      /\ pc' \in {"cli", "record"} => \E p \in DOMAIN Phases : StepAt(p)'
  BY DEF ContributionInv
<1>3. ASSUME outside = 0, ~overtaken
      PROVE  /\ SessionOnTrack
             /\ pc \in {"cli", "record"} => \E p \in DOMAIN Phases : StepAt(p)
  BY <1>2, <1>3 DEF CoalitionInv, ContributionInv
<1> DEFINE Kept == \A p \in DOMAIN Phases :
                     StepAt(p) /\ step'.phase = step.phase /\ step'.agent = step.agent
                       => StepAt(p)'
<1>4. AttemptFails => /\ pc' \in {pc, "failed"}
                      /\ step'.phase = step.phase /\ step'.agent = step.agent
  BY <1>1, AttemptFailing
<1>5. ASSUME NEW w \in Workers, Post(w), outside = 0 PROVE SessionOnTrack' /\ Kept
  <2>1. ~overtaken
    BY <1>1, <1>2, <1>5, Posted
  <2> QED
    BY <1>1, <1>2, <1>3, <1>5, <2>1, PostsInItsPhase
<1>6. ASSUME NEW w \in Workers, Advance(w), outside = 0 PROVE SessionOnTrack' /\ Kept
  <2>1. ~overtaken
    BY <1>1, <1>2, <1>6, Advanced
  <2> QED
    BY <1>1, <1>2, <1>3, <1>6, <2>1, AdvancesOnTrack
<1>7. ASSUME NEW w \in Workers, Abort(w), outside = 0 PROVE SessionOnTrack' /\ Kept
  <2>1. ~overtaken
    BY <1>1, <1>2, <1>7, Aborted
  <2> QED
    BY <1>1, <1>3, <1>7, <2>1, AbortsOnTrack
<1>8. ASSUME UNCHANGED collab, outside = 0 PROVE SessionOnTrack' /\ Kept
  <2>1. ~overtaken
    BY <1>2, <1>8 DEF collab
  <2> QED
    BY <1>3, <1>8, <2>1, TrackKept
<1>9. ASSUME Kept, outside = 0, ~overtaken, pc' \in {pc, "failed"} \/ (pc = "cli" /\ pc' = "record"),
             step'.phase = step.phase, step'.agent = step.agent
      PROVE  pc' \in {"cli", "record"} => \E p \in DOMAIN Phases : StepAt(p)'
  <2> SUFFICES ASSUME pc' \in {"cli", "record"} PROVE \E p \in DOMAIN Phases : StepAt(p)'
    OBVIOUS
  <2>1. pc \in {"cli", "record"}
    BY <1>9
  <2>2. PICK p \in DOMAIN Phases : StepAt(p)
    BY <1>3, <1>9, <2>1
  <2> QED
    BY <1>9, <2>2
<1>10. ~overtaken
  BY <1>2, OvertakenForever DEF CoalitionInv
<1> HIDE DEF Kept
<1>11. CASE UNCHANGED vars
  <2>1. UNCHANGED collab /\ outside = 0 /\ pc' = pc /\ step' = step
    BY <1>2, <1>11 DEF vars
  <2> QED
    BY <1>8, <1>9, <1>10, <2>1
<1>12. CASE Prepare
  <2>1. /\ UNCHANGED collab /\ outside = 0 /\ pc' = "cli"
        /\ step' = [step EXCEPT !.phase = Phase, !.agent = AgentFor(Phase)]
    BY <1>2, <1>12 DEF Prepare
  <2>2. row' = row /\ step'.phase = Phases[row.index] /\ step'.agent = AgentFor(Phases[row.index])
    BY <1>1, <2>1 DEF StepTypes, Phase, collab
  <2>3. SessionOnTrack'
    BY <1>8, <2>1
  <2>4. row.index \in DOMAIN Phases
    BY <1>1 DEF CollabTypes, SessionRows
  <2>5. StepAt(row.index)'
    <3>1. row.index = 1 => AllAtFirst'
      BY <2>2, <2>3 DEF SessionOnTrack
    <3>2. row.index = 1 => row.index <= 2
      OBVIOUS
    <3> QED
      BY <2>2, <3>1, <3>2 DEF StepAt
  <2>6. \E p \in DOMAIN Phases : StepAt(p)'
    <3>1. \E p \in DOMAIN Phases : p = row.index
      BY <2>4
    <3> QED
      BY <2>2, <2>5, <3>1 DEF StepAt
  <2> QED
    BY <2>3, <2>6
<1>13. CASE Generate
  <2>1. /\ UNCHANGED collab /\ outside = 0 /\ pc = "cli" /\ pc' = "record"
        /\ step' = [step EXCEPT !.attempt = 1]
    BY <1>2, <1>13 DEF Generate
  <2>2. step'.phase = step.phase /\ step'.agent = step.agent
    BY <1>1, <2>1 DEF StepTypes
  <2> QED
    BY <1>8, <1>9, <1>10, <2>1, <2>2
<1>14. ASSUME NEW w \in Workers, StartAttempt(w)
       PROVE  SessionOnTrack' /\ \E p \in DOMAIN Phases : pc' = "record" => StepAt(p)'
  <2>1. /\ pc = "record" /\ outside = 0
        /\ step.phase \in ToSet(Phases) /\ step.agent \in Agents
    BY <1>2, <1>14 DEF StartAttempt, CoalitionInv, WorkflowTypes
  <2>2. PICK p \in DOMAIN Phases : StepAt(p)
    BY <1>3, <1>10, <2>1
  <2>3. CASE Enter(w, step.agent, TRUE, step.phase) /\ step' = [step EXCEPT !.runner = w]
    <3>1. step'.phase = step.phase /\ step'.agent = step.agent
      BY <1>1, <2>3 DEF StepTypes
    <3> QED
      BY <1>1, <1>2, <1>3, <1>10, <2>1, <2>2, <2>3, <3>1, EntersItsPhase
  <2>4. CASE AttemptFails /\ UNCHANGED collab
    <3>1. SessionOnTrack' /\ Kept
      BY <1>8, <2>1, <2>4
    <3> QED
      BY <1>4, <2>2, <2>4, <3>1 DEF Kept
  <2> QED
    BY <1>14, <2>3, <2>4 DEF StartAttempt
<1>15. ASSUME NEW w \in Workers, StartAttempt(w)
       PROVE  pc' \in {"record", "failed"}
  BY <1>4, <1>15 DEF StartAttempt
<1>16. ASSUME NEW w \in Workers, Work(w)
       PROVE  /\ SessionOnTrack'
              /\ pc' \in {"cli", "record"} => \E p \in DOMAIN Phases : StepAt(p)'
  <2>1. outside = 0
    BY <1>2, <1>16 DEF Work
  <2>2. SessionOnTrack' /\ Kept
    BY <1>5, <1>6, <1>16, <2>1 DEF Work
  <2>3. UNCHANGED <<pc, step>> \/ AfterStep(w)
    BY <1>16 DEF Work
  <2>4. CASE UNCHANGED <<pc, step>>
    BY <1>9, <1>10, <2>1, <2>2, <2>4
  <2>5. CASE AfterStep(w)
    <3>1. pc' \in {"finalize", "prepare"}
      BY <2>5 DEF AfterStep
    <3> QED
      BY <2>2, <3>1
  <2> QED
    BY <2>3, <2>4, <2>5
<1>17. ASSUME NEW w \in Workers, ResultLost(w)
       PROVE  /\ SessionOnTrack'
              /\ pc' \in {"cli", "record"} => \E p \in DOMAIN Phases : StepAt(p)'
  <2>1. Advance(w) /\ AttemptFails /\ outside = 0
    BY <1>2, <1>17 DEF ResultLost
  <2> QED
    BY <1>4, <1>6, <1>9, <1>10, <2>1
<1>18. CASE AttemptTimesOut
  <2>1. UNCHANGED collab /\ AttemptFails /\ outside = 0
    BY <1>2, <1>18 DEF AttemptTimesOut
  <2> QED
    BY <1>4, <1>8, <1>9, <1>10, <2>1
<1>19. ASSUME NEW w \in Workers, WorkerDies(w)
       PROVE  /\ SessionOnTrack'
              /\ pc' \in {"cli", "record"} => \E p \in DOMAIN Phases : StepAt(p)'
  <2>1. Abort(w) /\ outside = 0 /\ (AttemptFails \/ UNCHANGED <<pc, step>>)
    BY <1>2, <1>19 DEF WorkerDies
  <2> QED
    BY <1>4, <1>7, <1>9, <1>10, <2>1
<1>20. CASE Finalize
  <2>1. UNCHANGED collab /\ outside = 0 /\ pc' = "reported"
    BY <1>2, <1>20 DEF Finalize
  <2> QED
    BY <1>8, <2>1
<1>21. CASE ActivityFails
  <2>1. UNCHANGED collab /\ outside = 0 /\ pc' = "failed"
    BY <1>2, <1>21 DEF ActivityFails
  <2> QED
    BY <1>8, <2>1
<1>22. ASSUME NEW o \in Outsiders, Contribute(o) PROVE FALSE
  <2>1. outside' = outside + 1
    BY <1>22 DEF Contribute
  <2> QED
    BY <1>1, <1>2, <2>1
<1>23. ASSUME NEW o \in Outsiders, OutsiderStep(o) PROVE FALSE
  <2>1. outside = 0
    BY <1>2, <1>23 DEF OutsiderStep
  <2>2. serving[o] = Free
    BY <1>3, <1>10, <2>1 DEF SessionOnTrack
  <2> QED
    BY <1>23, <2>2 DEF OutsiderStep, Post, Advance, Abort, Free
<1> QED
  BY <1>11, <1>12, <1>13, <1>14, <1>15, <1>16, <1>17, <1>18, <1>19, <1>20, <1>21, <1>22,
     <1>23 DEF Next, WorkflowStep

-----------------------------------------------------------------------------
(* Coalitions: the theorems                                                *)

LEMMA CoalitionStarts ==
  ASSUME Init
  PROVE  CoalitionInv
<1>1. /\ row = [status |-> "active", index |-> 1, rounds |-> 0, consensus |-> "no"]
      /\ board = <<>> /\ serving = [s \in Sessions |-> Free]
      /\ overtaken = FALSE /\ rewound = FALSE /\ pc = "prepare"
      /\ step = [round |-> 0, phase |-> None, agent |-> None, attempt |-> 0, runner |-> None]
      /\ outside = 0 /\ trouble = 0
  BY DEF Init, CollabInit
<1>2. row \in SessionRows /\ row.status = "active" /\ row.index = 1 /\ row.rounds = 0
  <2>1. 1 \in DOMAIN Phases
    BY PhaseFacts
  <2> QED
    BY <1>1, <2>1 DEF SessionRows
<1>3. /\ serving \in [Sessions -> {Free} \cup Posting \cup Advancing]
      /\ \A s \in Sessions : serving[s] = Free /\ serving[s].pc # "post" /\ serving[s].pc # "advance"
  BY <1>1 DEF Free
<1>4. step \in StepTypes /\ step.round = 0 /\ step.runner = None
  <2>1. 0 \in 0 .. LastRound
    BY PhaseFacts
  <2> QED
    BY <1>1, <2>1 DEF StepTypes
<1>5. CollabTypes
  <2>1. board \in Seq(Entries)
    BY <1>1
  <2> QED
    BY <1>1, <1>2, <1>3, <2>1 DEF CollabTypes
<1>6. WorkflowTypes
  <2>1. 0 \in 0 .. MaxOutside /\ 0 \in 0 .. MaxTrouble
    BY CoalitionAssumption
  <2> QED
    BY <1>1, <1>4, <2>1 DEF WorkflowTypes
<1>7. CompletedInv
  BY <1>2, <1>3 DEF CompletedInv
<1>8. EntriesInv
  <2>1. \A k \in DOMAIN Phases : ~(k < 1)
    <3>1. \A k \in 1 .. Len(Phases) : ~(k < 1)
      OBVIOUS
    <3> QED
      BY <3>1, PhaseFacts
  <2>2. Passed(board, row.index, row.rounds)
    BY <1>2, <2>1 DEF Passed
  <2>3. ~(row.rounds > 0)
    BY <1>2
  <2> QED
    BY <1>3, <2>2, <2>3 DEF EntriesInv, RowEntered
<1>9. ProgressInv
  <2>1. WorkersAgree /\ RunnerRuns
    BY <1>3, <1>4, SessionFacts DEF WorkersAgree, RunnerRuns
  <2>2. row.index > step.round
    BY <1>2, <1>4
  <2>3. StepsFurther
    BY <1>1, <1>4, <2>2 DEF StepsFurther
  <2> QED
    BY <2>1, <2>3 DEF ProgressInv
<1>10. ContributionInv
  <2>1. AllAtFirst
    BY <1>3 DEF AllAtFirst
  <2>2. DOMAIN board = {}
    BY <1>1
  <2>3. SessionOnTrack
    BY <1>3, <2>1, <2>2, SessionFacts DEF SessionOnTrack
  <2> QED
    BY <1>1, <2>3 DEF ContributionInv
<1> QED
  BY <1>5, <1>6, <1>7, <1>8, <1>9, <1>10 DEF CoalitionInv

\* The invariant of a session under a workflow and its outsiders.
THEOREM CoalitionInvariant == Spec => []CoalitionInv
<1>1. Init => CoalitionInv
  BY CoalitionStarts
<1>2. CoalitionInv /\ [Next]_vars => CoalitionInv'
  BY CoalitionTypesStep, ProgressStep, ContributionStep DEF CoalitionInv
<1> QED
  BY <1>1, <1>2, PTL DEF Spec

\* The session, the calls on it, its blackboard and the workflow have their types.
THEOREM CoalitionTypeCorrect == Spec => []TypeOK
<1>1. CoalitionInv => TypeOK
  <2> SUFFICES ASSUME CoalitionInv PROVE TypeOK
    OBVIOUS
  <2>1. CollabTypes /\ WorkflowTypes
    BY DEF CoalitionInv
  <2>2. \A s \in Sessions : serving[s].pc \in {"free", "post", "advance"}
    BY <2>1, CallFacts DEF Posting, Advancing
  <2>3. step.round \in 0 .. LastRound /\ step.runner \in Workers \cup {None}
    BY <2>1 DEF WorkflowTypes, StepTypes
  <2> QED
    BY <2>1, <2>2, <2>3 DEF CollabTypes, WorkflowTypes, TypeOK, SessionRows, Entries
<1> QED
  BY <1>1, CoalitionInvariant, PTL

\* advance_phase: the current round passes a phase only with an entry for it,
\* whatever calls die between their two commits, as long as none was
\* overtaken by another that moved the session under it.
THEOREM PhasesHaveEntries == Spec => []EveryPhaseHasEntry
<1>1. CoalitionInv => EveryPhaseHasEntry
  <2> SUFFICES ASSUME CoalitionInv, ~overtaken, NEW k \in DOMAIN Phases,
                      \/ k < row.index /\ (k >= Restart \/ row.rounds = 0)
                      \/ row.status = "completed"
               PROVE  \E v \in DOMAIN board :
                        board[v].phase = Phases[k]
                          /\ (row.status = "completed" \/ board[v].round = row.rounds)
    BY DEF EveryPhaseHasEntry
  <2>1. RowEntered
    BY DEF CoalitionInv, EntriesInv
  <2>2. CASE row.status = "completed"
    <3>1. Entered(board, k)
      BY <2>1, <2>2 DEF CoalitionInv, CompletedInv, RowEntered
    <3> QED
      BY <2>2, <3>1 DEF Entered
  <2>3. CASE row.status # "completed"
    <3>1. EnteredIn(board, k, row.rounds)
      BY <2>1, <2>3 DEF RowEntered, Passed
    <3> QED
      BY <3>1 DEF EnteredIn
  <2> QED
    BY <2>2, <2>3
<1> QED
  BY <1>1, CoalitionInvariant, PTL

\* record_collaboration_step: a text is recorded in the phase it was written for.
THEOREM ContributionsInTheirPhase == Spec => []ContributionInItsPhase
<1>1. CoalitionInv => ContributionInItsPhase
  BY DEF CoalitionInv, ContributionInv, SessionOnTrack, ContributionInItsPhase
<1> QED
  BY <1>1, CoalitionInvariant, PTL

\* finalize_collaboration: what the workflow reports is a completed session.
THEOREM ReportsAreOfCompleted == Spec => []ReportMeansCompleted
<1>1. CoalitionInv => ReportMeansCompleted
  BY DEF CoalitionInv, ProgressInv, StepsFurther, ReportMeansCompleted
<1> QED
  BY <1>1, CoalitionInvariant, PTL

\* advance_phase and the UPDATE it ends in: a completed session stays completed,
\* even if a call that had read it before is still to write.
THEOREM CompletedForever == Spec => [][CompletedStays]_vars
<1>1. CoalitionInv /\ [Next]_vars => [CompletedStays]_vars
  <2> SUFFICES ASSUME CoalitionInv, [Next]_vars, row.status = "completed"
               PROVE  row'.status = "completed"
    BY DEF CompletedStays
  <2>1. \A s \in Sessions : Advance(s) => row'.status = "completed"
    BY Advanced DEF CoalitionInv
  <2>2. /\ \A s \in Sessions : Post(s) \/ Abort(s) => row' = row
        /\ \A s \in Sessions : \A agent, agrees, about : Enter(s, agent, agrees, about) => row' = row
    BY DEF Post, Abort, Enter
  <2> QED
    BY <2>1, <2>2, SessionFacts
       DEF Next, WorkflowStep, vars, collab, Prepare, Generate, StartAttempt, Work,
           ResultLost, AttemptTimesOut, WorkerDies, Finalize, ActivityFails, Contribute,
           OutsiderStep
<1> QED
  BY <1>1, CoalitionInvariant, PTL DEF Spec
=============================================================================
