--------------------------- MODULE Collaboration ---------------------------
(***************************************************************************)
(* A collaboration session over a blackboard: agents contribute to the     *)
(* phases of a pattern in turn.  advance_phase is two transactions.  The   *)
(* first checks the session and appends the entry; its commit expires the  *)
(* session, which is read again, and the second moves on from there.       *)
(***************************************************************************)
EXTENDS Naturals, Sequences, SequencesExt

CONSTANTS
  Agents, Roles,
  Phases,     \* PATTERN_PHASES of the session's pattern
  Required,   \* Required[p]: PHASE_REQUIRED_ROLES of phase p
  RoleOrder,  \* the keys of role_assignments, in the order the database keeps
  Assigned,   \* Assigned[r]: the agent in role r
  Restart,    \* where another round starts: at "critique", or at the second phase
  MaxRounds,  \* max_rounds of the session
  Sessions,   \* database sessions that serve advance_phase
  None        \* no role, or agrees_with_previous omitted

ASSUME CollaborationAssumption ==
  /\ Phases \in Seq(ToSet(Phases)) /\ Len(Phases) > 0 /\ IsInjective(Phases)
  /\ Required \in [ToSet(Phases) -> Seq(Roles)]
  /\ \A p \in ToSet(Phases) : Required[p] # <<>>
  /\ RoleOrder \in Seq(Roles) /\ ToSet(RoleOrder) = Roles
  /\ Assigned \in [Roles -> Agents]
  /\ Restart \in DOMAIN Phases /\ MaxRounds \in Nat \ {0}

VARIABLES
  row,        \* the session's row: status, index of current_phase, rounds, consensus
  board,      \* entries of the blackboard, by board_version
  serving,    \* serving[s]: the call that database session s is serving
  overtaken,  \* history: the session had moved on between the check of a call and
              \* its second read, or to another round before its second commit
  rewound     \* history: a call set the session back to an earlier phase

collab == <<row, board, serving, overtaken, rewound>>

Free == [pc |-> "free"]

CollabInit ==
  /\ row = [status |-> "active", index |-> 1, rounds |-> 0, consensus |-> "no"]
  /\ board = <<>>
  /\ serving = [s \in Sessions |-> Free]
  /\ overtaken = FALSE /\ rewound = FALSE

Phase == Phases[row.index]

\* The first role that an agent is assigned to is the only one it is known by.
RoleOf(agent) ==
  LET held == SelectSeq(RoleOrder, LAMBDA r : Assigned[r] = agent)
  IN  IF held = <<>> THEN None ELSE held[1]

IsTerminal(index) == index = Len(Phases)

\* Mutant of Accepted: anybody may contribute.
Accepted_AnyRole(agent, agrees) ==
  /\ row.status = "active"
  /\ IsTerminal(row.index) => agrees # None

\* The checks of advance_phase, before anything is written.
Accepted(agent, agrees) ==
  /\ row.status = "active"
  /\ IsTerminal(row.index) => agrees # None
  /\ RoleOf(agent) \in ToSet(Required[Phase])

\* The phase of the entry is the one that was checked.
Enter(s, agent, agrees, about) ==
  /\ serving[s] = Free
  /\ Accepted(agent, agrees)
  /\ serving' = [serving EXCEPT ![s] =
       [pc |-> "post", agent |-> agent, agrees |-> agrees, index |-> row.index,
        round |-> row.rounds, about |-> about]]
  /\ UNCHANGED <<row, board, overtaken, rewound>>

\* add_entry commits; the session is then read again.
Post(s) ==
  /\ serving[s].pc = "post"
  /\ LET me == serving[s] IN
       /\ board' = Append(board, [phase |-> Phases[me.index], round |-> me.round,
                                  agent |-> me.agent, about |-> me.about])
       /\ serving' = [serving EXCEPT ![s] =
            [pc |-> "advance", agrees |-> me.agrees, row |-> row]]
       /\ overtaken' = (overtaken \/ row.index # me.index \/ row.rounds # me.round)
  /\ UNCHANGED <<row, rewound>>

\* Mutant of Moved: another round starts after "critique".
Moved_SkipsCritique(r, agrees) ==
  IF ~IsTerminal(r.index) THEN [r EXCEPT !.index = @ + 1]
  ELSE IF agrees # TRUE /\ r.rounds + 1 < MaxRounds
    THEN [r EXCEPT !.rounds = @ + 1, !.index = Restart + 1]
  ELSE [r EXCEPT !.rounds = @ + 1, !.status = "completed",
                 !.consensus = IF agrees = TRUE THEN "yes" ELSE "partial"]

\* What the session becomes after a contribution, from the row r read again.
Moved(r, agrees) ==
  IF ~IsTerminal(r.index) THEN [r EXCEPT !.index = @ + 1]
  ELSE IF agrees # TRUE /\ r.rounds + 1 < MaxRounds
    THEN [r EXCEPT !.rounds = @ + 1, !.index = Restart]
  ELSE [r EXCEPT !.rounds = @ + 1, !.status = "completed",
                 !.consensus = IF agrees = TRUE THEN "yes" ELSE "partial"]

\* An UPDATE writes the columns that differ from what the session read.
Written(now, old, new) == [k \in DOMAIN now |-> IF new[k] = old[k] THEN now[k] ELSE new[k]]

\* The second commit.
Advance(s) ==
  /\ serving[s].pc = "advance"
  /\ row' = Written(row, serving[s].row, Moved(serving[s].row, serving[s].agrees))
  /\ rewound' = (rewound \/ row'.index < row.index)
  /\ overtaken' = (overtaken \/ row.rounds # serving[s].row.rounds)
  /\ serving' = [serving EXCEPT ![s] = Free]
  /\ UNCHANGED board

\* The process dies, or its database connection does.
Abort(s) ==
  /\ serving[s] # Free
  /\ serving' = [serving EXCEPT ![s] = Free]
  /\ UNCHANGED <<row, board, overtaken, rewound>>

-----------------------------------------------------------------------------
(* What must hold of a session, whoever contributes to it                  *)

\* A phase of the current round is passed only with a contribution to it on
\* the blackboard, whatever calls fail between their two commits, as long as
\* none is overtaken by others.
EveryPhaseHasEntry ==
  ~overtaken =>
    \A k \in DOMAIN Phases :
      (\/ k < row.index /\ (k >= Restart \/ row.rounds = 0)
       \/ row.status = "completed")
        => \E v \in DOMAIN board :
             board[v].phase = Phases[k]
               /\ (row.status = "completed" \/ board[v].round = row.rounds)
=============================================================================
