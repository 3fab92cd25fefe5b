---------------------------- MODULE ExternalCalls ----------------------------
(***************************************************************************)
(* external_agent_call: retries, a circuit breaker in Redis shared by all  *)
(* callers, one fallback agent, and the status column that tells the       *)
(* registry which agents are healthy, which other endpoints write too.     *)
(*                                                                         *)
(* A caller is an HTTP request, which commits its session when the call is *)
(* over, or a workflow activity, which does not.  A flushed status holds   *)
(* the row's lock in the database until the session ends.  The breaker is  *)
(* two Redis keys, changed by one command at a time.                       *)
(***************************************************************************)
EXTENDS Naturals, FiniteSets

CONSTANTS
  Callers, Agents, None,
  Endpoints,          \* the callers that commit: POST /test-task
  FallbackOf,         \* metadata_.fallback_agent_id, or None
  Credentialed,       \* agents whose dispatch loads a credential, and commits
  RedisAnswers,       \* {TRUE}, or BOOLEAN when a command may fail
  Rewrites,           \* what other endpoints write: {"online", ...}
  MAX_ATTEMPTS, BREAKER_THRESHOLD,
  MaxCalls            \* bound: calls, and things that go wrong around them

ASSUME ExternalAssumption ==
  /\ None \notin Callers \cup Agents
  /\ Endpoints \subseteq Callers /\ Credentialed \subseteq Agents
  /\ FallbackOf \in [Agents -> Agents \cup {None}]
  /\ RedisAnswers \in {{TRUE}, BOOLEAN}
  /\ Rewrites \subseteq {"online", "offline", "busy", "error", "breaker_open"}
  /\ MAX_ATTEMPTS \in Nat \ {0} /\ BREAKER_THRESHOLD \in Nat \ {0}
  /\ MaxCalls \in Nat

VARIABLES
  fails,     \* Redis: agent:breaker:fails
  breaker,   \* Redis: agent:breaker exists
  status,    \* external_agents.status, committed
  lock,      \* lock[a]: the caller whose transaction wrote the row of a
  call,      \* call[c]: where caller c is
  sess,      \* sess[c][a]: the status as the session of c sees it
  calls,     \* calls made, callers dead, log rows not written, rows rewritten
  rewritten, \* history: the row's status is not what a call committed last
  run,       \* history: failures counted since a success deleted the keys
  lapsed,    \* history: no failure was counted since the breaker lapsed
  raced,     \* history: a success deleted the keys under a pending SET
  lost       \* history: a mark of the agent did not reach the row, or Redis

vars == <<fails, breaker, status, lock, call, sess, calls, rewritten, run, lapsed, raced, lost>>
redis == <<fails, breaker, run, lapsed, raced>>
db    == <<status, lock, sess, rewritten, lost>>

Marks == {"online", "offline", "busy", "error", "breaker_open"}
Idle == [pc |-> "idle", agent |-> None, depth |-> 0, attempt |-> 1, poisoned |-> FALSE,
         result |-> "none", answers |-> 0, log |-> {}, missing |-> 0]

Init ==
  /\ fails = [a \in Agents |-> 0] /\ breaker = [a \in Agents |-> FALSE]
  /\ status = [a \in Agents |-> "online"] /\ rewritten = [a \in Agents |-> FALSE]
  /\ lock = [a \in Agents |-> None]
  /\ call = [c \in Callers |-> Idle]
  /\ sess = [c \in Callers |-> [a \in Agents |-> "unloaded"]]
  /\ calls = 0
  /\ run = [a \in Agents |-> 0]
  /\ lapsed = [a \in Agents |-> FALSE]
  /\ raced = [a \in Agents |-> FALSE] /\ lost = [a \in Agents |-> FALSE]

At(c, pc) == call[c].pc = pc
Agent(c)  == call[c].agent
Go(c, pc) == call' = [call EXCEPT ![c].pc = pc]

-----------------------------------------------------------------------------
(* The session                                                             *)

\* What a transaction has flushed becomes the row when it commits.
Committed(c) == [a \in Agents |-> IF lock[a] = c THEN sess[c][a] ELSE status[a]]
Released(c)  == [a \in Agents |-> IF lock[a] = c THEN None ELSE lock[a]]

\* A query loads the row, unless the session has it already.
Load(c, seen, a) == IF seen[a] = "unloaded" THEN [seen EXCEPT ![a] = status[a]] ELSE seen

\* commit: the objects expire, and those still in use are read again.
Commit(c, used) ==
  /\ status' = Committed(c) /\ lock' = Released(c)
  /\ sess' = [sess EXCEPT ![c] =
       [a \in Agents |-> IF a \in used THEN Committed(c)[a] ELSE "unloaded"]]
  /\ rewritten' = [a \in Agents |-> rewritten[a] /\ lock[a] # c]
  /\ UNCHANGED lost

Rollback(c) ==
  /\ lock' = Released(c)
  /\ sess' = [sess EXCEPT ![c] = [a \in Agents |-> "unloaded"]]
  /\ lost' = [a \in Agents |-> lost[a] \/ lock[a] = c \/ (Agent(c) = a /\ ~At(c, "end"))]
  /\ UNCHANGED <<status, rewritten>>

\* Assign the status and flush: no UPDATE when the session has that value
\* already, else the row must be free or ours.  Then load the agent next.
Mark(c, s, next) ==
  LET a == Agent(c) IN
    /\ IF sess[c][a] = s
         THEN /\ lost' = [lost EXCEPT ![a] = @ \/ (lock[a] # c /\ status[a] # s)
                                               \/ lock[a] \notin {None, c}]
              /\ UNCHANGED lock
         ELSE /\ lock[a] \in {None, c}
              /\ lock' = [lock EXCEPT ![a] = c]
              /\ UNCHANGED lost
    /\ sess' = [sess EXCEPT ![c] = Load(c, [@ EXCEPT ![a] = s], next)]
    /\ UNCHANGED <<status, rewritten>>

-----------------------------------------------------------------------------
(* external_agent_call                                                     *)

Begin(c, a) ==
  /\ At(c, "idle") /\ calls < MaxCalls
  /\ calls' = calls + 1
  /\ call' = [call EXCEPT ![c] = [Idle EXCEPT !.pc = "check", !.agent = a]]
  /\ sess' = [sess EXCEPT ![c][a] = status[a]]
  /\ UNCHANGED <<status, lock, rewritten, lost, redis>>

\* _breaker_is_open: a Redis that does not answer counts as closed.
CheckBreaker(c) ==
  /\ At(c, "check")
  /\ \E up \in RedisAnswers :
       Go(c, IF up /\ breaker[Agent(c)] THEN "mark_open" ELSE "dispatch")
  /\ UNCHANGED <<calls, redis, db>>

\* The next attempt, or the end of them.
NextAttempt(r) ==
  IF r.attempt < MAX_ATTEMPTS THEN [r EXCEPT !.attempt = @ + 1, !.pc = "dispatch"]
                              ELSE [r EXCEPT !.attempt = 1, !.pc = "count"]

\* adapter.dispatch answers, fails, or is refused for good.
Dispatched(r, outcome) ==
  CASE outcome = "ok"   -> [r EXCEPT !.pc = "mark_online", !.answers = @ + 1]
    [] outcome = "fail" -> NextAttempt(r)
    [] outcome = "refused" -> [r EXCEPT !.attempt = 1, !.pc = "count"]

Dispatch(c, outcome) ==
  /\ At(c, "dispatch")
  /\ call' = [call EXCEPT ![c] = Dispatched(@, outcome)]
  /\ IF Agent(c) \in Credentialed THEN Commit(c, {Agent(c)}) ELSE UNCHANGED db
  /\ UNCHANGED <<calls, redis>>

\* _mark_online, inside the try.
MarkOnline(c) ==
  /\ At(c, "mark_online")
  /\ Mark(c, "online", Agent(c))
  /\ Go(c, "delete")
  /\ UNCHANGED <<calls, redis>>

\* _record_call_log: best effort, in a session of its own.
Logged(r, what, kept) ==
  IF kept THEN [r EXCEPT !.log = @ \cup {<<r.depth, r.agent, what>>}]
          ELSE [r EXCEPT !.missing = @ + 1]

LogWritten(kept) ==
  IF kept THEN UNCHANGED calls ELSE calls < MaxCalls /\ calls' = calls + 1

Answered(r, kept) ==
  [Logged(r, "success", kept) EXCEPT !.pc = "end", !.attempt = 1, !.result = "ok"]

\* Another caller has counted its failure and is about to open the breaker.
PendingOpen(c, a) == \E d \in Callers \ {c} : At(d, "open") /\ Agent(d) = a

\* Mutant of DeleteKeys: only the breaker's key is deleted.
DeleteKeys_KeepsCount(c) ==
  /\ At(c, "delete")
  /\ LET a == Agent(c) IN
       /\ breaker' = [breaker EXCEPT ![a] = FALSE]
       /\ run' = [run EXCEPT ![a] = 0]
       /\ raced' = [raced EXCEPT ![a] = @ \/ PendingOpen(c, a)]
  /\ call' = [call EXCEPT ![c] = Answered(@, TRUE)]
  /\ UNCHANGED <<calls, fails, lapsed, db>>

\* _record_success deletes both keys, and the call is logged.
DeleteKeys(c) ==
  /\ At(c, "delete")
  /\ LET a == Agent(c) IN
       \E up \in RedisAnswers :
         IF up THEN /\ fails' = [fails EXCEPT ![a] = 0]
                    /\ breaker' = [breaker EXCEPT ![a] = FALSE]
                    /\ run' = [run EXCEPT ![a] = 0]
                    /\ raced' = [raced EXCEPT ![a] = @ \/ PendingOpen(c, a)]
                    /\ UNCHANGED <<lapsed, lost>>
               ELSE /\ lost' = [lost EXCEPT ![a] = TRUE]
                    /\ UNCHANGED redis
  /\ \E kept \in BOOLEAN : call' = [call EXCEPT ![c] = Answered(@, kept)] /\ LogWritten(kept)
  /\ UNCHANGED <<status, lock, sess, rewritten>>

\* Mutant of CountFailure: the breaker is opened at the threshold only.
CountFailure_Exactly(c) ==
  /\ At(c, "count")
  /\ LET a == Agent(c) IN
       /\ fails' = [fails EXCEPT ![a] = @ + 1]
       /\ run' = [run EXCEPT ![a] = @ + 1]
       /\ lapsed' = [lapsed EXCEPT ![a] = FALSE]
       /\ Go(c, IF fails[a] + 1 = BREAKER_THRESHOLD THEN "open" ELSE "mark_error")
  /\ UNCHANGED <<calls, breaker, raced, db>>

\* _record_failure: INCR (and EXPIRE), then SET NX once the count is reached.
CountFailure(c) ==
  /\ At(c, "count")
  /\ LET a == Agent(c) IN
       \E up \in RedisAnswers :
         IF up THEN /\ fails' = [fails EXCEPT ![a] = @ + 1]
                    /\ run' = [run EXCEPT ![a] = @ + 1]
                    /\ lapsed' = [lapsed EXCEPT ![a] = FALSE]
                    /\ Go(c, IF fails[a] + 1 >= BREAKER_THRESHOLD THEN "open" ELSE "mark_error")
               ELSE Go(c, "mark_error") /\ UNCHANGED <<fails, run, lapsed>>
  /\ UNCHANGED <<calls, breaker, raced, db>>

OpenBreaker(c) ==
  /\ At(c, "open")
  /\ LET a == Agent(c) IN
       \E up \in RedisAnswers :
         /\ breaker' = [breaker EXCEPT ![a] = @ \/ up]
         /\ lapsed' = [lapsed EXCEPT ![a] = @ \/ ~up]
  /\ Go(c, "mark_error")
  /\ UNCHANGED <<calls, fails, run, raced, db>>

\* _resolve_fallback and the recursive call, which depth 2 refuses.
Fallback(r) ==
  LET next == FallbackOf[r.agent] IN
    IF next # None /\ r.depth = 0
      THEN [r EXCEPT !.pc = "check", !.agent = next, !.depth = 1, !.attempt = 1]
      ELSE [r EXCEPT !.pc = "end", !.result = "error"]

FailedAs(c) == IF At(c, "mark_error") THEN "error" ELSE "breaker_open"

\* Mutant of MarkFailed: the fallback is tried before the agent is marked.
MarkFailed_FallbackFirst(c) ==
  /\ At(c, "mark_error") \/ At(c, "mark_open")
  /\ LET r == Fallback(Logged(call[c], FailedAs(c), TRUE)) IN
       /\ call' = [call EXCEPT ![c] = r]
       /\ IF r.pc = "check" THEN UNCHANGED db ELSE Mark(c, FailedAs(c), r.agent)
  /\ UNCHANGED <<calls, redis>>

\* Mutant of MarkFailed: a call that finds the breaker open is not logged.
MarkFailed_OpenUnlogged(c) ==
  /\ At(c, "mark_error") \/ At(c, "mark_open")
  /\ LET r == Fallback(IF At(c, "mark_error") THEN Logged(call[c], "error", TRUE)
                                             ELSE call[c]) IN
       /\ call' = [call EXCEPT ![c] = r]
       /\ Mark(c, FailedAs(c), r.agent)
  /\ UNCHANGED <<calls, redis>>

\* The agent failed, or was not asked: mark it, log it, and load and try its
\* fallback.
MarkFailed(c) ==
  /\ At(c, "mark_error") \/ At(c, "mark_open")
  /\ \E kept \in BOOLEAN :
       LET r == Fallback(Logged(call[c], FailedAs(c), kept)) IN
         /\ call' = [call EXCEPT ![c] = r]
         /\ Mark(c, FailedAs(c), r.agent)
         /\ LogWritten(kept)
  /\ UNCHANGED redis

\* Mutant of End: an activity returns without closing its session.
End_Leaks(c) ==
  /\ At(c, "end")
  /\ IF c \in Endpoints THEN Commit(c, {}) ELSE UNCHANGED db
  /\ call' = [call EXCEPT ![c] = Idle]
  /\ UNCHANGED <<calls, redis>>

\* The endpoint commits after an answer and after an error, which a session
\* that failed refuses; the activity closes its session.
End(c) ==
  /\ At(c, "end")
  /\ IF c \in Endpoints /\ ~call[c].poisoned THEN Commit(c, {}) ELSE Rollback(c)
  /\ call' = [call EXCEPT ![c] = Idle]
  /\ UNCHANGED <<calls, redis>>

-----------------------------------------------------------------------------
(* The environment                                                         *)

Wanted(c) ==
  CASE At(c, "mark_online") -> "online"
    [] At(c, "mark_error")  -> "error"
    [] At(c, "mark_open")   -> "breaker_open"
    [] OTHER -> "none"

\* The caller whose lock c waits for.
Holder(c) ==
  IF Wanted(c) # "none" /\ sess[c][Agent(c)] # Wanted(c) /\ lock[Agent(c)] # c
    THEN lock[Agent(c)] ELSE None

\* Every set of callers that is closed under waiting, and that c waits for,
\* has c in it.
InCycle(c) ==
  /\ Holder(c) # None
  /\ \A S \in SUBSET Callers :
       Holder(c) \in S /\ (\A d \in S : Holder(d) \in S \cup {None}) => c \in S

\* The database breaks a deadlock: the flush of one of them raises.  So does
\* whatever its session is asked next, in the handler of an agent that had
\* answered too: the call ends there, with no row in its log.
DeadlockAborts(c) ==
  /\ InCycle(c)
  /\ call' = [call EXCEPT ![c].poisoned = TRUE, ![c].pc = "end",
                         ![c].result = "error", ![c].missing = @ + 1]
  /\ Rollback(c)
  /\ UNCHANGED <<calls, redis>>

\* The process of the caller dies.
Crash(c) ==
  /\ ~At(c, "idle") /\ calls < MaxCalls
  /\ calls' = calls + 1
  /\ call' = [call EXCEPT ![c] = Idle]
  /\ lapsed' = [a \in Agents |-> lapsed[a] \/ (At(c, "open") /\ Agent(c) = a)]
  /\ Rollback(c)
  /\ UNCHANGED <<fails, breaker, run, raced>>

\* PUT and POST /health-check write what they please, once the row is free.
Overwrite(a, s) ==
  /\ lock[a] = None /\ status[a] # s /\ calls < MaxCalls
  /\ calls' = calls + 1
  /\ status' = [status EXCEPT ![a] = s]
  /\ rewritten' = [rewritten EXCEPT ![a] = TRUE]
  /\ UNCHANGED <<lock, sess, lost, call, redis>>

\* The breaker's key lives for 60 s.
BreakerLapses(a) ==
  /\ breaker[a]
  /\ breaker' = [breaker EXCEPT ![a] = FALSE]
  /\ lapsed' = [lapsed EXCEPT ![a] = TRUE]
  /\ UNCHANGED <<fails, run, raced, call, calls, db>>

\* The counter's lives for 240 s after a failure, so it outlives the breaker.
CounterLapses(a) ==
  /\ fails[a] > 0 /\ ~breaker[a]
  /\ fails' = [fails EXCEPT ![a] = 0]
  /\ UNCHANGED <<breaker, run, lapsed, raced, call, calls, db>>

-----------------------------------------------------------------------------
Step(c) ==
  \/ CheckBreaker(c) \/ (\E o \in {"ok", "fail", "refused"} : Dispatch(c, o))
  \/ MarkOnline(c) \/ DeleteKeys(c) \/ CountFailure(c) \/ OpenBreaker(c)
  \/ MarkFailed(c) \/ End(c) \/ DeadlockAborts(c)

Next ==
  \/ \E c \in Callers : Step(c) \/ Crash(c) \/ \E a \in Agents : Begin(c, a)
  \/ \E a \in Agents : BreakerLapses(a) \/ CounterLapses(a) \/ \E s \in Rewrites : Overwrite(a, s)

\* A thread keeps running, every dispatch has a timeout, the sleeps between
\* attempts are finite, and the database finds deadlocks.
Fairness == WF_vars(\E c \in Callers : Step(c))

Spec == Init /\ [][Next]_vars /\ Fairness

-----------------------------------------------------------------------------
(* What must hold                                                          *)

Rows == (0 .. 1) \X Agents \X (Marks \cup {"success"})

TypeOK ==
  /\ fails \in [Agents -> Nat] /\ run \in [Agents -> Nat]
  /\ breaker \in [Agents -> BOOLEAN]
  /\ status \in [Agents -> Marks] /\ lock \in [Agents -> Callers \cup {None}]
  /\ call \in [Callers ->
       [pc : {"idle", "check", "dispatch", "mark_online", "delete", "count", "open",
              "mark_error", "mark_open", "end"},
        agent : Agents \cup {None}, depth : 0 .. 1, attempt : 1 .. MAX_ATTEMPTS,
        poisoned : BOOLEAN, result : {"none", "ok", "error"},
        answers : Nat, log : SUBSET Rows, missing : Nat]]
  /\ sess \in [Callers -> [Agents -> Marks \cup {"unloaded"}]]
  /\ calls \in 0 .. MaxCalls
  /\ lapsed \in [Agents -> BOOLEAN] /\ raced \in [Agents -> BOOLEAN]
  /\ lost \in [Agents -> BOOLEAN] /\ rewritten \in [Agents -> BOOLEAN]

\* The breaker is open only for an agent that failed BREAKER_THRESHOLD calls
\* in a row, unless a success deleted the keys between INCR and SET NX.
OpenIsEarned ==
  \A a \in Agents : breaker[a] /\ ~raced[a] => run[a] >= BREAKER_THRESHOLD

\* Conversely, once the count is reached the breaker is open when the last
\* failure is dealt with: also on the probe after it lapsed, and after a
\* caller died before it could open it.
EnoughFailuresOpen ==
  \A a \in Agents :
    \/ fails[a] < BREAKER_THRESHOLD \/ lapsed[a] \/ breaker[a]
    \/ \E c \in Callers : At(c, "open") /\ Agent(c) = a

\* What AgentRegistry offers.
Offered == {"online", "busy"}

\* When all is quiet, an agent whose breaker is open is not offered.  Two
\* things the code does undo this, and are the premises: another endpoint
\* wrote the row after the calls did, or a mark of the agent was lost, to a
\* rollback, a Redis that did not answer, or a comparison with a status that
\* the session read before the row changed.
HiddenWhileOpen ==
  (\A c \in Callers : At(c, "idle")) =>
    \A a \in Agents : breaker[a] /\ ~lost[a] /\ ~rewritten[a] => status[a] \notin Offered

\* An agent carries out a task at most once for a call, and of each agent
\* that was tried the log has one row, or its writing failed.  The caller
\* gets an answer exactly when an agent gave one, but for the victim of a
\* deadlock, which is told of an error after the agent answered; and a row
\* of success is only there for an answer the caller got.
LogTellsCall ==
  \A c \in Callers :
    LET r == call[c]
        success == <<r.depth, r.agent, "success">>
    IN /\ r.answers <= 1
       /\ At(c, "end") =>
            /\ Cardinality(r.log) + r.missing = r.depth + 1
            /\ r.result = "ok" <=> r.answers = 1 /\ ~r.poisoned
            /\ success \in r.log => r.result = "ok"
            /\ r.result = "ok" /\ r.missing = 0 => success \in r.log

\* Every call returns: no caller is away from idle for ever.
CallsReturn == \A c \in Callers : []<>At(c, "idle")
=============================================================================
