------------------------- MODULE ExternalCallsProofs -------------------------
(***************************************************************************)
(* ExternalCalls for any callers, agents, fallbacks, thresholds and number *)
(* of attempts: the circuit breaker opens only on failures in a row, and   *)
(* does open on them; an agent whose breaker is open is hidden; and the    *)
(* call log tells what was done.                                           *)
(*                                                                         *)
(* The argument: the counter in Redis never exceeds the failures that were *)
(* counted since a success, and a caller that is about to open the breaker *)
(* has seen the threshold reached; a success that deletes the keys under   *)
(* such a caller is what raced records.                                    *)
(***************************************************************************)
EXTENDS ExternalCalls, FiniteSetTheorems, TLAPS

\* A caller that is past its first statement is calling somebody.
CallersCall == \A c \in Callers : call[c].pc # "idle" => call[c].agent \in Agents

\* A row that is locked was written by the session that holds the lock.
LocksAreLoaded == \A a \in Agents : \A c \in Callers : lock[a] = c => sess[c][a] \in Marks

\* The counter forgets; it never invents.
CountedIsRun == \A a \in Agents : fails[a] <= run[a]

\* Who is about to open the breaker has seen the threshold reached.
OpenersSawThreshold ==
  \A c \in Callers :
    call[c].pc = "open" /\ ~raced[call[c].agent] => run[call[c].agent] >= BREAKER_THRESHOLD

BreakerInv == CountedIsRun /\ OpenersSawThreshold /\ OpenIsEarned /\ EnoughFailuresOpen

PCs == {"idle", "check", "dispatch", "mark_online", "delete", "count", "open",
        "mark_error", "mark_open", "end"}

CallRecords ==
  [pc : PCs, agent : Agents \cup {None}, depth : 0 .. 1, attempt : 1 .. MAX_ATTEMPTS,
   poisoned : BOOLEAN, result : {"none", "ok", "error"}, answers : Nat,
   log : SUBSET Rows, missing : Nat]

RedisTyped ==
  /\ fails \in [Agents -> Nat] /\ run \in [Agents -> Nat]
  /\ breaker \in [Agents -> BOOLEAN] /\ lapsed \in [Agents -> BOOLEAN]
  /\ raced \in [Agents -> BOOLEAN]

DbTyped ==
  /\ status \in [Agents -> Marks] /\ lock \in [Agents -> Callers \cup {None}]
  /\ sess \in [Callers -> [Agents -> Marks \cup {"unloaded"}]]
  /\ lost \in [Agents -> BOOLEAN] /\ rewritten \in [Agents -> BOOLEAN]

CallsTyped == call \in [Callers -> CallRecords] /\ calls \in 0 .. MaxCalls

DbInv == DbTyped /\ LocksAreLoaded

CallsInv == CallsTyped /\ CallersCall

IInv == RedisTyped /\ DbInv /\ CallsInv /\ BreakerInv

\* TypeOK by the parts of the state that steps leave alone.
LEMMA TypeParts == TypeOK <=> RedisTyped /\ DbTyped /\ CallsTyped
  BY DEF TypeOK, RedisTyped, DbTyped, CallsTyped, CallRecords, PCs

-----------------------------------------------------------------------------
(* The session                                                             *)

\* A commit leaves the session typed, and writes what was flushed.
LEMMA CommitKeepsDb ==
  ASSUME DbInv, NEW c \in Callers, NEW used, Commit(c, used)
  PROVE  DbInv'
<1>0. None \notin Callers
  BY ExternalAssumption
<1>1. Committed(c) \in [Agents -> Marks]
  BY DEF DbInv, DbTyped, LocksAreLoaded, Committed
<1>2. lock' \in [Agents -> Callers \cup {None}] /\ \A a \in Agents : lock'[a] # c
  BY <1>0 DEF DbInv, DbTyped, Commit, Released
<1>3. sess' \in [Callers -> [Agents -> Marks \cup {"unloaded"}]]
  <2> DEFINE row == [a \in Agents |-> IF a \in used THEN Committed(c)[a] ELSE "unloaded"]
  <2>1. row \in [Agents -> Marks \cup {"unloaded"}]
    BY <1>1
  <2>2. sess' = [sess EXCEPT ![c] = row]
    BY DEF Commit
  <2> HIDE DEF row
  <2> QED
    BY <2>1, <2>2 DEF DbInv, DbTyped
<1>4. LocksAreLoaded'
  <2> SUFFICES ASSUME NEW a \in Agents, NEW d \in Callers, lock'[a] = d
               PROVE  sess'[d][a] \in Marks
    BY DEF LocksAreLoaded
  <2>1. d # c /\ lock[a] = d
    BY <1>0, <1>2 DEF Commit, Released
  <2>2. sess'[d] = sess[d]
    BY <2>1 DEF DbInv, DbTyped, Commit
  <2> QED
    BY <2>1, <2>2 DEF DbInv, LocksAreLoaded
<1>5. rewritten' \in [Agents -> BOOLEAN]
  <2> DEFINE W(a) == rewritten[a] /\ lock[a] # c
  <2>1. rewritten' = [a \in Agents |-> W(a)]
    BY DEF Commit
  <2>2. \A a \in Agents : W(a) \in BOOLEAN
    OBVIOUS
  <2> HIDE DEF W
  <2> QED
    BY <2>1, <2>2
<1> QED
  BY <1>1, <1>2, <1>3, <1>4, <1>5 DEF DbInv, DbTyped, Commit

\* So does a rollback.
LEMMA RollbackKeepsDb ==
  ASSUME DbInv, NEW c \in Callers, Rollback(c)
  PROVE  DbInv'
<1>0. None \notin Callers
  BY ExternalAssumption
<1>2. lock' \in [Agents -> Callers \cup {None}] /\ \A a \in Agents : lock'[a] # c
  BY <1>0 DEF DbInv, DbTyped, Rollback, Released
<1>3. sess' \in [Callers -> [Agents -> Marks \cup {"unloaded"}]]
  BY DEF DbInv, DbTyped, Rollback
<1>4. LocksAreLoaded'
  BY <1>0, <1>2 DEF DbInv, DbTyped, LocksAreLoaded, Rollback, Released
<1>5. lost' \in [Agents -> BOOLEAN]
  <2> DEFINE L(a) == lost[a] \/ lock[a] = c \/ (Agent(c) = a /\ ~At(c, "end"))
  <2>1. lost' = [a \in Agents |-> L(a)]
    BY DEF Rollback
  <2>2. \A a \in Agents : L(a) \in BOOLEAN
    OBVIOUS
  <2> HIDE DEF L
  <2> QED
    BY <2>1, <2>2
<1> QED
  BY <1>2, <1>3, <1>4, <1>5 DEF DbInv, DbTyped, Rollback

\* A mark changes the session's view of the agent, and loads the agent next.
LEMMA MarkLoads ==
  ASSUME DbInv, NEW c \in Callers, Agent(c) \in Agents, NEW s \in Marks,
         NEW next \in Agents, Mark(c, s, next)
  PROVE  /\ status' = status /\ rewritten' = rewritten
         /\ sess'[c][Agent(c)] = s
         /\ \A d \in Callers \ {c} : sess'[d] = sess[d]
         /\ \A b \in Agents \ {Agent(c)} : sess[c][b] \in Marks => sess'[c][b] = sess[c][b]
         /\ sess' \in [Callers -> [Agents -> Marks \cup {"unloaded"}]]
<1> DEFINE seen == [sess[c] EXCEPT ![Agent(c)] = s]
           view == Load(c, seen, next)
<1>1. /\ sess \in [Callers -> [Agents -> Marks \cup {"unloaded"}]]
      /\ status \in [Agents -> Marks] /\ "unloaded" \notin Marks
  BY DEF DbInv, DbTyped, Marks
<1>2. sess' = [sess EXCEPT ![c] = view]
  BY DEF Mark
<1>3. /\ seen \in [Agents -> Marks \cup {"unloaded"}] /\ seen[Agent(c)] = s
      /\ \A b \in Agents \ {Agent(c)} : seen[b] = sess[c][b]
  BY <1>1
<1> HIDE DEF seen
<1>4. \/ view = seen
      \/ seen[next] = "unloaded" /\ view = [seen EXCEPT ![next] = status[next]]
  BY DEF Load
<1> HIDE DEF view
<1>5. /\ view \in [Agents -> Marks \cup {"unloaded"}]
      /\ \A b \in Agents : seen[b] \in Marks => view[b] = seen[b]
  BY <1>1, <1>3, <1>4
<1>6. sess'[c] = view /\ \A d \in Callers \ {c} : sess'[d] = sess[d]
  BY <1>1, <1>2
<1>7. sess' \in [Callers -> [Agents -> Marks \cup {"unloaded"}]]
  BY <1>1, <1>2, <1>5
<1>8. status' = status /\ rewritten' = rewritten
  BY DEF Mark
<1> QED
  BY <1>1, <1>3, <1>5, <1>6, <1>7, <1>8

\* Marking an agent locks its row only with a mark.
LEMMA MarkKeepsDb ==
  ASSUME DbInv, NEW c \in Callers, Agent(c) \in Agents, NEW s \in Marks,
         NEW next \in Agents, Mark(c, s, next)
  PROVE  DbInv'
<1>1. /\ status' = status /\ rewritten' = rewritten
      /\ sess'[c][Agent(c)] = s
      /\ \A d \in Callers \ {c} : sess'[d] = sess[d]
      /\ \A b \in Agents \ {Agent(c)} : sess[c][b] \in Marks => sess'[c][b] = sess[c][b]
      /\ sess' \in [Callers -> [Agents -> Marks \cup {"unloaded"}]]
  BY MarkLoads
<1>3. \/ lock' = lock
      \/ lock' = [lock EXCEPT ![Agent(c)] = c]
  BY DEF Mark
<1>4. lock' \in [Agents -> Callers \cup {None}]
  BY <1>3 DEF DbInv, DbTyped
<1>5. LocksAreLoaded'
  <2> SUFFICES ASSUME NEW b \in Agents, NEW d \in Callers, lock'[b] = d
               PROVE  sess'[d][b] \in Marks
    BY DEF LocksAreLoaded
  <2>1. lock[b] = d \/ (b = Agent(c) /\ d = c)
    BY <1>3 DEF DbInv, DbTyped
  <2>2. CASE b = Agent(c) /\ d = c
    BY <1>1, <2>2
  <2>3. CASE lock[b] = d /\ ~(b = Agent(c) /\ d = c)
    <3>1. sess[d][b] \in Marks
      BY <2>3 DEF DbInv, LocksAreLoaded
    <3> QED
      BY <1>1, <2>3, <3>1
  <2> QED
    BY <2>1, <2>2, <2>3
<1>6. lost' \in [Agents -> BOOLEAN]
  <2> DEFINE x == (lock[Agent(c)] # c /\ status[Agent(c)] # s) \/ lock[Agent(c)] \notin {None, c}
  <2>1. \/ lost' = lost
        \/ lost' = [lost EXCEPT ![Agent(c)] = @ \/ x]
    <3>1. CASE sess[c][Agent(c)] = s
      <4>1. lost' = [lost EXCEPT ![Agent(c)] = @ \/ (lock[Agent(c)] # c /\ status[Agent(c)] # s)
                                                 \/ lock[Agent(c)] \notin {None, c}]
        BY <3>1 DEF Mark
      <4> QED
        BY <4>1, Zenon
    <3>2. CASE sess[c][Agent(c)] # s
      BY <3>2 DEF Mark
    <3> QED
      BY <3>1, <3>2
  <2> HIDE DEF x
  <2>2. (lost[Agent(c)] \/ x) \in BOOLEAN
    OBVIOUS
  <2>3. lost \in [Agents -> BOOLEAN]
    BY DEF DbInv, DbTyped
  <2> QED
    BY <2>1, <2>2, <2>3
<1> QED
  BY <1>1, <1>4, <1>5, <1>6 DEF DbInv, DbTyped

-----------------------------------------------------------------------------
(* The calls                                                               *)

\* One call moves on to the record r.
LEMMA OneCallMoves ==
  ASSUME CallsInv, NEW c \in Callers, NEW r \in CallRecords,
         call' = [call EXCEPT ![c] = r], r.pc # "idle" => r.agent \in Agents,
         calls' \in 0 .. MaxCalls
  PROVE  CallsInv'
  BY DEF CallsInv, CallsTyped, CallersCall

\* Another attempt is a call to the same agent.
LEMMA NextAttemptTyped ==
  ASSUME NEW r \in CallRecords, r.agent \in Agents
  PROVE  /\ NextAttempt(r) \in CallRecords
         /\ NextAttempt(r).agent \in Agents /\ NextAttempt(r).pc # "open"
<1>1. MAX_ATTEMPTS \in Nat \ {0}
  BY ExternalAssumption
<1>2. r.attempt \in 1 .. MAX_ATTEMPTS
  BY DEF CallRecords
<1>3. r.attempt < MAX_ATTEMPTS => r.attempt + 1 \in 1 .. MAX_ATTEMPTS
  BY <1>1, <1>2
<1>4. 1 \in 1 .. MAX_ATTEMPTS
  BY <1>1
<1>5. CASE r.attempt < MAX_ATTEMPTS
  BY <1>3, <1>5 DEF NextAttempt, CallRecords, PCs
<1>6. CASE ~(r.attempt < MAX_ATTEMPTS)
  BY <1>4, <1>6 DEF NextAttempt, CallRecords, PCs
<1> QED
  BY <1>5, <1>6

\* A row in the call log leaves the call as it is otherwise.
LEMMA LoggedTyped ==
  ASSUME NEW r \in CallRecords, r.agent \in Agents, NEW what \in Marks \cup {"success"},
         NEW kept \in BOOLEAN
  PROVE  Logged(r, what, kept) \in CallRecords /\ Logged(r, what, kept).agent = r.agent
<1>1. <<r.depth, r.agent, what>> \in Rows
  BY DEF Rows, CallRecords
<1>2. r.log \cup {<<r.depth, r.agent, what>>} \in SUBSET Rows
  BY <1>1 DEF CallRecords
<1>3. r.missing + 1 \in Nat
  BY DEF CallRecords
<1>4. CASE kept
  BY <1>2, <1>4 DEF Logged, CallRecords
<1>5. CASE ~kept
  BY <1>3, <1>5 DEF Logged, CallRecords
<1> QED
  BY <1>4, <1>5

\* The budget is kept when a row is not written.
LEMMA LogWrittenTyped ==
  ASSUME calls \in 0 .. MaxCalls, NEW kept \in BOOLEAN, LogWritten(kept)
  PROVE  calls' \in 0 .. MaxCalls
  BY ExternalAssumption DEF LogWritten

\* A call that goes to the fallback goes to an agent, and starts over.
LEMMA FallbackTyped ==
  ASSUME NEW r \in CallRecords, r.agent \in Agents
  PROVE  /\ Fallback(r) \in CallRecords
         /\ Fallback(r).agent \in Agents /\ Fallback(r).pc # "open"
<1>1. FallbackOf[r.agent] \in Agents \cup {None} /\ 1 \in 1 .. MAX_ATTEMPTS
  BY ExternalAssumption
<1> DEFINE next == FallbackOf[r.agent]
<1>2. CASE next # None /\ r.depth = 0
  <2>1. next \in Agents
    BY <1>1, <1>2
  <2>2. Fallback(r) = [r EXCEPT !.pc = "check", !.agent = next, !.depth = 1, !.attempt = 1]
    BY <1>2 DEF Fallback
  <2> HIDE DEF next
  <2>3. 0 \in 0 .. 1 /\ 1 \in 0 .. 1 /\ "check" \in PCs /\ "check" # "open"
    BY DEF PCs
  <2>4. Fallback(r) \in CallRecords
    BY <1>1, <2>1, <2>2, <2>3 DEF CallRecords
  <2> QED
    BY <2>1, <2>2, <2>3, <2>4 DEF CallRecords
<1>3. CASE ~(next # None /\ r.depth = 0)
  <2>1. Fallback(r) = [r EXCEPT !.pc = "end", !.result = "error"]
    BY <1>3 DEF Fallback
  <2> QED
    BY <2>1 DEF CallRecords, PCs
<1> QED
  BY <1>2, <1>3

-----------------------------------------------------------------------------
(* The breaker                                                             *)

\* A step that leaves the keys alone, of a call that is not about to open the
\* breaker and does not become so.
LEMMA QuietKeepsBreaker ==
  ASSUME BreakerInv, CallsTyped, UNCHANGED redis, NEW c \in Callers, NEW r,
         call' = [call EXCEPT ![c] = r], ~At(c, "open"), r.pc # "open"
  PROVE  BreakerInv'
<1> USE DEF BreakerInv, redis
<1>1. call \in [Callers -> CallRecords]
  BY DEF CallsTyped
<1>2. \A d \in Callers : /\ call'[d].pc = "open" <=> call[d].pc = "open"
                         /\ call[d].pc = "open" => call'[d] = call[d]
  BY <1>1 DEF At
<1>3. CountedIsRun' /\ OpenIsEarned'
  BY DEF CountedIsRun, OpenIsEarned
<1>4. OpenersSawThreshold'
  BY <1>2 DEF OpenersSawThreshold
<1>5. EnoughFailuresOpen'
  BY <1>2 DEF EnoughFailuresOpen, At, Agent
<1> QED
  BY <1>3, <1>4, <1>5

\* INCR: the count and the failures in a row go up together.
LEMMA CountKeepsInv ==
  ASSUME IInv, NEW c \in Callers, CountFailure(c)
  PROVE  IInv'
<1> DEFINE a == call[c].agent
<1>1. /\ call \in [Callers -> CallRecords] /\ a \in Agents
      /\ call[c].pc = "count" /\ calls' = calls
      /\ UNCHANGED <<breaker, raced, status, lock, sess, rewritten, lost>>
  BY DEF IInv, CallsInv, CountFailure, At, CallsTyped, CallersCall, db
<1>2. fails \in [Agents -> Nat] /\ run \in [Agents -> Nat] /\ lapsed \in [Agents -> BOOLEAN]
  BY DEF IInv, RedisTyped
<1>3. BREAKER_THRESHOLD \in Nat \ {0}
  BY ExternalAssumption
<1>6. call[c] \in CallRecords
  BY <1>1
<1>7. CallsInv /\ calls' \in 0 .. MaxCalls
  BY <1>1 DEF IInv, CallsInv, CallsTyped
<1>8. BreakerInv /\ CallsTyped /\ ~At(c, "open")
  BY <1>1 DEF IInv, CallsInv, At
<1>4. CASE UNCHANGED <<fails, run, lapsed>> /\ call' = [call EXCEPT ![c].pc = "mark_error"]
  <2>1. call' = [call EXCEPT ![c] = [call[c] EXCEPT !.pc = "mark_error"]]
    BY <1>1, <1>4
  <2>2. /\ [call[c] EXCEPT !.pc = "mark_error"] \in CallRecords
        /\ [call[c] EXCEPT !.pc = "mark_error"].agent = a
    BY <1>6 DEF CallRecords, PCs
  <2>3. CallsInv'
    BY <1>1, <1>7, <2>1, <2>2, OneCallMoves
  <2>4. BreakerInv'
    <3>1. UNCHANGED redis
      BY <1>1, <1>4 DEF redis
    <3>2. [call[c] EXCEPT !.pc = "mark_error"].pc # "open"
      BY <1>6 DEF CallRecords
    <3> QED
      BY <1>8, <2>1, <3>1, <3>2, QuietKeepsBreaker
  <2> QED
    BY <1>1, <1>4, <2>3, <2>4 DEF IInv, RedisTyped, DbInv, DbTyped, LocksAreLoaded
<1>5. CASE /\ fails' = [fails EXCEPT ![a] = @ + 1] /\ run' = [run EXCEPT ![a] = @ + 1]
           /\ lapsed' = [lapsed EXCEPT ![a] = FALSE]
           /\ Go(c, IF fails[a] + 1 >= BREAKER_THRESHOLD THEN "open" ELSE "mark_error")
  <2> DEFINE next == IF fails[a] + 1 >= BREAKER_THRESHOLD THEN "open" ELSE "mark_error"
             r == [call[c] EXCEPT !.pc = next]
  <2>1. call' = [call EXCEPT ![c] = r]
    BY <1>1, <1>5 DEF Go
  <2>2. r \in CallRecords /\ r.agent = a /\ r.pc = next
    BY <1>6 DEF CallRecords, PCs
  <2>3. CallsInv'
    BY <1>1, <1>7, <2>1, <2>2, OneCallMoves
  <2>4. RedisTyped'
    <3>1. fails[a] + 1 \in Nat /\ run[a] + 1 \in Nat
      BY <1>1, <1>2
    <3> QED
      BY <1>1, <1>2, <1>5, <3>1 DEF IInv, RedisTyped
  <2>5. /\ fails'[a] = fails[a] + 1 /\ run'[a] = run[a] + 1 /\ lapsed'[a] = FALSE
        /\ \A b \in Agents \ {a} : fails'[b] = fails[b] /\ run'[b] = run[b] /\ lapsed'[b] = lapsed[b]
    BY <1>1, <1>2, <1>5
  <2>6. /\ \A d \in Callers \ {c} : call'[d] = call[d]
        /\ call'[c].agent = a /\ call'[c].pc = next
    BY <1>1, <2>1, <2>2
  <2> HIDE DEF r
  <2>7. CountedIsRun'
    BY <1>1, <1>2, <2>5 DEF IInv, BreakerInv, CountedIsRun
  <2>8. \A b \in Agents : run[b] >= BREAKER_THRESHOLD => run'[b] >= BREAKER_THRESHOLD
    BY <1>1, <1>2, <1>3, <2>5
  <2>9. OpenIsEarned'
    BY <1>1, <2>8 DEF IInv, BreakerInv, OpenIsEarned
  <2>10. next = "open" => run'[a] >= BREAKER_THRESHOLD
    <3>1. fails[a] <= run[a]
      BY <1>1 DEF IInv, BreakerInv, CountedIsRun
    <3> QED
      BY <1>1, <1>2, <1>3, <2>5, <3>1
  <2>10a. next # "open" => fails'[a] < BREAKER_THRESHOLD
    BY <1>1, <1>2, <1>3, <2>5
  <2> HIDE DEF next
  <2>11. OpenersSawThreshold'
    <3> SUFFICES ASSUME NEW d \in Callers, call'[d].pc = "open", ~raced'[call'[d].agent]
                 PROVE  run'[call'[d].agent] >= BREAKER_THRESHOLD
      BY DEF OpenersSawThreshold
    <3>1. CASE d = c
      BY <2>6, <2>10, <3>1
    <3>2. CASE d # c
      BY <1>1, <2>6, <2>8, <3>2
         DEF IInv, BreakerInv, OpenersSawThreshold, CallsInv, CallersCall
    <3> QED
      BY <3>1, <3>2
  <2>12. EnoughFailuresOpen'
    <3> SUFFICES ASSUME NEW b \in Agents
                 PROVE  \/ fails'[b] < BREAKER_THRESHOLD \/ lapsed'[b] \/ breaker'[b]
                        \/ \E d \in Callers : call'[d].pc = "open" /\ call'[d].agent = b
      BY DEF EnoughFailuresOpen, At, Agent
    <3>1. CASE b = a
      BY <2>6, <2>10a, <3>1
    <3>2. CASE b # a
      <4>1. \/ fails[b] < BREAKER_THRESHOLD \/ lapsed[b] \/ breaker[b]
            \/ \E d \in Callers : call[d].pc = "open" /\ call[d].agent = b
        BY DEF IInv, BreakerInv, EnoughFailuresOpen, At, Agent
      <4>2. \A d \in Callers : call[d].pc = "open" => d # c
        BY <1>1
      <4> QED
        BY <1>1, <2>5, <2>6, <3>2, <4>1, <4>2
    <3> QED
      BY <3>1, <3>2
  <2> QED
    BY <1>1, <2>3, <2>4, <2>7, <2>9, <2>11, <2>12
       DEF IInv, BreakerInv, DbInv, DbTyped, LocksAreLoaded
<1> QED
  BY <1>1, <1>4, <1>5 DEF CountFailure, Go, Agent

-----------------------------------------------------------------------------
(* The steps of a call                                                     *)

\* A step that touches neither the keys nor a caller about to open.
LEMMA QuietStep ==
  ASSUME IInv, NEW c \in Callers, NEW r \in CallRecords,
         call' = [call EXCEPT ![c] = r], r.pc # "idle" => r.agent \in Agents,
         ~At(c, "open"), r.pc # "open",
         calls' \in 0 .. MaxCalls, UNCHANGED redis, DbInv'
  PROVE  IInv'
<1>1. CallsInv'
  BY OneCallMoves DEF IInv
<1>2. BreakerInv'
  BY QuietKeepsBreaker DEF IInv, CallsInv
<1>3. RedisTyped'
  BY DEF IInv, RedisTyped, redis
<1> QED
  BY <1>1, <1>2, <1>3 DEF IInv

\* A step that leaves the database alone keeps its invariant.
LEMMA DbStays ==
  ASSUME DbInv, UNCHANGED db
  PROVE  DbInv'
  BY DEF DbInv, DbTyped, LocksAreLoaded, db

\* What every step knows of its caller.
LEMMA Caller ==
  ASSUME IInv, NEW c \in Callers
  PROVE  /\ call[c] \in CallRecords /\ call \in [Callers -> CallRecords]
         /\ call[c].pc # "idle" => call[c].agent \in Agents
         /\ calls \in 0 .. MaxCalls
         /\ DbInv
  BY DEF IInv, CallsInv, CallsTyped, CallersCall

\* A caller between two calls.
LEMMA IdleTyped == Idle \in CallRecords /\ Idle.pc = "idle"
<1>1. 1 \in 1 .. MAX_ATTEMPTS
  BY ExternalAssumption
<1> QED
  BY <1>1 DEF Idle, CallRecords, PCs

\* A request or an activity calls an agent.
LEMMA BeginKeepsInv ==
  ASSUME IInv, NEW c \in Callers, NEW a \in Agents, Begin(c, a)
  PROVE  IInv'
<1> DEFINE r == [Idle EXCEPT !.pc = "check", !.agent = a]
<1>1. r \in CallRecords /\ r.agent = a /\ r.pc = "check"
  BY IdleTyped DEF CallRecords, PCs
<1>2. call' = [call EXCEPT ![c] = r] /\ UNCHANGED redis /\ call[c].pc = "idle"
  BY DEF Begin, At
<1>3. calls' \in 0 .. MaxCalls
  BY Caller, ExternalAssumption DEF Begin
<1>4. DbInv'
  BY Caller DEF Begin, DbInv, DbTyped, LocksAreLoaded
<1> HIDE DEF r
<1> QED
  BY <1>1, <1>2, <1>3, <1>4, QuietStep DEF At

\* The breaker is read, and the call goes on or is refused.
LEMMA CheckKeepsInv ==
  ASSUME IInv, NEW c \in Callers, CheckBreaker(c)
  PROVE  IInv'
<1>1. PICK pc \in {"mark_open", "dispatch"} : Go(c, pc)
  BY DEF CheckBreaker
<1> DEFINE r == [call[c] EXCEPT !.pc = pc]
<1>2. /\ call[c] \in CallRecords /\ call[c].pc = "check" /\ call[c].agent \in Agents
  BY Caller DEF CheckBreaker, At
<1>3. r \in CallRecords /\ r.agent = call[c].agent /\ r.pc = pc
  BY <1>2 DEF CallRecords, PCs
<1>4. call' = [call EXCEPT ![c] = r]
  BY <1>1 DEF Go
<1>5. UNCHANGED redis /\ calls' \in 0 .. MaxCalls /\ DbInv'
  BY Caller, DbStays DEF CheckBreaker
<1> HIDE DEF r
<1> QED
  BY <1>2, <1>3, <1>4, <1>5, QuietStep DEF At

\* The agent answers or not; a failure is counted.
LEMMA DispatchKeepsInv ==
  ASSUME IInv, NEW c \in Callers, NEW o \in {"ok", "fail", "refused"}, Dispatch(c, o)
  PROVE  IInv'
<1>1. /\ call[c] \in CallRecords /\ call[c].pc = "dispatch" /\ call[c].agent \in Agents
  BY Caller DEF Dispatch, At
<1>2. PICK r \in CallRecords : /\ call' = [call EXCEPT ![c] = r]
                               /\ r.agent \in Agents /\ r.pc # "open"
  <2>1. CASE o = "ok"
    <3>1. Dispatched(call[c], o) = [call[c] EXCEPT !.pc = "mark_online", !.answers = @ + 1]
      BY <2>1 DEF Dispatched
    <3>2. call[c].answers + 1 \in Nat
      BY <1>1 DEF CallRecords
    <3>3. /\ Dispatched(call[c], o) \in CallRecords
          /\ Dispatched(call[c], o).agent \in Agents
          /\ Dispatched(call[c], o).pc # "open"
      BY <1>1, <3>1, <3>2 DEF CallRecords, PCs
    <3> QED
      BY <3>3 DEF Dispatch
  <2>2. CASE o = "fail"
    <3>1. Dispatched(call[c], o) = NextAttempt(call[c])
      BY <2>2 DEF Dispatched
    <3> QED
      BY <1>1, <3>1, NextAttemptTyped DEF Dispatch
  <2>3. CASE o = "refused"
    <3>1. Dispatched(call[c], o) = [call[c] EXCEPT !.attempt = 1, !.pc = "count"]
      BY <2>3 DEF Dispatched
    <3>2. 1 \in 1 .. MAX_ATTEMPTS
      BY ExternalAssumption
    <3>3. /\ Dispatched(call[c], o) \in CallRecords
          /\ Dispatched(call[c], o).agent \in Agents
          /\ Dispatched(call[c], o).pc # "open"
      BY <1>1, <3>1, <3>2 DEF CallRecords, PCs
    <3> QED
      BY <3>3 DEF Dispatch
  <2> QED
    BY <2>1, <2>2, <2>3
<1>3. DbInv'
  <2>1. CASE UNCHANGED db
    BY <2>1, Caller, DbStays
  <2>2. CASE Commit(c, {Agent(c)})
    BY <2>2, Caller, CommitKeepsDb
  <2> QED
    BY <2>1, <2>2 DEF Dispatch
<1>4. UNCHANGED redis /\ calls' \in 0 .. MaxCalls
  BY Caller DEF Dispatch
<1> QED
  BY <1>1, <1>2, <1>3, <1>4, QuietStep DEF At

\* The row of an agent that answered.
LEMMA MarkOnlineKeepsInv ==
  ASSUME IInv, NEW c \in Callers, MarkOnline(c)
  PROVE  IInv'
<1>1. /\ call[c] \in CallRecords /\ call[c].pc = "mark_online" /\ call[c].agent \in Agents
      /\ Agent(c) \in Agents
  BY Caller DEF MarkOnline, At, Agent
<1> DEFINE r == [call[c] EXCEPT !.pc = "delete"]
<1>2. call' = [call EXCEPT ![c] = r] /\ r \in CallRecords /\ r.agent \in Agents /\ r.pc # "open"
  BY <1>1 DEF MarkOnline, Go, CallRecords, PCs
<1> HIDE DEF r
<1>3. DbInv'
  <2>1. "online" \in Marks /\ Mark(c, "online", Agent(c))
    BY DEF Marks, MarkOnline
  <2> QED
    BY <1>1, <2>1, Caller, MarkKeepsDb
<1>4. UNCHANGED redis /\ calls' \in 0 .. MaxCalls
  BY Caller DEF MarkOnline
<1> QED
  BY <1>1, <1>2, <1>3, <1>4, QuietStep DEF At

\* The row of an agent that failed, or whose breaker opens.
LEMMA MarkFailedKeepsInv ==
  ASSUME IInv, NEW c \in Callers, MarkFailed(c)
  PROVE  IInv'
<1>1. /\ call[c] \in CallRecords /\ call[c].agent \in Agents
      /\ Agent(c) \in Agents /\ ~At(c, "open")
  BY Caller DEF MarkFailed, At, Agent
<1> DEFINE s == FailedAs(c)
<1>2. s \in Marks /\ s \in Marks \cup {"success"}
  BY DEF Marks, FailedAs
<1> HIDE DEF s
<1>3. PICK kept \in BOOLEAN :
        /\ call' = [call EXCEPT ![c] = Fallback(Logged(call[c], s, kept))]
        /\ Mark(c, s, Fallback(Logged(call[c], s, kept)).agent)
        /\ LogWritten(kept)
  BY DEF MarkFailed, s
<1> DEFINE r == Fallback(Logged(call[c], s, kept))
<1>4. r \in CallRecords /\ r.agent \in Agents /\ r.pc # "open"
  BY <1>1, <1>2, LoggedTyped, FallbackTyped
<1>5. call' = [call EXCEPT ![c] = r] /\ Mark(c, s, r.agent)
  BY <1>3
<1> HIDE DEF r
<1>6. DbInv'
  BY <1>1, <1>2, <1>4, <1>5, Caller, MarkKeepsDb
<1>7. UNCHANGED redis /\ calls' \in 0 .. MaxCalls
  BY <1>3, Caller, LogWrittenTyped DEF MarkFailed
<1> QED
  BY <1>1, <1>4, <1>5, <1>6, <1>7, QuietStep

\* The call returns, and its transaction ends.
LEMMA EndKeepsInv ==
  ASSUME IInv, NEW c \in Callers, End(c)
  PROVE  IInv'
<1>2. DbInv'
  BY Caller, CommitKeepsDb, RollbackKeepsDb DEF End
<1>3. /\ call' = [call EXCEPT ![c] = Idle] /\ ~At(c, "open")
      /\ UNCHANGED redis /\ calls' \in 0 .. MaxCalls
  BY Caller DEF End, At
<1> QED
  BY IdleTyped, <1>2, <1>3, QuietStep

\* Postgres breaks a deadlock: it aborts one of the transactions.
LEMMA DeadlockKeepsInv ==
  ASSUME IInv, NEW c \in Callers, DeadlockAborts(c)
  PROVE  IInv'
<1> DEFINE r == [call[c] EXCEPT !.poisoned = TRUE, !.pc = "end", !.result = "error",
                                !.missing = @ + 1]
<1>1. call[c].pc \in {"mark_online", "mark_error", "mark_open"}
  <2>2. Wanted(c) # "none"
    BY DEF DeadlockAborts, InCycle, Holder
  <2> QED
    BY <2>2 DEF Wanted, At
<1>2. call[c] \in CallRecords /\ call[c].agent \in Agents
  BY <1>1, Caller
<1>3. call[c].missing + 1 \in Nat
  BY <1>2 DEF CallRecords
<1>4. r \in CallRecords /\ r.agent \in Agents /\ r.pc # "open"
  BY <1>2, <1>3 DEF CallRecords, PCs
<1>5. call' = [call EXCEPT ![c] = r]
  BY Caller DEF DeadlockAborts
<1> HIDE DEF r
<1>6. DbInv'
  BY Caller, RollbackKeepsDb DEF DeadlockAborts
<1>7. UNCHANGED redis /\ calls' \in 0 .. MaxCalls
  BY Caller DEF DeadlockAborts
<1> QED
  BY <1>1, <1>4, <1>5, <1>6, <1>7, QuietStep DEF At

\* Another endpoint writes the status.
LEMMA OverwriteKeepsInv ==
  ASSUME IInv, NEW a \in Agents, NEW s \in Rewrites, Overwrite(a, s)
  PROVE  IInv'
<1>1. s \in Marks
  BY ExternalAssumption DEF Marks
<1>2. DbInv'
  BY <1>1 DEF IInv, DbInv, DbTyped, LocksAreLoaded, Overwrite
<1>3. calls' \in 0 .. MaxCalls
  BY ExternalAssumption DEF IInv, CallsInv, CallsTyped, Overwrite
<1>4. UNCHANGED call /\ UNCHANGED redis
  BY DEF Overwrite
<1>5. CallsInv' /\ RedisTyped'
  BY <1>3, <1>4 DEF IInv, CallsInv, CallsTyped, CallersCall, RedisTyped, redis
<1>6. BreakerInv'
  BY <1>4 DEF IInv, BreakerInv, CountedIsRun, OpenersSawThreshold, OpenIsEarned,
              EnoughFailuresOpen, At, Agent, redis
<1> QED
  BY <1>2, <1>5, <1>6 DEF IInv

-----------------------------------------------------------------------------
(* The steps on the keys                                                   *)

\* A success deletes both keys; whoever was about to open has been raced.
LEMMA DeleteKeepsInv ==
  ASSUME IInv, NEW c \in Callers, DeleteKeys(c)
  PROVE  IInv'
<1>0. PICK kept \in BOOLEAN : call' = [call EXCEPT ![c] = Answered(@, kept)] /\ LogWritten(kept)
  BY DEF DeleteKeys
<1> DEFINE a == call[c].agent
           r == Answered(call[c], kept)
<1>1. /\ call[c] \in CallRecords /\ call \in [Callers -> CallRecords]
      /\ call[c].pc = "delete" /\ a \in Agents
      /\ Agent(c) = a /\ call' = [call EXCEPT ![c] = r]
      /\ calls' \in 0 .. MaxCalls
  BY <1>0, Caller, LogWrittenTyped DEF DeleteKeys, At, Agent
<1>2. r \in CallRecords /\ r.agent = a /\ r.pc = "end"
  <2>1. 1 \in 1 .. MAX_ATTEMPTS
    BY ExternalAssumption
  <2>2. "success" \in Marks \cup {"success"}
    OBVIOUS
  <2>3. /\ Logged(call[c], "success", kept) \in CallRecords
        /\ Logged(call[c], "success", kept).agent = a
    BY <1>1, <2>2, LoggedTyped
  <2> QED
    BY <2>1, <2>3 DEF Answered, CallRecords, PCs
<1>3. CallsInv'
  BY <1>1, <1>2, OneCallMoves DEF IInv
<1>4. /\ \A d \in Callers \ {c} : call'[d] = call[d]
      /\ call'[c].pc = "end"
  BY <1>1, <1>2
<1> HIDE DEF r
<1>5. DbInv'
  <2>1. lost' \in [Agents -> BOOLEAN]
    BY <1>1 DEF IInv, DbInv, DbTyped, RedisTyped, DeleteKeys
  <2> QED
    BY <2>1 DEF IInv, DbInv, DbTyped, LocksAreLoaded, DeleteKeys
<1>6. CASE UNCHANGED redis
  <2>1. ~At(c, "open") /\ r.pc # "open"
    BY <1>1, <1>2 DEF At
  <2> QED
    BY <1>1, <1>2, <1>5, <1>6, <2>1, QuietStep
<1>7. CASE /\ fails' = [fails EXCEPT ![a] = 0] /\ breaker' = [breaker EXCEPT ![a] = FALSE]
           /\ run' = [run EXCEPT ![a] = 0] /\ raced' = [raced EXCEPT ![a] = @ \/ PendingOpen(c, a)]
           /\ lapsed' = lapsed
  <2> DEFINE p == PendingOpen(c, a)
  <2>0. raced' = [raced EXCEPT ![a] = @ \/ p]
    BY <1>7, Zenon
  <2>1. p <=> \E d \in Callers \ {c} : call[d].pc = "open" /\ call[d].agent = a
    BY DEF PendingOpen, At, Agent
  <2> HIDE DEF p
  <2>2. RedisTyped'
    BY <1>1, <1>7, <2>0 DEF IInv, RedisTyped
  <2>3. /\ fails'[a] = 0 /\ run'[a] = 0 /\ breaker'[a] = FALSE
        /\ \A b \in Agents \ {a} : fails'[b] = fails[b] /\ run'[b] = run[b] /\ breaker'[b] = breaker[b]
    BY <1>1, <1>7 DEF IInv, RedisTyped
  <2>4. /\ raced'[a] = (raced[a] \/ p)
        /\ \A b \in Agents \ {a} : raced'[b] = raced[b]
    BY <1>1, <2>0 DEF IInv, RedisTyped
  <2>5. CountedIsRun'
    <3>1. 0 <= 0
      OBVIOUS
    <3> QED
      BY <1>1, <2>3, <3>1 DEF IInv, BreakerInv, CountedIsRun
  <2>6. OpenIsEarned'
    BY <1>1, <2>3, <2>4 DEF IInv, BreakerInv, OpenIsEarned
  <2>7. OpenersSawThreshold'
    <3> SUFFICES ASSUME NEW d \in Callers, call'[d].pc = "open", ~raced'[call'[d].agent]
                 PROVE  run'[call'[d].agent] >= BREAKER_THRESHOLD
      BY DEF OpenersSawThreshold
    <3>1. d # c /\ call'[d] = call[d]
      BY <1>4
    <3>2. call[d].agent \in Agents
      BY <3>1, Caller
    <3>3. call[d].agent # a
      BY <2>1, <2>4, <3>1
    <3> QED
      BY <2>3, <2>4, <3>1, <3>2, <3>3 DEF IInv, BreakerInv, OpenersSawThreshold
  <2>8. EnoughFailuresOpen'
    <3> SUFFICES ASSUME NEW b \in Agents
                 PROVE  \/ fails'[b] < BREAKER_THRESHOLD \/ lapsed'[b] \/ breaker'[b]
                        \/ \E d \in Callers : call'[d].pc = "open" /\ call'[d].agent = b
      BY DEF EnoughFailuresOpen, At, Agent
    <3>1. CASE b = a
      <4>1. 0 < BREAKER_THRESHOLD
        BY ExternalAssumption
      <4> QED
        BY <2>3, <3>1, <4>1
    <3>2. CASE b # a
      <4>1. \/ fails[b] < BREAKER_THRESHOLD \/ lapsed[b] \/ breaker[b]
            \/ \E d \in Callers : call[d].pc = "open" /\ call[d].agent = b
        BY DEF IInv, BreakerInv, EnoughFailuresOpen, At, Agent
      <4>2. \A d \in Callers : call[d].pc = "open" => call'[d] = call[d]
        BY <1>1, <1>4
      <4> QED
        BY <1>7, <2>3, <3>2, <4>1, <4>2
    <3> QED
      BY <3>1, <3>2
  <2> QED
    BY <1>3, <1>5, <2>2, <2>5, <2>6, <2>7, <2>8 DEF IInv, BreakerInv
<1> QED
  BY <1>1, <1>6, <1>7 DEF DeleteKeys, redis

\* SET NX opens the breaker of a caller that saw the threshold, or is lost.
LEMMA OpenKeepsInv ==
  ASSUME IInv, NEW c \in Callers, OpenBreaker(c)
  PROVE  IInv'
<1> DEFINE a == call[c].agent
           r == [call[c] EXCEPT !.pc = "mark_error"]
<1>1. /\ call[c] \in CallRecords /\ call[c].pc = "open" /\ a \in Agents /\ Agent(c) = a
      /\ call' = [call EXCEPT ![c] = r] /\ calls' \in 0 .. MaxCalls
      /\ call \in [Callers -> CallRecords]
      /\ UNCHANGED <<fails, run, raced>> /\ UNCHANGED db
  BY Caller DEF OpenBreaker, At, Agent, Go
<1>2. r \in CallRecords /\ r.agent = a /\ r.pc = "mark_error"
  BY <1>1 DEF CallRecords, PCs
<1>3. CallsInv' /\ DbInv'
  BY <1>1, <1>2, OneCallMoves, Caller, DbStays DEF IInv
<1>4. \A d \in Callers \ {c} : call'[d] = call[d]
  BY <1>1
<1>4a. call'[c].pc = "mark_error"
  BY <1>1, <1>2
<1> HIDE DEF r
<1>5. PICK up \in BOOLEAN : /\ breaker' = [breaker EXCEPT ![a] = @ \/ up]
                            /\ lapsed' = [lapsed EXCEPT ![a] = @ \/ ~up]
  <2>1. RedisAnswers \subseteq BOOLEAN
    BY ExternalAssumption
  <2>2. PICK up \in RedisAnswers : /\ breaker' = [breaker EXCEPT ![Agent(c)] = @ \/ up]
                                   /\ lapsed' = [lapsed EXCEPT ![Agent(c)] = @ \/ ~up]
    BY Zenon DEF OpenBreaker
  <2> QED
    BY <1>1, <2>1, <2>2, Zenon
<1>6. breaker \in [Agents -> BOOLEAN] /\ lapsed \in [Agents -> BOOLEAN]
  BY DEF IInv, RedisTyped
<1>7. /\ breaker'[a] = (breaker[a] \/ up) /\ lapsed'[a] = (lapsed[a] \/ ~up)
      /\ \A b \in Agents \ {a} : breaker'[b] = breaker[b] /\ lapsed'[b] = lapsed[b]
  BY <1>1, <1>5, <1>6
<1>8. RedisTyped'
  <2>1. (breaker[a] \/ up) \in BOOLEAN /\ (lapsed[a] \/ ~up) \in BOOLEAN
    OBVIOUS
  <2>2. breaker' \in [Agents -> BOOLEAN] /\ lapsed' \in [Agents -> BOOLEAN]
    BY <1>5, <1>6, <2>1
  <2> QED
    BY <1>1, <2>2 DEF IInv, RedisTyped
<1>9. CountedIsRun'
  BY <1>1 DEF IInv, BreakerInv, CountedIsRun
<1>10. OpenIsEarned'
  BY <1>1, <1>7 DEF IInv, BreakerInv, OpenIsEarned, OpenersSawThreshold
<1>11. OpenersSawThreshold'
  BY <1>1, <1>4, <1>4a DEF IInv, BreakerInv, OpenersSawThreshold
<1>12. EnoughFailuresOpen'
  <2> SUFFICES ASSUME NEW b \in Agents
               PROVE  \/ fails'[b] < BREAKER_THRESHOLD \/ lapsed'[b] \/ breaker'[b]
                      \/ \E d \in Callers : call'[d].pc = "open" /\ call'[d].agent = b
    BY DEF EnoughFailuresOpen, At, Agent
  <2>1. CASE b = a
    BY <1>7, <2>1
  <2>2. CASE b # a
    <3>1. \/ fails[b] < BREAKER_THRESHOLD \/ lapsed[b] \/ breaker[b]
          \/ \E d \in Callers : call[d].pc = "open" /\ call[d].agent = b
      BY DEF IInv, BreakerInv, EnoughFailuresOpen, At, Agent
    <3>2. \A d \in Callers : call[d].agent = b => call'[d] = call[d]
      BY <1>4, <2>2
    <3> QED
      BY <1>1, <1>7, <2>2, <3>1, <3>2
  <2> QED
    BY <2>1, <2>2
<1> QED
  BY <1>3, <1>8, <1>9, <1>10, <1>11, <1>12 DEF IInv, BreakerInv

\* A caller that dies before SET NX leaves the breaker as if it had lapsed.
LEMMA CrashKeepsInv ==
  ASSUME IInv, NEW c \in Callers, Crash(c)
  PROVE  IInv'
<1>1. /\ call \in [Callers -> CallRecords] /\ call' = [call EXCEPT ![c] = Idle]
      /\ UNCHANGED <<fails, breaker, run, raced>> /\ Rollback(c)
  BY Caller DEF Crash
<1>2. calls' \in 0 .. MaxCalls
  BY Caller, ExternalAssumption DEF Crash
<1>3. CallsInv'
  BY <1>1, <1>2, IdleTyped, OneCallMoves DEF IInv
<1>4. DbInv'
  BY <1>1, Caller, RollbackKeepsDb
<1>5. /\ \A d \in Callers \ {c} : call'[d] = call[d]
      /\ call'[c].pc = "idle"
  BY <1>1, IdleTyped
<1> DEFINE L(a) == lapsed[a] \/ (At(c, "open") /\ Agent(c) = a)
<1>6. lapsed' = [a \in Agents |-> L(a)]
  BY DEF Crash
<1>7. \A a \in Agents : L(a) \in BOOLEAN /\ (L(a) <=> lapsed[a] \/ (call[c].pc = "open" /\ call[c].agent = a))
  BY DEF At, Agent
<1> HIDE DEF L
<1>8. RedisTyped'
  BY <1>1, <1>6, <1>7 DEF IInv, RedisTyped
<1>9. CountedIsRun' /\ OpenIsEarned'
  BY <1>1 DEF IInv, BreakerInv, CountedIsRun, OpenIsEarned
<1>10. OpenersSawThreshold'
  BY <1>1, <1>5 DEF IInv, BreakerInv, OpenersSawThreshold
<1>11. EnoughFailuresOpen'
  <2> SUFFICES ASSUME NEW b \in Agents
               PROVE  \/ fails'[b] < BREAKER_THRESHOLD \/ lapsed'[b] \/ breaker'[b]
                      \/ \E d \in Callers : call'[d].pc = "open" /\ call'[d].agent = b
    BY DEF EnoughFailuresOpen, At, Agent
  <2>1. \/ fails[b] < BREAKER_THRESHOLD \/ lapsed[b] \/ breaker[b]
        \/ \E d \in Callers : call[d].pc = "open" /\ call[d].agent = b
    BY DEF IInv, BreakerInv, EnoughFailuresOpen, At, Agent
  <2>2. lapsed'[b] <=> lapsed[b] \/ (call[c].pc = "open" /\ call[c].agent = b)
    BY <1>6, <1>7
  <2> QED
    BY <1>1, <1>5, <2>1, <2>2
<1> QED
  BY <1>3, <1>4, <1>8, <1>9, <1>10, <1>11 DEF IInv, BreakerInv

\* The key of an open breaker expires.
LEMMA BreakerLapseKeepsInv ==
  ASSUME IInv, NEW a \in Agents, BreakerLapses(a)
  PROVE  IInv'
<1> USE DEF IInv, BreakerLapses
<1>1. CallsInv' /\ DbInv'
  BY DbStays DEF CallsInv, CallsTyped, CallersCall
<1>2. RedisTyped'
  BY DEF RedisTyped
<1>3. CountedIsRun' /\ OpenersSawThreshold'
  BY DEF BreakerInv, CountedIsRun, OpenersSawThreshold
<1>4. OpenIsEarned'
  BY DEF BreakerInv, OpenIsEarned, RedisTyped
<1>5. EnoughFailuresOpen'
  BY DEF BreakerInv, EnoughFailuresOpen, RedisTyped, At, Agent
<1> QED
  BY <1>1, <1>2, <1>3, <1>4, <1>5 DEF BreakerInv

\* The key of a counter expires.
LEMMA CounterLapseKeepsInv ==
  ASSUME IInv, NEW a \in Agents, CounterLapses(a)
  PROVE  IInv'
<1> USE DEF IInv, CounterLapses
<1>1. CallsInv' /\ DbInv'
  BY DbStays DEF CallsInv, CallsTyped, CallersCall
<1>2. RedisTyped'
  BY DEF RedisTyped
<1>3. OpenIsEarned' /\ OpenersSawThreshold'
  BY DEF BreakerInv, OpenIsEarned, OpenersSawThreshold
<1>4. CountedIsRun'
  BY DEF BreakerInv, CountedIsRun, RedisTyped
<1>5. EnoughFailuresOpen'
  BY ExternalAssumption DEF BreakerInv, EnoughFailuresOpen, RedisTyped, At, Agent
<1> QED
  BY <1>1, <1>2, <1>3, <1>4, <1>5 DEF BreakerInv

-----------------------------------------------------------------------------

\* No call, no failure, and every breaker closed.
LEMMA InitEstablishes == Init => IInv
<1> SUFFICES ASSUME Init PROVE IInv
  OBVIOUS
<1> USE DEF Init
<1>1. None \notin Callers /\ BREAKER_THRESHOLD \in Nat \ {0} /\ MaxCalls \in Nat
  BY ExternalAssumption
<1>2. RedisTyped /\ DbInv
  BY <1>1 DEF RedisTyped, DbInv, DbTyped, LocksAreLoaded, Marks
<1>3. CallsInv
  BY <1>1, IdleTyped DEF CallsInv, CallsTyped, CallersCall
<1>4. CountedIsRun /\ OpenersSawThreshold /\ OpenIsEarned /\ EnoughFailuresOpen
  BY <1>1, IdleTyped DEF CountedIsRun, OpenersSawThreshold, OpenIsEarned, EnoughFailuresOpen
<1> QED
  BY <1>2, <1>3, <1>4 DEF IInv, BreakerInv

\* Every step of the calls and of the keys keeps the invariant.
LEMMA StepPreserves == IInv /\ [Next]_vars => IInv'
<1> SUFFICES ASSUME IInv, [Next]_vars PROVE IInv'
  OBVIOUS
<1>1. CASE UNCHANGED vars
  <2> USE <1>1 DEF vars, IInv
  <2>1. RedisTyped' /\ DbInv'
    BY DEF RedisTyped, DbInv, DbTyped, LocksAreLoaded
  <2>2. CallsInv'
    BY DEF CallsInv, CallsTyped, CallersCall
  <2>3. BreakerInv'
    BY DEF BreakerInv, CountedIsRun, OpenersSawThreshold, OpenIsEarned, EnoughFailuresOpen, At, Agent
  <2> QED
    BY <2>1, <2>2, <2>3
<1>2. ASSUME NEW c \in Callers, Step(c) PROVE IInv'
  BY <1>2, CheckKeepsInv, DispatchKeepsInv, MarkOnlineKeepsInv, DeleteKeepsInv, CountKeepsInv,
     OpenKeepsInv, MarkFailedKeepsInv, EndKeepsInv, DeadlockKeepsInv DEF Step
<1> QED
  BY <1>1, <1>2, CrashKeepsInv, BeginKeepsInv, BreakerLapseKeepsInv, CounterLapseKeepsInv,
     OverwriteKeepsInv DEF Next

-----------------------------------------------------------------------------

\* The inductive invariant, for any callers, agents and thresholds.
THEOREM BreakerInvariant == Spec => []IInv
<1> QED
  BY InitEstablishes, StepPreserves, PTL DEF Spec

\* Every variable keeps its type.
THEOREM TypeCorrect == Spec => []TypeOK
<1>1. IInv => TypeOK
  BY TypeParts DEF IInv, DbInv, CallsInv
<1> QED
  BY <1>1, BreakerInvariant, PTL

\* The breaker of an agent opens only on BREAKER_THRESHOLD failures in a row,
\* however calls overlap, die, and meet a Redis that does not answer.
THEOREM BreakersAreEarned == Spec => []OpenIsEarned
<1>1. IInv => OpenIsEarned
  BY DEF IInv, BreakerInv
<1> QED
  BY <1>1, BreakerInvariant, PTL

\* A count at the threshold means an open breaker, one that lapsed since, or
\* a caller about to open it.
THEOREM EnoughFailuresTrip == Spec => []EnoughFailuresOpen
<1>1. IInv => EnoughFailuresOpen
  BY DEF IInv, BreakerInv
<1> QED
  BY <1>1, BreakerInvariant, PTL

-----------------------------------------------------------------------------
(* What the registry shows, and what the log tells                         *)

\* The status that the row of a will have: the one flushed, if one was.
Effective(a) == IF lock[a] = None THEN status[a] ELSE sess[lock[a]][a]

\* Caller c is about to mark agent a as failed, or to close its breaker.
Settles(c, a) == call[c].agent = a /\ call[c].pc \in {"mark_error", "delete"}

\* What the registry shows of a is not what the calls decided.
Excused(a) == lost[a] \/ (lock[a] = None /\ rewritten[a])

OpenIsHidden ==
  \A a \in Agents :
    breaker[a] /\ ~Excused(a) => Effective(a) \notin Offered \/ \E c \in Callers : Settles(c, a)

IdleHoldsNothing == \A c \in Callers : call[c].pc = "idle" => \A a \in Agents : lock[a] # c

\* One row for each agent that is done with, written or not, and none for
\* the one being called.  A session fails only where the call ends.
LogOK(r) ==
  LET success == <<r.depth, r.agent, "success">> IN
  /\ r.poisoned => r.pc = "end"
  /\ r.pc = "idle" => r.answers = 0
  /\ r.pc \notin {"idle", "end"} =>
       /\ IsFiniteSet(r.log) /\ Cardinality(r.log) + r.missing = r.depth
       /\ r.result = "none" /\ \A row \in r.log : row[1] < r.depth
       /\ r.answers = IF r.pc \in {"mark_online", "delete"} THEN 1 ELSE 0
  /\ r.pc = "end" =>
       /\ Cardinality(r.log) + r.missing = r.depth + 1
       /\ r.answers <= 1 /\ (r.result = "ok" <=> r.answers = 1 /\ ~r.poisoned)
       /\ success \in r.log => r.result = "ok"
       /\ r.result = "ok" /\ r.missing = 0 => success \in r.log

TellInv ==
  /\ OpenIsHidden /\ IdleHoldsNothing
  /\ \A c \in Callers : LogOK(call[c])

\* A commit makes the row what it was going to be.
LEMMA CommitShows ==
  ASSUME DbInv, NEW c \in Callers, NEW used, Commit(c, used)
  PROVE  \A a \in Agents : /\ Effective(a)' = Effective(a) /\ (Excused(a)' <=> Excused(a))
                            /\ lock'[a] # c
                            /\ \A d \in Callers : lock'[a] = d => lock[a] = d
<1>1. None \notin Callers
  BY ExternalAssumption
<1> SUFFICES ASSUME NEW a \in Agents
             PROVE  /\ Effective(a)' = Effective(a) /\ (Excused(a)' <=> Excused(a))
                    /\ lock'[a] # c
                    /\ \A d \in Callers : lock'[a] = d => lock[a] = d
  OBVIOUS
<1>2. /\ lock'[a] = IF lock[a] = c THEN None ELSE lock[a]
      /\ status'[a] = IF lock[a] = c THEN sess[c][a] ELSE status[a]
      /\ \A d \in Callers \ {c} : sess'[d] = sess[d]
      /\ lock[a] \in Callers \cup {None}
  BY DEF Commit, Committed, Released, DbInv, DbTyped
<1>3. lost' = lost /\ (rewritten'[a] <=> rewritten[a] /\ lock[a] # c)
  BY DEF Commit
<1>4. Effective(a)' = Effective(a)
  BY <1>1, <1>2 DEF Effective
<1>5. Excused(a)' <=> Excused(a)
  BY <1>1, <1>2, <1>3 DEF Excused
<1> QED
  BY <1>1, <1>2, <1>4, <1>5

\* A rollback loses what was flushed, and the mark that was being made.
LEMMA RollbackLoses ==
  ASSUME DbInv, NEW c \in Callers, Rollback(c)
  PROVE  \A a \in Agents :
           /\ call[c].agent = a /\ call[c].pc # "end" => lost'[a]
           /\ lost'[a] \/ (Effective(a)' = Effective(a) /\ (Excused(a) => Excused(a)'))
           /\ lock'[a] # c
           /\ \A d \in Callers : lock'[a] = d => lock[a] = d
<1>1. None \notin Callers
  BY ExternalAssumption
<1> SUFFICES ASSUME NEW a \in Agents
             PROVE  /\ call[c].agent = a /\ call[c].pc # "end" => lost'[a]
                    /\ lost'[a] \/ (Effective(a)' = Effective(a) /\ (Excused(a) => Excused(a)'))
                    /\ lock'[a] # c
                    /\ \A d \in Callers : lock'[a] = d => lock[a] = d
  OBVIOUS
<1>2. /\ lock'[a] = IF lock[a] = c THEN None ELSE lock[a]
      /\ status'[a] = status[a] /\ rewritten' = rewritten
      /\ \A d \in Callers \ {c} : sess'[d] = sess[d]
      /\ lock[a] \in Callers \cup {None}
  BY DEF Rollback, Released, DbInv, DbTyped
<1>3. lost'[a] <=> lost[a] \/ lock[a] = c \/ (call[c].agent = a /\ call[c].pc # "end")
  BY DEF Rollback, Agent, At
<1>4. lost'[a] \/ Effective(a)' = Effective(a)
  BY <1>1, <1>2, <1>3 DEF Effective
<1>5. Excused(a) => Excused(a)'
  BY <1>2, <1>3 DEF Excused
<1> QED
  BY <1>1, <1>2, <1>3, <1>4, <1>5

\* A mark will be the row's status, or is lost; no other row changes.
LEMMA MarkShows ==
  ASSUME DbInv, NEW c \in Callers, Agent(c) \in Agents, NEW s \in Marks,
         NEW next \in Agents, Mark(c, s, next)
  PROVE  /\ \A a \in Agents : a = Agent(c) => lost'[a] \/ Effective(a)' = s
         /\ \A a \in Agents \ {Agent(c)} :
              Effective(a)' = Effective(a) /\ (Excused(a) => Excused(a)')
         /\ \A a \in Agents : \A d \in Callers : lock'[a] = d => lock[a] = d \/ d = c
<1>0. PICK m \in Agents : m = Agent(c)
  OBVIOUS
<1>1. None \notin Callers /\ m \in Agents
  BY ExternalAssumption
<1>2. \/ lock' = lock
      \/ lock' = [lock EXCEPT ![m] = c]
  BY <1>0 DEF Mark
<1>3. /\ lock \in [Agents -> Callers \cup {None}] /\ lost \in [Agents -> BOOLEAN]
      /\ \A a \in Agents : lock[a] = c => sess[c][a] \in Marks
  BY DEF DbInv, DbTyped, LocksAreLoaded
<1>4. /\ status' = status /\ rewritten' = rewritten
      /\ sess'[c][m] = s
      /\ \A d \in Callers \ {c} : sess'[d] = sess[d]
      /\ \A b \in Agents \ {m} : sess[c][b] \in Marks => sess'[c][b] = sess[c][b]
  BY <1>0, MarkLoads
<1> DEFINE x == (lock[m] # c /\ status[m] # s) \/ lock[m] \notin {None, c}
<1>5. ~x => lock[m] = c \/ (lock[m] = None /\ status[m] = s)
  OBVIOUS
<1>6. \/ sess[c][m] = s /\ lock' = lock /\ lost' = [lost EXCEPT ![m] = @ \/ x]
      \/ lock' = [lock EXCEPT ![m] = c] /\ lost' = lost
  <2>1. CASE sess[c][m] = s
    <3>1. /\ lock' = lock
          /\ lost' = [lost EXCEPT ![m] = @ \/ (lock[m] # c /\ status[m] # s)
                                           \/ lock[m] \notin {None, c}]
      BY <1>0, <2>1 DEF Mark
    <3> QED
      BY <2>1, <3>1, Zenon
  <2>2. CASE sess[c][m] # s
    BY <1>0, <2>2 DEF Mark
  <2> QED
    BY <2>1, <2>2
<1> HIDE DEF x
<1>7. \A a \in Agents \ {m} : lost'[a] = lost[a] /\ lock'[a] = lock[a]
  BY <1>3, <1>6
<1>8. ASSUME NEW a \in Agents \ {m}
      PROVE  Effective(a)' = Effective(a) /\ (Excused(a) => Excused(a)')
  <2>1. lock[a] \in Callers \cup {None} /\ (lock[a] = c => sess'[c][a] = sess[c][a])
    BY <1>3, <1>4
  <2> QED
    BY <1>4, <1>7, <2>1 DEF Effective, Excused
<1>9. \A a \in Agents : \A d \in Callers : lock'[a] = d => lock[a] = d \/ d = c
  BY <1>1, <1>2, <1>3
<1>10. lost'[m] \/ Effective(m)' = s
  <2>1. CASE sess[c][m] = s /\ lock' = lock /\ lost' = [lost EXCEPT ![m] = @ \/ x]
    <3>1. lost'[m] <=> lost[m] \/ x
      BY <1>3, <2>1
    <3>2. ~x => Effective(m)' = s
      BY <1>1, <1>4, <1>5, <2>1 DEF Effective
    <3> QED
      BY <3>1, <3>2
  <2>2. CASE lock' = [lock EXCEPT ![m] = c] /\ lost' = lost
    <3>1. lock'[m] = c
      BY <1>3, <2>2
    <3> QED
      BY <1>1, <1>4, <3>1 DEF Effective
  <2> QED
    BY <1>6, <2>1, <2>2
<1> QED
  BY <1>0, <1>8, <1>9, <1>10

\* One call moves on to the record r, and every open agent stays accounted for.
LEMMA MoveTells ==
  ASSUME IInv, TellInv, NEW c \in Callers, NEW r \in CallRecords,
         call' = [call EXCEPT ![c] = r],
         \A a \in Agents :
           \/ Excused(a)' \/ ~breaker'[a] \/ Effective(a)' \notin Offered
           \/ r.agent = a /\ r.pc \in {"mark_error", "delete"}
           \/ breaker[a] /\ ~Settles(c, a) /\ ~Excused(a) /\ Effective(a)' = Effective(a),
         \A a \in Agents : \A d \in Callers : lock'[a] = d => lock[a] = d \/ d = c,
         r.pc = "idle" => \A a \in Agents : lock'[a] # c,
         LogOK(r)
  PROVE  TellInv'
<1>1. call'[c] = r /\ \A d \in Callers \ {c} : call'[d] = call[d]
  BY Caller
<1>2. OpenIsHidden'
  <2> SUFFICES ASSUME NEW a \in Agents, breaker'[a], ~Excused(a)', Effective(a)' \in Offered
               PROVE  \E d \in Callers : Settles(d, a)'
    BY DEF OpenIsHidden, Offered
  <2>1. CASE r.agent = a /\ r.pc \in {"mark_error", "delete"}
    BY <1>1, <2>1 DEF Settles
  <2>2. CASE breaker[a] /\ ~Settles(c, a) /\ ~Excused(a) /\ Effective(a)' = Effective(a)
    <3>1. PICK d \in Callers : Settles(d, a)
      BY <2>2 DEF TellInv, OpenIsHidden
    <3>2. call'[d] = call[d]
      BY <1>1, <2>2, <3>1
    <3> QED
      BY <3>1, <3>2 DEF Settles
  <2> QED
    BY <2>1, <2>2
<1>3. IdleHoldsNothing'
  BY <1>1 DEF TellInv, IdleHoldsNothing
<1>4. \A d \in Callers : LogOK(call'[d])
  BY <1>1 DEF TellInv
<1> QED
  BY <1>2, <1>3, <1>4 DEF TellInv, LogOK

\* A call goes on, and nothing is written.
LEMMA QuietTells ==
  ASSUME IInv, TellInv, NEW c \in Callers, NEW r \in CallRecords,
         call' = [call EXCEPT ![c] = r], UNCHANGED db, UNCHANGED breaker,
         call[c].pc \notin {"idle", "mark_error", "delete"}, r.pc # "idle", LogOK(r)
  PROVE  TellInv'
<1>1. \A a \in Agents : /\ lock'[a] = lock[a] /\ breaker'[a] = breaker[a]
                         /\ (Excused(a)' <=> Excused(a))
                         /\ Effective(a)' = Effective(a) /\ ~Settles(c, a)
  BY DEF db, Effective, Excused, Settles
<1>2. \A a \in Agents :
        \/ Excused(a)' \/ ~breaker'[a]
        \/ breaker[a] /\ ~Settles(c, a) /\ ~Excused(a) /\ Effective(a)' = Effective(a)
  BY <1>1
<1>3. \A a \in Agents : \A d \in Callers : lock'[a] = d => lock[a] = d \/ d = c
  BY <1>1
<1> QED
  BY <1>2, <1>3, MoveTells

\* What a row in the log, or a failed attempt to write one, tells.
LEMMA LoggedTells ==
  ASSUME NEW q \in CallRecords, LogOK(q), q.agent \in Agents, q.pc \notin {"idle", "end"},
         NEW what \in Marks \cup {"success"}, NEW kept \in BOOLEAN,
         NEW g, g = Logged(q, what, kept)
  PROVE  /\ g \in CallRecords /\ g.agent = q.agent /\ g.depth = q.depth
         /\ g.answers = q.answers /\ g.result = "none" /\ ~g.poisoned
         /\ IsFiniteSet(g.log) /\ Cardinality(g.log) + g.missing = q.depth + 1
         /\ \A row \in g.log : row[1] <= q.depth
         /\ <<q.depth, q.agent, "success">> \in g.log => what = "success"
         /\ what = "success" /\ g.missing = 0 => <<q.depth, q.agent, "success">> \in g.log
<1> DEFINE row == <<q.depth, q.agent, what>>
           success == <<q.depth, q.agent, "success">>
<1>1. /\ IsFiniteSet(q.log) /\ Cardinality(q.log) + q.missing = q.depth
      /\ \A x \in q.log : x[1] < q.depth
      /\ q.result = "none" /\ ~q.poisoned
  BY DEF LogOK
<1>2. q.depth \in 0 .. 1 /\ q.missing \in Nat /\ q.log \in SUBSET Rows
  BY DEF CallRecords
<1>3. row[1] = q.depth /\ success[1] = q.depth /\ (row = success <=> what = "success")
  OBVIOUS
<1> HIDE DEF row, success
<1>4. row \notin q.log /\ success \notin q.log
  BY <1>1, <1>2, <1>3
<1>5. \A x \in q.log : x[1] <= q.depth
  <2> SUFFICES ASSUME NEW x \in q.log PROVE x[1] <= q.depth
    OBVIOUS
  <2>1. x[1] \in 0 .. 1 /\ x[1] < q.depth
    BY <1>1, <1>2 DEF Rows
  <2> QED
    BY <1>2, <2>1
<1>6. g \in CallRecords /\ g.agent = q.agent
  BY LoggedTyped
<1>7. /\ g.depth = q.depth /\ g.answers = q.answers /\ g.result = "none" /\ ~g.poisoned
  BY <1>1 DEF Logged, CallRecords
<1>8. CASE kept
  <2>1. g.log = q.log \cup {row} /\ g.missing = q.missing
    BY <1>8 DEF Logged, CallRecords, row
  <2>2. /\ IsFiniteSet(q.log \cup {row})
        /\ Cardinality(q.log \cup {row}) = Cardinality(q.log) + 1
    BY <1>1, <1>4, FS_AddElement
  <2>3. Cardinality(q.log) \in Nat
    BY <1>1, FS_CardinalityType
  <2>4. Cardinality(g.log) + g.missing = q.depth + 1
    BY <1>1, <1>2, <2>1, <2>2, <2>3
  <2>5. \A x \in g.log : x[1] <= q.depth
    <3>1. q.depth <= q.depth
      BY <1>2
    <3> QED
      BY <1>3, <1>5, <2>1, <3>1
  <2>6. success \in g.log <=> what = "success"
    BY <1>3, <1>4, <2>1
  <2> QED
    BY <1>6, <1>7, <2>1, <2>2, <2>4, <2>5, <2>6 DEF success
<1>9. CASE ~kept
  <2>1. g.log = q.log /\ g.missing = q.missing + 1
    BY <1>9 DEF Logged, CallRecords
  <2>2. Cardinality(q.log) \in Nat
    BY <1>1, FS_CardinalityType
  <2>3. Cardinality(g.log) + g.missing = q.depth + 1 /\ g.missing # 0
    BY <1>1, <1>2, <2>1, <2>2
  <2> QED
    BY <1>1, <1>4, <1>5, <1>6, <1>7, <2>1, <2>3 DEF success
<1> QED
  BY <1>8, <1>9

\* Another attempt, or the end of them, is no row in the log.
LEMMA NextAttemptTells ==
  ASSUME NEW r \in CallRecords, LogOK(r), r.pc = "dispatch"
  PROVE  /\ LogOK(NextAttempt(r)) /\ NextAttempt(r).pc \in {"dispatch", "count"}
<1>1. /\ NextAttempt(r).pc \in {"dispatch", "count"} /\ NextAttempt(r).agent = r.agent
      /\ NextAttempt(r).poisoned = r.poisoned /\ NextAttempt(r).log = r.log
      /\ NextAttempt(r).depth = r.depth /\ NextAttempt(r).result = r.result
      /\ NextAttempt(r).answers = r.answers /\ NextAttempt(r).missing = r.missing
  BY DEF NextAttempt, CallRecords
<1> HIDE DEF NextAttempt
<1> QED
  BY <1>1 DEF LogOK

-----------------------------------------------------------------------------

\* A call begins.
LEMMA BeginTells ==
  ASSUME IInv, TellInv, NEW c \in Callers, NEW a \in Agents, Begin(c, a)
  PROVE  TellInv'
<1> DEFINE r == [Idle EXCEPT !.pc = "check", !.agent = a]
<1>1. r \in CallRecords /\ r.agent = a /\ r.pc = "check" /\ ~r.poisoned /\ r.depth = 0
      /\ r.log = {} /\ r.missing = 0 /\ r.answers = 0 /\ r.result = "none"
  BY IdleTyped DEF CallRecords, PCs, Idle
<1>2. /\ call' = [call EXCEPT ![c] = r] /\ call[c].pc = "idle"
      /\ UNCHANGED <<status, lock, rewritten, lost, breaker>>
  BY DEF Begin, At, redis
<1> HIDE DEF r
<1>3. LogOK(r)
  BY <1>1, FS_EmptySet DEF LogOK
<1>4. \A b \in Agents : lock[b] # c
  BY <1>2 DEF TellInv, IdleHoldsNothing
<1>5. \A d \in Callers \ {c} : sess'[d] = sess[d]
  BY Caller DEF Begin, DbInv, DbTyped
<1>6. \A b \in Agents : Effective(b)' = Effective(b) /\ ~Settles(c, b)
  BY <1>2, <1>4, <1>5, Caller DEF Effective, Settles, DbInv, DbTyped
<1>7. \A b \in Agents :
        \/ Excused(b)' \/ ~breaker'[b]
        \/ breaker[b] /\ ~Settles(c, b) /\ ~Excused(b) /\ Effective(b)' = Effective(b)
  BY <1>2, <1>6 DEF Excused
<1> QED
  BY <1>1, <1>2, <1>3, <1>7, MoveTells

\* The breaker is read; nothing is written.
LEMMA CheckTells ==
  ASSUME IInv, TellInv, NEW c \in Callers, CheckBreaker(c)
  PROVE  TellInv'
<1>1. PICK pc \in {"mark_open", "dispatch"} : Go(c, pc)
  BY DEF CheckBreaker
<1> DEFINE r == [call[c] EXCEPT !.pc = pc]
<1>2. call[c] \in CallRecords /\ call[c].pc = "check" /\ LogOK(call[c])
  BY Caller DEF CheckBreaker, At, TellInv
<1>3. /\ r \in CallRecords /\ r.agent = call[c].agent /\ r.pc = pc
      /\ r.poisoned = call[c].poisoned /\ r.log = call[c].log /\ r.depth = call[c].depth
      /\ r.result = call[c].result /\ r.answers = call[c].answers
      /\ r.missing = call[c].missing
  BY <1>2 DEF CallRecords, PCs
<1>4. call' = [call EXCEPT ![c] = r]
  BY <1>1 DEF Go
<1> HIDE DEF r
<1>5. LogOK(r)
  BY <1>2, <1>3 DEF LogOK
<1>6. UNCHANGED db /\ UNCHANGED breaker
  BY DEF CheckBreaker, redis
<1> QED
  BY <1>2, <1>3, <1>4, <1>5, <1>6, QuietTells

\* The agent answers or not, and what was flushed may be committed.
LEMMA DispatchTells ==
  ASSUME IInv, TellInv, NEW c \in Callers, NEW o \in {"ok", "fail", "refused"}, Dispatch(c, o)
  PROVE  TellInv'
<1>1. call[c] \in CallRecords /\ call[c].pc = "dispatch" /\ LogOK(call[c])
  BY Caller DEF Dispatch, At, TellInv
<1> DEFINE r == Dispatched(call[c], o)
<1>2. r \in CallRecords /\ LogOK(r) /\ r.pc # "idle"
  <2>1. CASE o = "fail"
    BY <1>1, <2>1, NextAttemptTells, NextAttemptTyped, Caller DEF Dispatched
  <2>2. CASE o = "ok"
    <3>1. r = [call[c] EXCEPT !.pc = "mark_online", !.answers = @ + 1]
      BY <2>2 DEF Dispatched
    <3>2. call[c].answers + 1 \in Nat
      BY <1>1 DEF CallRecords
    <3>3. /\ r \in CallRecords /\ r.agent = call[c].agent /\ r.pc = "mark_online"
          /\ r.poisoned = call[c].poisoned /\ r.log = call[c].log /\ r.depth = call[c].depth
          /\ r.result = call[c].result /\ r.answers = call[c].answers + 1
          /\ r.missing = call[c].missing
      BY <1>1, <3>1, <3>2 DEF CallRecords, PCs
    <3> HIDE DEF r
    <3> QED
      BY <1>1, <3>3 DEF LogOK
  <2>3. CASE o = "refused"
    <3>1. r = [call[c] EXCEPT !.attempt = 1, !.pc = "count"]
      BY <2>3 DEF Dispatched
    <3>2. 1 \in 1 .. MAX_ATTEMPTS
      BY ExternalAssumption
    <3>3. /\ r \in CallRecords /\ r.agent = call[c].agent /\ r.pc = "count"
          /\ r.poisoned = call[c].poisoned /\ r.log = call[c].log /\ r.depth = call[c].depth
          /\ r.result = call[c].result /\ r.answers = call[c].answers
          /\ r.missing = call[c].missing
      BY <1>1, <3>1, <3>2 DEF CallRecords, PCs
    <3> HIDE DEF r
    <3> QED
      BY <1>1, <3>3 DEF LogOK
  <2> QED
    BY <2>1, <2>2, <2>3
<1>3. call' = [call EXCEPT ![c] = r] /\ UNCHANGED breaker
  BY DEF Dispatch, redis
<1> HIDE DEF r
<1>4. CASE UNCHANGED db
  BY <1>1, <1>2, <1>3, <1>4, QuietTells
<1>5. CASE Commit(c, {Agent(c)})
  <2>1. \A a \in Agents : /\ Effective(a)' = Effective(a) /\ (Excused(a)' <=> Excused(a))
                           /\ lock'[a] # c
                           /\ \A d \in Callers : lock'[a] = d => lock[a] = d
    BY <1>5, Caller, CommitShows
  <2>2. \A a \in Agents : ~Settles(c, a)
    BY <1>1 DEF Settles
  <2>3. \A a \in Agents :
          \/ Excused(a)' \/ ~breaker'[a]
          \/ breaker[a] /\ ~Settles(c, a) /\ ~Excused(a) /\ Effective(a)' = Effective(a)
    BY <1>3, <2>1, <2>2
  <2> QED
    BY <1>2, <1>3, <2>1, <2>3, MoveTells
<1> QED
  BY <1>4, <1>5 DEF Dispatch

\* An agent that answered is online again; its breaker is deleted next.
LEMMA MarkOnlineTells ==
  ASSUME IInv, TellInv, NEW c \in Callers, MarkOnline(c)
  PROVE  TellInv'
<1>1. /\ call[c] \in CallRecords /\ call[c].pc = "mark_online" /\ LogOK(call[c])
      /\ call[c].agent \in Agents /\ UNCHANGED breaker
  BY Caller DEF MarkOnline, At, TellInv, redis
<1> DEFINE r == [call[c] EXCEPT !.pc = "delete"]
<1>2. call' = [call EXCEPT ![c] = r] /\ Mark(c, "online", Agent(c))
  BY DEF MarkOnline, Go
<1>3. /\ r \in CallRecords /\ r.agent = call[c].agent /\ r.pc = "delete"
      /\ r.poisoned = call[c].poisoned /\ r.log = call[c].log /\ r.depth = call[c].depth
      /\ r.result = call[c].result /\ r.answers = call[c].answers
      /\ r.missing = call[c].missing
  BY <1>1 DEF CallRecords, PCs
<1> HIDE DEF r
<1>4. LogOK(r)
  BY <1>1, <1>3 DEF LogOK
<1>5. Agent(c) = call[c].agent /\ "online" \in Marks /\ Agent(c) \in Agents
  BY <1>1 DEF Agent, Marks
<1>6. /\ \A a \in Agents \ {Agent(c)} :
           Effective(a)' = Effective(a) /\ (Excused(a) => Excused(a)')
      /\ \A a \in Agents : \A d \in Callers : lock'[a] = d => lock[a] = d \/ d = c
  BY <1>2, <1>5, Caller, MarkShows
<1>7. \A a \in Agents : ~Settles(c, a) /\ breaker'[a] = breaker[a]
  BY <1>1 DEF Settles
<1>8. \A a \in Agents :
        \/ Excused(a)' \/ ~breaker'[a]
        \/ r.agent = a /\ r.pc \in {"mark_error", "delete"}
        \/ breaker[a] /\ ~Settles(c, a) /\ ~Excused(a) /\ Effective(a)' = Effective(a)
  BY <1>3, <1>5, <1>6, <1>7
<1> QED
  BY <1>2, <1>3, <1>4, <1>6, <1>8, MoveTells

\* A failure is counted; the rows stay as they are.
LEMMA CountTells ==
  ASSUME IInv, TellInv, NEW c \in Callers, CountFailure(c)
  PROVE  TellInv'
<1>1. /\ call[c] \in CallRecords /\ call[c].pc = "count" /\ LogOK(call[c])
      /\ UNCHANGED db /\ UNCHANGED breaker
  BY Caller DEF CountFailure, At, TellInv
<1>2. PICK pc \in {"open", "mark_error"} : Go(c, pc)
  BY DEF CountFailure
<1> DEFINE r == [call[c] EXCEPT !.pc = pc]
<1>3. /\ r \in CallRecords /\ r.agent = call[c].agent /\ r.pc = pc
      /\ r.poisoned = call[c].poisoned /\ r.log = call[c].log /\ r.depth = call[c].depth
      /\ r.result = call[c].result /\ r.answers = call[c].answers
      /\ r.missing = call[c].missing
  BY <1>1 DEF CallRecords, PCs
<1>4. call' = [call EXCEPT ![c] = r]
  BY <1>2 DEF Go
<1> HIDE DEF r
<1>5. LogOK(r)
  BY <1>1, <1>3 DEF LogOK
<1> QED
  BY <1>1, <1>3, <1>4, <1>5, QuietTells

\* Who opens a breaker marks the agent next.
LEMMA OpenTells ==
  ASSUME IInv, TellInv, NEW c \in Callers, OpenBreaker(c)
  PROVE  TellInv'
<1>1. /\ call[c] \in CallRecords /\ call[c].pc = "open" /\ LogOK(call[c])
      /\ call[c].agent \in Agents /\ UNCHANGED db
  BY Caller DEF OpenBreaker, At, TellInv
<1> DEFINE r == [call[c] EXCEPT !.pc = "mark_error"]
<1>2. /\ r \in CallRecords /\ r.agent = call[c].agent /\ r.pc = "mark_error"
      /\ r.poisoned = call[c].poisoned /\ r.log = call[c].log /\ r.depth = call[c].depth
      /\ r.result = call[c].result /\ r.answers = call[c].answers
      /\ r.missing = call[c].missing
  BY <1>1 DEF CallRecords, PCs
<1>3. call' = [call EXCEPT ![c] = r]
  BY DEF OpenBreaker, Go
<1> HIDE DEF r
<1>4. LogOK(r)
  BY <1>1, <1>2 DEF LogOK
<1>5. \A a \in Agents \ {call[c].agent} : breaker'[a] = breaker[a]
  BY DEF OpenBreaker, Agent, IInv, RedisTyped
<1>6. \A a \in Agents : /\ lock'[a] = lock[a] /\ (Excused(a)' <=> Excused(a))
                         /\ Effective(a)' = Effective(a) /\ ~Settles(c, a)
  BY <1>1 DEF db, Effective, Excused, Settles
<1>7. \A a \in Agents :
        \/ Excused(a)' \/ ~breaker'[a]
        \/ r.agent = a /\ r.pc \in {"mark_error", "delete"}
        \/ breaker[a] /\ ~Settles(c, a) /\ ~Excused(a) /\ Effective(a)' = Effective(a)
  BY <1>2, <1>5, <1>6
<1>8. \A a \in Agents : \A d \in Callers : lock'[a] = d => lock[a] = d \/ d = c
  BY <1>6
<1> QED
  BY <1>2, <1>3, <1>4, <1>7, <1>8, MoveTells

\* A success closes the breaker, or is lost, and the call is over.
LEMMA DeleteTells ==
  ASSUME IInv, TellInv, NEW c \in Callers, DeleteKeys(c)
  PROVE  TellInv'
<1>1. /\ call[c] \in CallRecords /\ call[c].pc = "delete" /\ LogOK(call[c])
      /\ call[c].agent \in Agents /\ UNCHANGED <<status, lock, sess, rewritten>>
  BY Caller DEF DeleteKeys, At, TellInv
<1>2. PICK kept \in BOOLEAN : call' = [call EXCEPT ![c] = Answered(call[c], kept)]
  BY DEF DeleteKeys
<1> DEFINE g == Logged(call[c], "success", kept)
           r == Answered(call[c], kept)
<1>3. /\ g \in CallRecords /\ g.agent = call[c].agent /\ g.depth = call[c].depth
      /\ g.answers = call[c].answers /\ g.result = "none" /\ ~g.poisoned
      /\ IsFiniteSet(g.log) /\ Cardinality(g.log) + g.missing = call[c].depth + 1
      /\ \A row \in g.log : row[1] <= call[c].depth
      /\ <<call[c].depth, call[c].agent, "success">> \in g.log => "success" = "success"
      /\ "success" = "success" /\ g.missing = 0 =>
           <<call[c].depth, call[c].agent, "success">> \in g.log
  <2>1. "success" \in Marks \cup {"success"} /\ call[c].pc \notin {"idle", "end"}
    BY <1>1
  <2> QED
    BY <1>1, <2>1, LoggedTells
<1>4. r = [g EXCEPT !.pc = "end", !.attempt = 1, !.result = "ok"] /\ 1 \in 1 .. MAX_ATTEMPTS
  BY ExternalAssumption DEF Answered
<1> HIDE DEF g, r
<1>5. /\ r \in CallRecords /\ r.agent = g.agent /\ r.pc = "end" /\ r.poisoned = g.poisoned
      /\ r.log = g.log /\ r.depth = g.depth /\ r.result = "ok" /\ r.answers = g.answers
      /\ r.missing = g.missing
  BY <1>3, <1>4 DEF CallRecords, PCs
<1>5a. call[c].answers = 1
  BY <1>1 DEF LogOK
<1>5b. LogOK(r)
  BY <1>3, <1>5, <1>5a DEF LogOK
<1>6. /\ \A a \in Agents : lock'[a] = lock[a] /\ Effective(a)' = Effective(a)
      /\ \A a \in Agents \ {call[c].agent} :
           breaker'[a] = breaker[a] /\ ~Settles(c, a) /\ (Excused(a)' <=> Excused(a))
      /\ lost'[call[c].agent] \/ ~breaker'[call[c].agent]
  <2>1. \/ UNCHANGED lost /\ breaker' = [breaker EXCEPT ![call[c].agent] = FALSE]
        \/ UNCHANGED breaker /\ lost' = [lost EXCEPT ![call[c].agent] = TRUE]
    BY DEF DeleteKeys, Agent, redis
  <2>2. breaker \in [Agents -> BOOLEAN] /\ lost \in [Agents -> BOOLEAN]
    BY DEF IInv, RedisTyped, DbInv, DbTyped
  <2> QED
    BY <1>1, <2>1, <2>2 DEF Effective, Excused, Settles
<1>7. \A a \in Agents :
        \/ Excused(a)' \/ ~breaker'[a]
        \/ breaker[a] /\ ~Settles(c, a) /\ ~Excused(a) /\ Effective(a)' = Effective(a)
  <2> SUFFICES ASSUME NEW a \in Agents, ~Excused(a)', breaker'[a]
               PROVE  breaker[a] /\ ~Settles(c, a) /\ ~Excused(a) /\ Effective(a)' = Effective(a)
    OBVIOUS
  <2>1. a # call[c].agent
    BY <1>6 DEF Excused
  <2>2. breaker'[a] = breaker[a] /\ ~Settles(c, a) /\ (Excused(a)' <=> Excused(a))
    BY <1>6, <2>1
  <2>3. Effective(a)' = Effective(a)
    BY <1>6
  <2> QED
    BY <2>2, <2>3
<1>8. call' = [call EXCEPT ![c] = r]
  BY <1>2 DEF r
<1>9. \A a \in Agents : \A d \in Callers : lock'[a] = d => lock[a] = d \/ d = c
  BY <1>6
<1> QED
  BY <1>5, <1>5b, <1>7, <1>8, <1>9, MoveTells

\* A row for the agent that failed, and the fallback is tried.
LEMMA FallbackTells ==
  ASSUME NEW q \in CallRecords, LogOK(q), q.agent \in Agents,
         q.pc \in {"mark_error", "mark_open"}, NEW s \in Marks, NEW kept \in BOOLEAN,
         NEW r, r = Fallback(Logged(q, s, kept))
  PROVE  LogOK(r) /\ r.pc \in {"check", "end"}
<1> DEFINE g == Logged(q, s, kept)
<1>1. /\ g \in CallRecords /\ g.agent = q.agent /\ g.depth = q.depth
      /\ g.answers = q.answers /\ g.result = "none" /\ ~g.poisoned
      /\ IsFiniteSet(g.log) /\ Cardinality(g.log) + g.missing = q.depth + 1
      /\ \A row \in g.log : row[1] <= q.depth
      /\ <<q.depth, q.agent, "success">> \in g.log => s = "success"
      /\ s = "success" /\ g.missing = 0 => <<q.depth, q.agent, "success">> \in g.log
  <2>1. s \in Marks \cup {"success"} /\ q.pc \notin {"idle", "end"}
    OBVIOUS
  <2> QED
    BY <2>1, LoggedTells
<1>2. q.answers = 0 /\ s # "success" /\ q.depth \in 0 .. 1 /\ g.log \in SUBSET Rows
  BY <1>1 DEF LogOK, Marks, CallRecords
<1>3. r = Fallback(g)
  OBVIOUS
<1> HIDE DEF g
<1>4. CASE FallbackOf[g.agent] # None /\ g.depth = 0
  <2>1. r = [g EXCEPT !.pc = "check", !.agent = FallbackOf[g.agent], !.depth = 1, !.attempt = 1]
    BY <1>3, <1>4 DEF Fallback
  <2>2. /\ r.pc = "check" /\ r.depth = 1 /\ r.log = g.log /\ r.answers = g.answers
        /\ r.result = g.result /\ r.poisoned = g.poisoned /\ r.missing = g.missing
    BY <1>1, <2>1 DEF CallRecords
  <2>3. \A x \in g.log : x[1] < 1
    <3> SUFFICES ASSUME NEW x \in g.log PROVE x[1] < 1
      OBVIOUS
    <3>1. x[1] \in 0 .. 1 /\ x[1] <= q.depth /\ q.depth = 0
      BY <1>1, <1>2, <1>4 DEF Rows
    <3> QED
      BY <3>1
  <2>4. Cardinality(g.log) + g.missing = 1
    <3>1. q.depth = 0
      BY <1>1, <1>4
    <3> QED
      BY <1>1, <3>1
  <2> QED
    BY <1>1, <1>2, <2>2, <2>3, <2>4 DEF LogOK
<1>5. CASE ~(FallbackOf[g.agent] # None /\ g.depth = 0)
  <2>1. r = [g EXCEPT !.pc = "end", !.result = "error"]
    BY <1>3, <1>5 DEF Fallback
  <2>2. /\ r.pc = "end" /\ r.depth = g.depth /\ r.log = g.log /\ r.answers = g.answers
        /\ r.result = "error" /\ r.poisoned = g.poisoned /\ r.agent = g.agent
        /\ r.missing = g.missing
    BY <1>1, <2>1 DEF CallRecords
  <2> QED
    BY <1>1, <1>2, <2>2 DEF LogOK
<1> QED
  BY <1>4, <1>5

\* An agent that failed is not online any more.
LEMMA MarkFailedTells ==
  ASSUME IInv, TellInv, NEW c \in Callers, MarkFailed(c)
  PROVE  TellInv'
<1>1. /\ call[c] \in CallRecords /\ call[c].pc \in {"mark_error", "mark_open"} /\ LogOK(call[c])
      /\ call[c].agent \in Agents /\ Agent(c) = call[c].agent /\ UNCHANGED breaker
  BY Caller DEF MarkFailed, At, TellInv, redis, Agent
<1> DEFINE s == FailedAs(c)
<1>2. s \in Marks /\ s \in Marks \cup {"success"} /\ s \notin Offered
  BY DEF Marks, FailedAs, Offered
<1> HIDE DEF s
<1>3. PICK kept \in BOOLEAN :
        /\ call' = [call EXCEPT ![c] = Fallback(Logged(call[c], s, kept))]
        /\ Mark(c, s, Fallback(Logged(call[c], s, kept)).agent)
  BY DEF MarkFailed, s
<1> DEFINE r == Fallback(Logged(call[c], s, kept))
<1>4. r \in CallRecords /\ r.agent \in Agents
  BY <1>1, <1>2, LoggedTyped, FallbackTyped
<1>5. LogOK(r) /\ r.pc \in {"check", "end"}
  BY <1>1, <1>2, FallbackTells
<1>6. call' = [call EXCEPT ![c] = r] /\ Mark(c, s, r.agent)
  BY <1>3
<1> HIDE DEF r
<1>7. /\ \A a \in Agents : a = Agent(c) => lost'[a] \/ Effective(a)' = s
      /\ \A a \in Agents \ {Agent(c)} :
           Effective(a)' = Effective(a) /\ (Excused(a) => Excused(a)')
      /\ \A a \in Agents : \A d \in Callers : lock'[a] = d => lock[a] = d \/ d = c
  BY <1>1, <1>2, <1>4, <1>6, Caller, MarkShows
<1>8. \A a \in Agents : /\ breaker'[a] = breaker[a] /\ (Settles(c, a) => a = Agent(c))
                         /\ (lost'[a] => Excused(a)')
  BY <1>1 DEF Settles, Excused
<1>9. \A a \in Agents :
        \/ Excused(a)' \/ ~breaker'[a] \/ Effective(a)' \notin Offered
        \/ breaker[a] /\ ~Settles(c, a) /\ ~Excused(a) /\ Effective(a)' = Effective(a)
  BY <1>2, <1>7, <1>8
<1> QED
  BY <1>4, <1>5, <1>6, <1>7, <1>9, MoveTells

\* The transaction of c ends with c rolled back, and its call over or broken.
LEMMA RollbackTells ==
  ASSUME IInv, TellInv, NEW c \in Callers, Rollback(c), UNCHANGED breaker,
         NEW r \in CallRecords, call' = [call EXCEPT ![c] = r], LogOK(r)
  PROVE  TellInv'
<1>1. \A a \in Agents :
        /\ call[c].agent = a /\ call[c].pc # "end" => lost'[a]
        /\ lost'[a] \/ (Effective(a)' = Effective(a) /\ (Excused(a) => Excused(a)'))
        /\ lock'[a] # c
        /\ \A d \in Callers : lock'[a] = d => lock[a] = d
  BY Caller, RollbackLoses
<1>2. \A a \in Agents : /\ breaker'[a] = breaker[a] /\ (Settles(c, a) => lost'[a])
                         /\ (lost'[a] => Excused(a)')
  BY <1>1 DEF Settles, Excused
<1>3. \A a \in Agents :
        \/ Excused(a)' \/ ~breaker'[a]
        \/ breaker[a] /\ ~Settles(c, a) /\ ~Excused(a) /\ Effective(a)' = Effective(a)
  <2> SUFFICES ASSUME NEW a \in Agents, ~Excused(a)', breaker'[a]
               PROVE  breaker[a] /\ ~Settles(c, a) /\ ~Excused(a) /\ Effective(a)' = Effective(a)
    OBVIOUS
  <2>1. Effective(a)' = Effective(a) /\ ~Excused(a)
    BY <1>1, <1>2
  <2> QED
    BY <1>2, <2>1
<1> QED
  BY <1>1, <1>3, MoveTells

\* A caller between two calls has told everything.
LEMMA IdleTells == LogOK(Idle)
  BY DEF Idle, LogOK

\* The call returns.
LEMMA EndTells ==
  ASSUME IInv, TellInv, NEW c \in Callers, End(c)
  PROVE  TellInv'
<1>1. call' = [call EXCEPT ![c] = Idle] /\ UNCHANGED breaker /\ call[c].pc = "end"
  BY DEF End, redis, At
<1>2. CASE Rollback(c)
  BY <1>1, <1>2, IdleTyped, IdleTells, RollbackTells
<1>3. CASE Commit(c, {})
  <2>1. \A a \in Agents : /\ Effective(a)' = Effective(a) /\ (Excused(a)' <=> Excused(a))
                           /\ lock'[a] # c
                           /\ \A d \in Callers : lock'[a] = d => lock[a] = d
    BY <1>3, Caller, CommitShows
  <2>2. \A a \in Agents : ~Settles(c, a) /\ breaker'[a] = breaker[a]
    BY <1>1 DEF Settles
  <2>3. \A a \in Agents :
          \/ Excused(a)' \/ ~breaker'[a]
          \/ breaker[a] /\ ~Settles(c, a) /\ ~Excused(a) /\ Effective(a)' = Effective(a)
    BY <2>1, <2>2
  <2>4. /\ \A a \in Agents : lock'[a] # c
        /\ \A a \in Agents : \A d \in Callers : lock'[a] = d => lock[a] = d \/ d = c
    BY <2>1
  <2> QED
    BY <1>1, <2>3, <2>4, IdleTyped, IdleTells, MoveTells
<1> QED
  BY <1>2, <1>3 DEF End

\* The caller dies.
LEMMA CrashTells ==
  ASSUME IInv, TellInv, NEW c \in Callers, Crash(c)
  PROVE  TellInv'
<1>1. call' = [call EXCEPT ![c] = Idle] /\ UNCHANGED breaker /\ Rollback(c)
  BY DEF Crash
<1> QED
  BY <1>1, IdleTyped, IdleTells, RollbackTells

\* A deadlock is broken.
LEMMA DeadlockTells ==
  ASSUME IInv, TellInv, NEW c \in Callers, DeadlockAborts(c)
  PROVE  TellInv'
<1> DEFINE r == [call[c] EXCEPT !.poisoned = TRUE, !.pc = "end", !.result = "error",
                                !.missing = @ + 1]
<1>1. call[c].pc \in {"mark_online", "mark_error", "mark_open"}
  <2>1. Wanted(c) # "none"
    BY DEF DeadlockAborts, InCycle, Holder
  <2> QED
    BY <2>1 DEF Wanted, At
<1>2. call[c] \in CallRecords /\ LogOK(call[c]) /\ call[c].missing \in Nat
  BY Caller DEF TellInv, CallRecords
<1>3. /\ r \in CallRecords /\ r.agent = call[c].agent /\ r.pc = "end" /\ r.poisoned
      /\ r.log = call[c].log /\ r.depth = call[c].depth /\ r.result = "error"
      /\ r.answers = call[c].answers /\ r.missing = call[c].missing + 1
  <2>1. call[c].missing + 1 \in Nat
    BY <1>2
  <2> QED
    BY <1>2, <2>1 DEF CallRecords, PCs
<1>4. call' = [call EXCEPT ![c] = r]
  BY Caller DEF DeadlockAborts
<1> HIDE DEF r
<1>5. LogOK(r)
  <2>1. /\ IsFiniteSet(call[c].log) /\ Cardinality(call[c].log) + call[c].missing = call[c].depth
        /\ \A row \in call[c].log : row[1] < call[c].depth
        /\ call[c].answers \in {0, 1}
    BY <1>1, <1>2 DEF LogOK
  <2>2. Cardinality(call[c].log) \in Nat /\ call[c].depth \in 0 .. 1
    BY <1>2, <2>1, FS_CardinalityType DEF CallRecords
  <2>3. Cardinality(r.log) + r.missing = r.depth + 1
    BY <1>2, <1>3, <2>1, <2>2
  <2>4. <<r.depth, r.agent, "success">> \notin r.log
    <3>1. <<r.depth, r.agent, "success">>[1] = r.depth
      OBVIOUS
    <3> QED
      BY <1>3, <2>1, <2>2, <3>1
  <2>5. r.answers <= 1
    BY <1>3, <2>1
  <2> QED
    BY <1>3, <2>3, <2>4, <2>5 DEF LogOK
<1>6. Rollback(c) /\ UNCHANGED breaker
  BY DEF DeadlockAborts, redis
<1> QED
  BY <1>3, <1>4, <1>5, <1>6, RollbackTells

\* Another endpoint writes the status: the row is excused.
LEMMA OverwriteTells ==
  ASSUME IInv, TellInv, NEW a \in Agents, NEW s \in Rewrites, Overwrite(a, s)
  PROVE  TellInv'
<1>1. UNCHANGED <<call, lock, lost, sess, breaker>>
  BY DEF Overwrite, redis
<1>2. lock[a] = None /\ rewritten'[a]
  BY DEF Overwrite, IInv, DbInv, DbTyped
<1>3. \A b \in Agents \ {a} : status'[b] = status[b] /\ rewritten'[b] = rewritten[b]
  BY DEF Overwrite, IInv, DbInv, DbTyped
<1>4. OpenIsHidden'
  <2> SUFFICES ASSUME NEW b \in Agents, breaker'[b], ~Excused(b)'
               PROVE  Effective(b)' \notin Offered \/ \E c \in Callers : Settles(c, b)'
    BY DEF OpenIsHidden, Offered
  <2>1. b # a
    BY <1>1, <1>2 DEF Excused
  <2>2. breaker[b] /\ ~Excused(b) /\ Effective(b)' = Effective(b)
    BY <1>1, <1>3, <2>1 DEF Excused, Effective
  <2>3. Effective(b) \notin Offered \/ \E c \in Callers : Settles(c, b)
    BY <2>2 DEF TellInv, OpenIsHidden
  <2> QED
    BY <1>1, <2>2, <2>3 DEF Settles
<1>5. IdleHoldsNothing' /\ \A c \in Callers : LogOK(call'[c])
  BY <1>1 DEF TellInv, IdleHoldsNothing
<1> QED
  BY <1>4, <1>5 DEF TellInv, LogOK

\* A key expires: fewer breakers are open.
LEMMA LapseTells ==
  ASSUME IInv, TellInv, NEW a \in Agents, BreakerLapses(a) \/ CounterLapses(a)
  PROVE  TellInv'
<1>1. UNCHANGED call /\ UNCHANGED db
  BY DEF BreakerLapses, CounterLapses
<1>2. \A b \in Agents : breaker'[b] => breaker[b]
  BY DEF BreakerLapses, CounterLapses, IInv, RedisTyped
<1> QED
  BY <1>1, <1>2
     DEF TellInv, OpenIsHidden, Effective, Settles, Excused, Offered, IdleHoldsNothing, LogOK, db

\* Every step keeps it.
LEMMA StepTells == IInv /\ TellInv /\ [Next]_vars => TellInv'
<1> SUFFICES ASSUME IInv, TellInv, [Next]_vars PROVE TellInv'
  OBVIOUS
<1>1. CASE UNCHANGED vars
  BY <1>1 DEF vars, TellInv, OpenIsHidden, Effective, Settles, Excused, Offered, IdleHoldsNothing, LogOK
<1>2. ASSUME NEW c \in Callers, Step(c) PROVE TellInv'
  BY <1>2, CheckTells, DispatchTells, MarkOnlineTells, DeleteTells, CountTells,
     OpenTells, MarkFailedTells, EndTells, DeadlockTells DEF Step
<1> QED
  BY <1>1, <1>2, CrashTells, BeginTells, LapseTells, OverwriteTells DEF Next

\* It holds at first: every agent is online and every breaker closed.
LEMMA InitTells == Init => TellInv
<1> SUFFICES ASSUME Init PROVE TellInv
  OBVIOUS
<1>1. None \notin Callers
  BY ExternalAssumption
<1>2. OpenIsHidden /\ IdleHoldsNothing
  BY <1>1 DEF Init, OpenIsHidden, IdleHoldsNothing
<1>3. \A c \in Callers : LogOK(call[c])
  BY IdleTells DEF Init
<1> QED
  BY <1>2, <1>3 DEF TellInv

\* The invariant of what the registry shows and the log tells.
THEOREM RegistryInvariant == Spec => []TellInv
<1> QED
  BY InitTells, StepTells, BreakerInvariant, PTL DEF Spec

\* When all is quiet, an agent whose breaker is open is not offered by the
\* registry, unless a mark of it was lost, or PUT or the health check has
\* written its row since a call did.
THEOREM OpenAgentsAreHidden == Spec => []HiddenWhileOpen
<1>1. IInv /\ TellInv => HiddenWhileOpen
  <2> SUFFICES ASSUME IInv, TellInv, \A c \in Callers : At(c, "idle"),
                      NEW a \in Agents, breaker[a], ~lost[a], ~rewritten[a]
               PROVE  status[a] \notin Offered
    BY DEF HiddenWhileOpen
  <2>1. lock[a] \in Callers \cup {None} /\ \A c \in Callers : lock[a] # c /\ ~Settles(c, a)
    BY DEF IInv, DbInv, DbTyped, TellInv, IdleHoldsNothing, At, Settles
  <2> QED
    BY <2>1 DEF TellInv, OpenIsHidden, Effective, Excused
<1> QED
  BY <1>1, RegistryInvariant, BreakerInvariant, PTL

\* An agent carries out a task at most once for a call; of each agent that
\* was tried the log has one row, or its writing failed; the caller gets an
\* answer exactly when an agent gave one, unless a deadlock broke its
\* session; and only answers that were got are logged as a success.
THEOREM LogIsTruthful == Spec => []LogTellsCall
<1>1. IInv /\ TellInv => LogTellsCall
  <2> SUFFICES ASSUME IInv, TellInv, NEW c \in Callers
               PROVE  LET r == call[c]
                          success == <<r.depth, r.agent, "success">>
                      IN /\ r.answers <= 1
                         /\ At(c, "end") =>
                              /\ Cardinality(r.log) + r.missing = r.depth + 1
                              /\ r.result = "ok" <=> r.answers = 1 /\ ~r.poisoned
                              /\ success \in r.log => r.result = "ok"
                              /\ r.result = "ok" /\ r.missing = 0 => success \in r.log
    BY DEF LogTellsCall
  <2>1. LogOK(call[c])
    BY DEF TellInv
  <2>2. call[c].answers <= 1
    <3>1. call[c].pc \notin {"idle", "end"} => call[c].answers \in {0, 1}
      BY <2>1 DEF LogOK
    <3>2. call[c].pc = "idle" => call[c].answers = 0
      BY <2>1 DEF LogOK
    <3>3. call[c].pc = "end" => call[c].answers <= 1
      BY <2>1 DEF LogOK
    <3> QED
      BY <3>1, <3>2, <3>3
  <2> QED
    BY <2>1, <2>2 DEF LogOK, At
<1> QED
  BY <1>1, RegistryInvariant, BreakerInvariant, PTL
=============================================================================
