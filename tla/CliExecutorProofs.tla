------------------------- MODULE CliExecutorProofs -------------------------
(***************************************************************************)
(* CliExecutor for any chain of any platforms: the walk is bounded and     *)
(* follows the policy table, and the user is told who must act.            *)
(*                                                                         *)
(* The argument: wherever the walk stands, the last outcome was at this    *)
(* platform, transient and its first, or at the one before and allowed the *)
(* walk to leave it; and two outcomes at most were used up per platform.   *)
(***************************************************************************)
EXTENDS CliExecutor, FiniteSetTheorems, SequenceTheorems, TLAPS

N == Len(seen)

\* Two outcomes at most for each platform that was left.
Spent ==
  /\ pc = "idle" => N = 0
  /\ pc = "walk" => N <= 2 * (index - 1)
  /\ pc = "run" => N <= 2 * (index - 1) + (attempt - 1)
  /\ pc = "done" => N <= 2 * Len(chain)

\* The policy allows outcome k to be followed by one at platform "to".
Leaves(k, to) ==
  \/ seen[k].kind = "missing"
  \/ seen[k].status \in {"quota", "provider_unavailable"}
  \/ seen[k].status \in R1Statuses /\ to <= Len(chain) /\ chain[to] = opencode
  \/ seen[k].status \in {"network", "timeout"} /\ ~FirstAt(k)

\* The walk has just come to the platform it stands at.
Arrived == IF N = 0 THEN index = 1 ELSE seen[N].at = index - 1 /\ Leaves(N, index)

\* The walk is about to try its platform again.
Again ==
  /\ N > 0 /\ seen[N].at = index /\ FirstAt(N)
  /\ seen[N].kind = "run" /\ seen[N].status \in {"network", "timeout", "unknown"}

Standing ==
  /\ pc = "idle" => N = 0 /\ index = 1
  /\ pc = "walk" => Arrived
  /\ pc = "run" => IF attempt = 1 THEN Arrived ELSE Again

IInv == TypeOK /\ Spent /\ Standing /\ WalkFollowsTable

HookNames == {"started", "attempt_failed", "fallback", "succeeded", "failed"}

Hints == {NoHint} \cup
  ((Statuses \cup {"recursion_depth_exceeded", "recursion_cycle"}) \X (Platforms \cup {None}))

-----------------------------------------------------------------------------

\* The policy retries a transient failure once, and falls back on the rest.
LEMMA DecideTable ==
  ASSUME NEW s \in Statuses, NEW n \in 1 .. 2, NEW p, NEW next
  PROVE  LET d == decide(s, n, p, next) IN
         /\ d.action \in {"stop", "fallback", "retry"}
         /\ d.action = "retry" => n = 1 /\ s \in {"network", "timeout", "unknown"}
         /\ d.action = "fallback" => \/ s \in R1Statuses /\ next = opencode
                                     \/ s \in {"quota", "provider_unavailable"}
                                     \/ s \in {"network", "timeout"} /\ n # 1
         /\ d.action = "fallback" => d.hint = NoHint \/ (s \in R1Statuses /\ d.hint = Hint(s, p))
         /\ d.hint = NoHint \/ d.hint = Hint(s, p) \/ d.hint = Hint(s, None)
<1>1. CASE s = "succeeded" \/ s \in R1Statuses
  BY <1>1 DEF decide, Stop, Fallback, Retry, Hint, NoHint, R1Statuses
<1>2. CASE s \in {"quota", "provider_unavailable", "network", "timeout"}
  BY <1>2 DEF decide, Stop, Fallback, Retry, Hint, NoHint, R1Statuses
<1>3. CASE s \in {"workflow_failed", "unknown"}
  BY <1>3 DEF decide, Stop, Fallback, Retry, Hint, NoHint, R1Statuses
<1> QED
  BY <1>1, <1>2, <1>3 DEF Statuses, PreflightStatuses

\* What appending an outcome does to the history.
LEMMA SawFacts ==
  ASSUME TypeOK, NEW kind \in {"missing", "preflight", "run"}, NEW s \in Statuses,
         index \in Nat \ {0}, Saw(kind, s)
  PROVE  /\ seen' \in Seq([at : Nat \ {0}, kind : {"missing", "preflight", "run"},
                           status : Statuses])
         /\ N \in Nat /\ N' = N + 1
         /\ \A k \in 1 .. N : seen'[k] = seen[k]
         /\ seen'[N + 1].at = index /\ seen'[N + 1].kind = kind /\ seen'[N + 1].status = s
<1> DEFINE e == [at |-> index, kind |-> kind, status |-> s]
           E == [at : Nat \ {0}, kind : {"missing", "preflight", "run"}, status : Statuses]
<1>1. e \in E
  OBVIOUS
<1>2. seen \in Seq(E) /\ seen' = Append(seen, e)
  BY DEF TypeOK, Saw
<1> HIDE DEF E
<1>3. seen' \in Seq(E) /\ Len(seen') = Len(seen) + 1 /\ Len(seen) \in Nat
  BY <1>1, <1>2
<1>4. \A k \in 1 .. Len(seen) : seen'[k] = seen[k]
  BY <1>1, <1>2
<1>5. seen'[Len(seen) + 1] = e
  BY <1>1, <1>2
<1> QED
  BY <1>3, <1>4, <1>5 DEF N, E

\* The table still holds of a longer history whose last outcome follows it.
LEMMA TableGrows ==
  ASSUME IInv, chain' = chain, index \in Nat \ {0},
         NEW kind \in {"missing", "preflight", "run"}, NEW s \in Statuses, Saw(kind, s),
         \/ pc = "walk"
         \/ pc = "run" /\ attempt \in 1 .. 2 /\ index <= Len(chain)
  PROVE  /\ WalkFollowsTable'
         /\ pc = "run" /\ attempt = 2 => ~FirstAt(N)'
         /\ pc = "run" /\ attempt = 1 => FirstAt(N)'
<1> USE DEF IInv
<1>1. /\ N \in Nat /\ N' = N + 1
      /\ \A k \in 1 .. N : seen'[k] = seen[k]
      /\ seen'[N + 1].at = index /\ seen'[N + 1].kind = kind /\ seen'[N + 1].status = s
  BY SawFacts
<1>2. \A k \in 1 .. N : FirstAt(k)' <=> FirstAt(k)
  BY <1>1 DEF FirstAt
<1>3. ASSUME NEW k \in 1 .. N - 1
      PROVE  LET t == seen'[k].status  from == seen'[k].at  to == seen'[k + 1].at IN
             \/ /\ to = from /\ FirstAt(k)'
                /\ seen'[k].kind = "run" /\ t \in {"network", "timeout", "unknown"}
             \/ /\ to = from + 1
                /\ \/ seen'[k].kind = "missing"
                   \/ t \in {"quota", "provider_unavailable"}
                   \/ t \in R1Statuses /\ chain'[to] = opencode
                   \/ t \in {"network", "timeout"} /\ ~FirstAt(k)'
  <2>1. k \in 1 .. N /\ k + 1 \in 1 .. N
    BY <1>1
  <2>2. seen'[k] = seen[k] /\ seen'[k + 1] = seen[k + 1] /\ (FirstAt(k)' <=> FirstAt(k))
    BY <1>1, <1>2, <2>1
  <2> QED
    BY <2>2 DEF WalkFollowsTable, N
<1>4. ASSUME N > 0
      PROVE  LET t == seen'[N].status  from == seen'[N].at  to == seen'[N + 1].at IN
             \/ /\ to = from /\ FirstAt(N)
                /\ seen'[N].kind = "run" /\ t \in {"network", "timeout", "unknown"}
             \/ /\ to = from + 1
                /\ \/ seen'[N].kind = "missing"
                   \/ t \in {"quota", "provider_unavailable"}
                   \/ t \in R1Statuses /\ chain'[to] = opencode
                   \/ t \in {"network", "timeout"} /\ ~FirstAt(N)
  <2>1. seen'[N] = seen[N]
    BY <1>1, <1>4
  <2>2. CASE pc = "run" /\ attempt = 2
    BY <1>1, <1>4, <2>1, <2>2 DEF Standing, Again
  <2>3. CASE ~(pc = "run" /\ attempt = 2)
    <3>1. Arrived
      BY <2>3 DEF Standing
    <3> QED
      BY <1>1, <1>4, <2>1, <3>1 DEF Arrived, Leaves
  <2> QED
    BY <2>2, <2>3
<1>5. WalkFollowsTable'
  <2>1. Len(seen') = N + 1
    BY <1>1 DEF N
  <2> SUFFICES ASSUME NEW k \in 1 .. N
               PROVE LET t == seen'[k].status  from == seen'[k].at  to == seen'[k + 1].at IN
                     \/ /\ to = from /\ FirstAt(k)'
                        /\ seen'[k].kind = "run" /\ t \in {"network", "timeout", "unknown"}
                     \/ /\ to = from + 1
                        /\ \/ seen'[k].kind = "missing"
                           \/ t \in {"quota", "provider_unavailable"}
                           \/ t \in R1Statuses /\ chain'[to] = opencode
                           \/ t \in {"network", "timeout"} /\ ~FirstAt(k)'
    BY <1>1, <2>1 DEF WalkFollowsTable
  <2>2. CASE k \in 1 .. N - 1
    BY <1>3, <2>2
  <2>3. CASE k = N
    <3>1. N > 0 /\ (FirstAt(k)' <=> FirstAt(N))
      BY <1>1, <1>2, <2>3
    <3> QED
      BY <1>4, <2>3, <3>1
  <2> QED
    BY <1>1, <2>2, <2>3
<1>6. pc = "run" /\ attempt = 2 => ~FirstAt(N)'
  <2> SUFFICES ASSUME pc = "run", attempt = 2 PROVE ~FirstAt(N)'
    OBVIOUS
  <2>1. N > 0 /\ seen[N].at = index
    BY DEF Standing, Again
  <2> QED
    BY <1>1, <2>1 DEF FirstAt
<1>7. pc = "run" /\ attempt = 1 => FirstAt(N)'
  <2> SUFFICES ASSUME pc = "run", attempt = 1 PROVE FirstAt(N)'
    OBVIOUS
  <2>1. N = 0 \/ seen[N].at = index - 1
    BY DEF Standing, Arrived
  <2> QED
    BY <1>1, <2>1 DEF FirstAt
<1> QED
  BY <1>5, <1>6, <1>7

-----------------------------------------------------------------------------

\* The invariant holds at first.
LEMMA InitEstablishes == Init => IInv
<1> SUFFICES ASSUME Init PROVE IInv
  OBVIOUS
<1> USE DEF Init
<1>1. TypeOK
  BY DEF TypeOK, PER_PLATFORM_ATTEMPT_CAP, Results, NoResult, NoHint
<1>2. Spent /\ Standing /\ WalkFollowsTable
  BY DEF Spent, Standing, WalkFollowsTable, N
<1> QED
  BY <1>1, <1>2 DEF IInv

\* A returned result is well-typed, and so are the webhook events.
LEMMA ReturnTypes ==
  ASSUME NEW status \in Statuses, NEW platform \in Platforms \cup {None},
         NEW hint \in Hints, NEW tried \in Seq(Platforms), NEW attempts \in Nat,
         NEW sent \in Seq(HookNames), Return(status, platform, hint, tried, attempts, sent)
  PROVE  result' \in Results /\ hooks' \in Seq(HookNames) /\ pc' = "done"
<1>1. result' \in Results
  BY DEF Return, Results, Hints
<1>2. <<IF status = "succeeded" THEN "succeeded" ELSE "failed">> \in Seq(HookNames)
  BY DEF HookNames
<1>3. hooks' \in Seq(HookNames)
  BY <1>2 DEF Return
<1> QED
  BY <1>1, <1>3 DEF Return

\* What the policy's answer to an outcome does to the walk's bookkeeping:
\* FinaliseStop and MoveOn keep the types.
LEMMA StopTypes ==
  ASSUME TypeOK, chain' = chain, index \in 1 .. Len(chain),
         NEW s \in Statuses, NEW n \in 1 .. 2, NEW next, NEW tried \in Seq(Platforms), NEW a \in Nat,
         FinaliseStop(s, decide(s, n, Here, next).hint, tried, a, Append(hooks, "attempt_failed"))
  PROVE  /\ index' = index /\ attempt' = attempt /\ pc' = "done" /\ carry' = carry
         /\ hooks' \in Seq(HookNames) /\ result' \in Results
<1>1. Here \in Platforms
  BY DEF TypeOK, Here
<1>2. decide(s, n, Here, next).hint \in Hints
  <2> DEFINE h == decide(s, n, Here, next).hint
  <2>1. h = NoHint \/ h = Hint(s, Here) \/ h = Hint(s, None)
    BY DecideTable
  <2>2. <<s, Here>> \in Hints /\ <<s, None>> \in Hints /\ NoHint \in Hints
    BY <1>1 DEF Hints
  <2> HIDE DEF h
  <2>3. h \in Hints
    BY <2>1, <2>2 DEF Hint
  <2> QED
    BY <2>3 DEF h
<1>3. Append(hooks, "attempt_failed") \in Seq(HookNames)
  BY DEF TypeOK, HookNames
<1>4. Return(s, Here, decide(s, n, Here, next).hint, tried, a, Append(hooks, "attempt_failed"))
  BY DEF FinaliseStop
<1>5. result' \in Results /\ hooks' \in Seq(HookNames) /\ pc' = "done"
  BY <1>1, <1>2, <1>3, <1>4, ReturnTypes
<1> QED
  BY <1>5 DEF FinaliseStop

\* Moving on to the next platform keeps the types.
LEMMA MoveOnTypes ==
  ASSUME TypeOK, chain' = chain, index \in 1 .. Len(chain),
         NEW s \in Statuses, NEW n \in 1 .. 2, NEW next,
         MoveOn(decide(s, n, Here, next), Append(hooks, "attempt_failed"))
  PROVE  /\ index' = index + 1 /\ attempt' = attempt /\ pc' = "walk" /\ result' = result
         /\ hooks' \in Seq(HookNames) /\ carry' \in {NoHint} \cup (R1Statuses \X Platforms)
<1>1. Here \in Platforms
  BY DEF TypeOK, Here
<1> DEFINE d == decide(s, n, Here, next)
<1>2. d.action = "fallback" => d.hint = NoHint \/ (s \in R1Statuses /\ d.hint = Hint(s, Here))
  BY DecideTable
<1>3. Append(hooks, "attempt_failed") \in Seq(HookNames)
  BY DEF TypeOK, HookNames
<1>4. Append(Append(hooks, "attempt_failed"), "fallback") \in Seq(HookNames)
  BY <1>3 DEF HookNames
<1>5. carry' \in {NoHint} \cup (R1Statuses \X Platforms)
  <2>1. CASE carry' = carry
    BY <2>1 DEF TypeOK
  <2>2. CASE d.action = "fallback" /\ d.hint # NoHint /\ carry' = d.hint
    <3>1. carry' = <<s, Here>> /\ s \in R1Statuses
      BY <1>2, <2>2 DEF Hint
    <3> QED
      BY <1>1, <3>1
  <2> QED
    BY <2>1, <2>2 DEF MoveOn
<1> HIDE DEF d
<1>6. hooks' \in Seq(HookNames)
  BY <1>3, <1>4 DEF MoveOn
<1> QED
  BY <1>5, <1>6 DEF MoveOn

\* What every outcome of a run does.
LEMMA RanTypes ==
  ASSUME TypeOK, NEW s \in Statuses, Ran(s)
  PROVE  /\ chain' = chain /\ index \in 1 .. Len(chain) /\ Here \in Platforms
         /\ attempted' \in Seq(Platforms)
         /\ last' \in [status : Statuses \cup {"none"}, platform : Platforms \cup {None}]
         /\ seen' \in Seq([at : Nat \ {0}, kind : {"missing", "preflight", "run"},
                           status : Statuses])
         /\ pc = "run" /\ Saw("run", s)
<1>1. index \in 1 .. Len(chain) /\ Here \in Platforms /\ index \in Nat \ {0}
  BY DEF TypeOK, Ran, Here
<1>2. attempted' \in Seq(Platforms)
  BY <1>1 DEF Ran, TypeOK
<1>3. seen' \in Seq([at : Nat \ {0}, kind : {"missing", "preflight", "run"}, status : Statuses])
  BY <1>1, SawFacts DEF Ran
<1> QED
  BY <1>1, <1>2, <1>3 DEF Ran

\* A failed run keeps the types.
LEMMA RunFailsKeepsTypes ==
  ASSUME TypeOK, NEW s \in Statuses \ {"succeeded"}, RunFails(s)
  PROVE  TypeOK'
<1> DEFINE d == decide(s, attempt, Here, NextPlatform)
           sent == Append(hooks, "attempt_failed")
<1>1. Ran(s) /\ attempt \in 1 .. 2
  BY DEF RunFails, TypeOK, PER_PLATFORM_ATTEMPT_CAP
<1>2. /\ chain' = chain /\ index \in 1 .. Len(chain) /\ Here \in Platforms
      /\ attempted' \in Seq(Platforms)
      /\ last' \in [status : Statuses \cup {"none"}, platform : Platforms \cup {None}]
      /\ seen' \in Seq([at : Nat \ {0}, kind : {"missing", "preflight", "run"}, status : Statuses])
      /\ pc = "run"
  BY <1>1, RanTypes
<1>3. \/ \E n \in {1, attempt} : FinaliseStop(s, d.hint, attempted', n, sent)
      \/ /\ attempt < PER_PLATFORM_ATTEMPT_CAP /\ attempt' = attempt + 1
         /\ hooks' = sent /\ UNCHANGED <<index, pc, carry, result>>
      \/ MoveOn(d, sent)
  BY DEF RunFails
<1>4. CASE \E n \in {1, attempt} : FinaliseStop(s, d.hint, attempted', n, sent)
  <2>1. PICK n \in {1, attempt} : FinaliseStop(s, d.hint, attempted', n, sent)
    BY <1>4
  <2>2. n \in Nat
    BY <1>1
  <2>3. /\ index' = index /\ attempt' = attempt /\ pc' = "done" /\ carry' = carry
        /\ hooks' \in Seq(HookNames) /\ result' \in Results
    BY <1>1, <1>2, <2>1, <2>2, StopTypes
  <2> QED
    BY <1>2, <2>3 DEF TypeOK, HookNames
<1>5. CASE /\ attempt < PER_PLATFORM_ATTEMPT_CAP /\ attempt' = attempt + 1
           /\ hooks' = sent /\ UNCHANGED <<index, pc, carry, result>>
  <2>1. hooks' \in Seq(HookNames)
    BY <1>5 DEF TypeOK, HookNames
  <2> QED
    BY <1>2, <1>5, <2>1 DEF TypeOK, HookNames, PER_PLATFORM_ATTEMPT_CAP
<1>6. CASE MoveOn(d, sent)
  <2>1. /\ index' = index + 1 /\ attempt' = attempt /\ pc' = "walk" /\ result' = result
        /\ hooks' \in Seq(HookNames) /\ carry' \in {NoHint} \cup (R1Statuses \X Platforms)
    BY <1>1, <1>2, <1>6, MoveOnTypes
  <2> QED
    BY <1>2, <2>1 DEF TypeOK, HookNames
<1> QED
  BY <1>3, <1>4, <1>5, <1>6

\* A failed preflight keeps the types.
LEMMA PreflightFailsKeepsTypes ==
  ASSUME TypeOK, NEW s \in PreflightStatuses, PreflightFails(s)
  PROVE  TypeOK'
<1> DEFINE d == decide(s, 1, Here, NextPlatform)
           sent == Append(hooks, "attempt_failed")
<1>1. s \in Statuses
  BY DEF Statuses
<1>2. /\ chain' = chain /\ index \in 1 .. Len(chain) /\ index \in Nat \ {0}
      /\ Here \in Platforms /\ Saw("preflight", s)
  BY DEF PreflightFails, TypeOK, Here
<1>3. /\ attempted' \in Seq(Platforms)
      /\ last' \in [status : Statuses \cup {"none"}, platform : Platforms \cup {None}]
  BY <1>1, <1>2 DEF PreflightFails, TypeOK
<1>4. seen' \in Seq([at : Nat \ {0}, kind : {"missing", "preflight", "run"}, status : Statuses])
  BY <1>1, <1>2, SawFacts
<1>5. CASE FinaliseStop(s, d.hint, attempted', 0, sent)
  <2>1. /\ index' = index /\ attempt' = attempt /\ pc' = "done" /\ carry' = carry
        /\ hooks' \in Seq(HookNames) /\ result' \in Results
    BY <1>1, <1>2, <1>3, <1>5, StopTypes
  <2> QED
    BY <1>2, <1>3, <1>4, <2>1 DEF TypeOK, HookNames
<1>6. CASE MoveOn(d, sent)
  <2>1. /\ index' = index + 1 /\ attempt' = attempt /\ pc' = "walk" /\ result' = result
        /\ hooks' \in Seq(HookNames) /\ carry' \in {NoHint} \cup (R1Statuses \X Platforms)
    BY <1>1, <1>2, <1>6, MoveOnTypes
  <2> QED
    BY <1>2, <1>3, <1>4, <2>1 DEF TypeOK, HookNames
<1> QED
  BY <1>5, <1>6 DEF PreflightFails

\* Every step keeps the types.
LEMMA StepKeepsTypes == TypeOK /\ Standing /\ [Next]_vars => TypeOK'
<1> SUFFICES ASSUME TypeOK, Standing, [Next]_vars PROVE TypeOK'
  OBVIOUS
<1>1. ASSUME NEW c \in Chains, NEW l \in Lineages, Execute(c, l)
      PROVE  TypeOK'
  <2>1. c \in Seq(Platforms) /\ (c # <<>> => c[1] \in Platforms)
    BY ChainsAssumption
  <2>2. chain' = c /\ index' = index /\ index' \in 1 .. Len(chain') + 1
    BY <1>1, <2>1 DEF Execute, Standing
  <2>3. <<"started">> \in Seq(HookNames)
    BY DEF HookNames
  <2>4. CASE Refused(l)
    <3>1. RefusalHint(l) \in Hints
      BY DEF RefusalHint, Hint, Hints
    <3>2. <<>> \in Seq(Platforms) /\ "provider_unavailable" \in Statuses
      BY DEF Statuses, PreflightStatuses
    <3>3. Return("provider_unavailable", IF c = <<>> THEN None ELSE c[1], RefusalHint(l),
                 <<>>, 0, <<"started">>)
      BY <1>1, <2>4 DEF Execute
    <3>4. (IF c = <<>> THEN None ELSE c[1]) \in Platforms \cup {None}
      BY <2>1
    <3>5. result' \in Results /\ hooks' \in Seq(HookNames) /\ pc' = "done"
      BY <2>3, <3>1, <3>2, <3>3, <3>4, ReturnTypes
    <3> QED
      BY <1>1, <2>1, <2>2, <3>5 DEF Execute, TypeOK, HookNames
  <2>5. CASE ~Refused(l)
    BY <1>1, <2>1, <2>2, <2>3, <2>5 DEF Execute, TypeOK, HookNames
  <2> QED
    BY <2>4, <2>5
<1>2. CASE SkipMissing
  <2>1. index \in Nat \ {0} /\ index \in 1 .. Len(chain) /\ Here \in Platforms
    BY <1>2 DEF SkipMissing, TypeOK, Here
  <2>2. seen' \in Seq([at : Nat \ {0}, kind : {"missing", "preflight", "run"}, status : Statuses])
    BY <1>2, <2>1, SawFacts DEF SkipMissing, Statuses, PreflightStatuses
  <2>3. attempted' \in Seq(Platforms)
    BY <1>2, <2>1 DEF SkipMissing, TypeOK
  <2>4. last' \in [status : Statuses \cup {"none"}, platform : Platforms \cup {None}]
    BY <1>2, <2>1 DEF SkipMissing, Statuses, PreflightStatuses
  <2> QED
    BY <1>2, <2>1, <2>2, <2>3, <2>4 DEF SkipMissing, TypeOK
<1>3. CASE PreflightPasses
  BY <1>3 DEF PreflightPasses, TypeOK, PER_PLATFORM_ATTEMPT_CAP
<1>4. CASE RunSucceeds
  <2>1. "succeeded" \in Statuses /\ Ran("succeeded")
    BY <1>4 DEF RunSucceeds, Statuses
  <2>2. /\ chain' = chain /\ index \in 1 .. Len(chain) /\ Here \in Platforms
        /\ attempted' \in Seq(Platforms)
        /\ last' \in [status : Statuses \cup {"none"}, platform : Platforms \cup {None}]
        /\ seen' \in Seq([at : Nat \ {0}, kind : {"missing", "preflight", "run"},
                          status : Statuses])
    BY <2>1, RanTypes
  <2>3. carry \in Hints /\ hooks \in Seq(HookNames)
    BY DEF TypeOK, Hints, HookNames, Statuses, PreflightStatuses
  <2>4. Return("succeeded", Here, carry, attempted', 1, hooks)
    BY <1>4 DEF RunSucceeds
  <2>5. result' \in Results /\ hooks' \in Seq(HookNames) /\ pc' = "done"
    BY <2>1, <2>2, <2>3, <2>4, ReturnTypes
  <2> QED
    BY <1>4, <2>2, <2>5 DEF RunSucceeds, TypeOK, HookNames
<1>5. CASE ChainExhausted
  <2>1. carry \in Hints /\ NoHint \in Hints /\ hooks \in Seq(HookNames)
    BY DEF TypeOK, Hints, HookNames, Statuses, PreflightStatuses
  <2>2. CASE last.platform = None
    <3>1. Return("provider_unavailable", None, NoHint, <<>>, 0, hooks)
      BY <1>5, <2>2 DEF ChainExhausted
    <3>2. <<>> \in Seq(Platforms) /\ "provider_unavailable" \in Statuses
      BY DEF Statuses, PreflightStatuses
    <3>3. result' \in Results /\ hooks' \in Seq(HookNames) /\ pc' = "done"
      BY <2>1, <3>1, <3>2, ReturnTypes
    <3> QED
      BY <1>5, <3>3 DEF ChainExhausted, TypeOK, HookNames
  <2>3. CASE last.platform # None
    <3>1. /\ Return(last.status, last.platform, carry, attempted, Len(attempted), hooks)
          /\ result' = [status |-> last.status, platform |-> last.platform, hint |-> carry,
                        attempted |-> attempted, attempts |-> Len(attempted)]
      BY <1>5, <2>3 DEF ChainExhausted, Return
    <3>2. <<IF last.status = "succeeded" THEN "succeeded" ELSE "failed">> \in Seq(HookNames)
      BY DEF HookNames
    <3>3. hooks' \in Seq(HookNames) /\ pc' = "done"
      BY <2>1, <3>1, <3>2 DEF Return
    <3>4. result' \in Results
      BY <2>1, <3>1 DEF Results, Hints, TypeOK
    <3> QED
      BY <1>5, <3>3, <3>4 DEF ChainExhausted, TypeOK, HookNames
  <2> QED
    BY <2>2, <2>3
<1>6. CASE UNCHANGED vars
  BY <1>6 DEF vars, TypeOK, Results
<1> QED
  BY <1>1, <1>2, <1>3, <1>4, <1>5, <1>6, PreflightFailsKeepsTypes, RunFailsKeepsTypes DEF Next, Step

-----------------------------------------------------------------------------

\* A failed run keeps the rest of the invariant.
LEMMA RunFailsKeepsInv ==
  ASSUME IInv, NEW s \in Statuses \ {"succeeded"}, RunFails(s)
  PROVE  (Spent /\ Standing /\ WalkFollowsTable)'
<1> DEFINE d == decide(s, attempt, Here, NextPlatform)
           sent == Append(hooks, "attempt_failed")
<1>1. Ran(s) /\ attempt \in 1 .. 2 /\ TypeOK
  BY DEF RunFails, TypeOK, PER_PLATFORM_ATTEMPT_CAP, IInv
<1>2. /\ chain' = chain /\ index \in 1 .. Len(chain) /\ index \in Nat \ {0} /\ Len(chain) \in Nat
      /\ pc = "run" /\ Saw("run", s)
  BY <1>1, RanTypes DEF TypeOK
<1>3. /\ WalkFollowsTable'
      /\ attempt = 2 => ~FirstAt(N)'
      /\ attempt = 1 => FirstAt(N)'
  BY <1>1, <1>2, TableGrows
<1>4. /\ N \in Nat /\ N' = N + 1
      /\ seen'[N'].at = index /\ seen'[N'].kind = "run" /\ seen'[N'].status = s
  BY <1>1, <1>2, SawFacts
<1>5. N <= 2 * (index - 1) + (attempt - 1)
  BY <1>2 DEF IInv, Spent
<1>6. /\ d.action = "retry" => attempt = 1 /\ s \in {"network", "timeout", "unknown"}
      /\ d.action = "fallback" => \/ s \in R1Statuses /\ NextPlatform = opencode
                                  \/ s \in {"quota", "provider_unavailable"}
                                  \/ s \in {"network", "timeout"} /\ attempt # 1
      /\ d.action \in {"stop", "fallback", "retry"}
  BY <1>1, DecideTable
<1> HIDE DEF d
<1>7. CASE d.action = "stop"
  <2>1. pc' = "done" /\ index' = index
    BY <1>7 DEF RunFails, FinaliseStop, Return, d
  <2> QED
    BY <1>1, <1>2, <1>3, <1>4, <1>5, <2>1 DEF Spent, Standing
<1>8. CASE d.action = "retry"
  <2>1. attempt = 1 /\ s \in {"network", "timeout", "unknown"}
    BY <1>6, <1>8
  <2>2. attempt' = 2 /\ index' = index /\ pc' = "run"
    BY <1>2, <1>8, <2>1 DEF RunFails, d, PER_PLATFORM_ATTEMPT_CAP
  <2> QED
    BY <1>2, <1>3, <1>4, <1>5, <2>1, <2>2 DEF Spent, Standing, Again
<1>9. CASE d.action = "fallback"
  <2>1. index' = index + 1 /\ pc' = "walk"
    BY <1>9 DEF RunFails, MoveOn, d
  <2>2. NextPlatform = opencode => index + 1 <= Len(chain) /\ chain[index + 1] = opencode
    BY <1>2, PlatformsAssumption DEF NextPlatform
  <2>3. Leaves(N, index)'
    BY <1>1, <1>2, <1>3, <1>4, <1>6, <1>9, <2>1, <2>2 DEF Leaves
  <2> QED
    BY <1>1, <1>2, <1>3, <1>4, <1>5, <2>1, <2>3 DEF Spent, Standing, Arrived
<1> QED
  BY <1>6, <1>7, <1>8, <1>9

\* A failed preflight keeps the rest of the invariant.
LEMMA PreflightFailsKeepsInv ==
  ASSUME IInv, NEW s \in PreflightStatuses, PreflightFails(s)
  PROVE  (Spent /\ Standing /\ WalkFollowsTable)'
<1> DEFINE d == decide(s, 1, Here, NextPlatform)
           sent == Append(hooks, "attempt_failed")
<1>1. TypeOK /\ s \in Statuses /\ s \notin {"network", "timeout", "unknown"}
  BY DEF Statuses, PreflightStatuses, R1Statuses, IInv
<1>2. /\ chain' = chain /\ index \in 1 .. Len(chain) /\ index \in Nat \ {0} /\ Len(chain) \in Nat
      /\ pc = "walk" /\ Saw("preflight", s)
  BY <1>1 DEF PreflightFails, TypeOK
<1>3. WalkFollowsTable'
  BY <1>1, <1>2, TableGrows
<1>4. /\ N \in Nat /\ N' = N + 1
      /\ seen'[N'].at = index /\ seen'[N'].status = s
  BY <1>1, <1>2, SawFacts
<1>5. N <= 2 * (index - 1)
  BY <1>2 DEF IInv, Spent
<1>6. /\ d.action = "fallback" => \/ s \in R1Statuses /\ NextPlatform = opencode
                                  \/ s \in {"quota", "provider_unavailable"}
      /\ d.action \in {"stop", "fallback"}
  BY <1>1, DecideTable
<1> HIDE DEF d
<1>7. CASE d.action = "stop"
  <2>1. pc' = "done" /\ index' = index
    BY <1>7 DEF PreflightFails, FinaliseStop, Return, d
  <2> QED
    BY <1>2, <1>3, <1>4, <1>5, <2>1 DEF Spent, Standing
<1>8. CASE d.action = "fallback"
  <2>1. index' = index + 1 /\ pc' = "walk"
    BY <1>8 DEF PreflightFails, MoveOn, d
  <2>2. NextPlatform = opencode => index + 1 <= Len(chain) /\ chain[index + 1] = opencode
    BY <1>2, PlatformsAssumption DEF NextPlatform
  <2>3. Leaves(N, index)'
    BY <1>2, <1>4, <1>6, <1>8, <2>1, <2>2 DEF Leaves
  <2> QED
    BY <1>2, <1>3, <1>4, <1>5, <2>1, <2>3 DEF Spent, Standing, Arrived
<1> QED
  BY <1>6, <1>7, <1>8

\* Every step keeps the invariant.
LEMMA StepPreserves == IInv /\ [Next]_vars => IInv'
<1> SUFFICES ASSUME IInv, [Next]_vars PROVE IInv'
  OBVIOUS
<1>1. TypeOK'
  BY StepKeepsTypes DEF IInv
<1> SUFFICES (Spent /\ Standing /\ WalkFollowsTable)'
  BY <1>1 DEF IInv
<1>2. TypeOK /\ N \in Nat /\ index \in Nat \ {0} /\ Len(chain) \in Nat /\ attempt \in 1 .. 2
  BY DEF IInv, TypeOK, N, PER_PLATFORM_ATTEMPT_CAP
<1>3. ASSUME NEW c \in Chains, NEW l \in Lineages, Execute(c, l)
      PROVE  (Spent /\ Standing /\ WalkFollowsTable)'
  <2>1. /\ N = 0 /\ index = 1 /\ seen' = seen /\ index' = index /\ pc' \in {"walk", "done"}
        /\ Len(c) \in Nat /\ chain' = c
    BY <1>3, ChainsAssumption DEF IInv, Standing, Execute, Return
  <2> QED
    BY <2>1 DEF Spent, Standing, Arrived, WalkFollowsTable, N
<1>4. CASE SkipMissing
  <2>1. /\ chain' = chain /\ index' = index + 1 /\ pc = "walk" /\ pc' = "walk"
        /\ Saw("missing", "provider_unavailable") /\ "provider_unavailable" \in Statuses
    BY <1>4 DEF SkipMissing, Statuses, PreflightStatuses
  <2>2. WalkFollowsTable'
    BY <1>2, <2>1, TableGrows
  <2>3. /\ N' = N + 1 /\ seen'[N'].at = index /\ seen'[N'].kind = "missing"
    BY <1>2, <2>1, SawFacts
  <2> QED
    BY <1>2, <2>1, <2>2, <2>3 DEF IInv, Spent, Standing, Arrived, Leaves
<1>5. CASE PreflightPasses
  BY <1>2, <1>5 DEF IInv, PreflightPasses, Spent, Standing, Arrived, Leaves, FirstAt, WalkFollowsTable, N
<1>6. CASE RunSucceeds
  <2>1. Ran("succeeded") /\ "succeeded" \in Statuses /\ pc' = "done"
    BY <1>6 DEF RunSucceeds, Return, Statuses
  <2>2. /\ chain' = chain /\ index \in 1 .. Len(chain) /\ pc = "run" /\ Saw("run", "succeeded")
    BY <1>2, <2>1, RanTypes
  <2>3. WalkFollowsTable'
    BY <1>2, <2>1, <2>2, TableGrows
  <2>4. N' = N + 1
    BY <1>2, <2>1, <2>2, SawFacts
  <2> QED
    BY <1>2, <2>1, <2>2, <2>3, <2>4 DEF IInv, Spent, Standing
<1>7. CASE ChainExhausted
  <2>1. /\ chain' = chain /\ seen' = seen /\ pc = "walk" /\ pc' = "done"
        /\ index > Len(chain) /\ index <= Len(chain) + 1
    BY <1>2, <1>7 DEF ChainExhausted, Return, TypeOK
  <2> QED
    BY <1>2, <2>1 DEF IInv, Spent, Standing, WalkFollowsTable, FirstAt, N
<1>8. CASE UNCHANGED vars
  BY <1>8 DEF vars, IInv, Spent, Standing, Arrived, Again, Leaves, FirstAt, WalkFollowsTable, N
<1> QED
  BY <1>3, <1>4, <1>5, <1>6, <1>7, <1>8, PreflightFailsKeepsInv, RunFailsKeepsInv DEF Next, Step

-----------------------------------------------------------------------------

\* The inductive invariant, for any chains and any adapters.
THEOREM WalkInvariant == Spec => []IInv
<1> QED
  BY InitEstablishes, StepPreserves, PTL DEF Spec

\* Every variable keeps its type.
THEOREM TypeCorrect == Spec => []TypeOK
<1>1. IInv => TypeOK
  BY DEF IInv
<1> QED
  BY <1>1, WalkInvariant, PTL

\* execute costs at most two outcomes per platform of its chain, however
\* long the chain is and whatever its adapters answer.
THEOREM RequestsAreBounded == Spec => []RunsAreBounded
<1>1. IInv => RunsAreBounded
  <2> SUFFICES ASSUME IInv PROVE RunsAreBounded
    OBVIOUS
  <2>1. /\ index \in 1 .. Len(chain) + 1 /\ Len(chain) \in Nat /\ attempt \in 1 .. 2
        /\ pc \in {"idle", "walk", "run", "done"} /\ (pc = "run" => index <= Len(chain))
    BY DEF IInv, TypeOK, PER_PLATFORM_ATTEMPT_CAP
  <2>2. Len(seen) <= 2 * Len(chain)
    BY <2>1 DEF IInv, Spent, N
  <2> QED
    BY <2>2 DEF RunsAreBounded, PER_PLATFORM_ATTEMPT_CAP
<1> QED
  BY <1>1, WalkInvariant, PTL

\* Every step of the walk is one that the table in policy.py allows.
THEOREM TableIsFollowed == Spec => []WalkFollowsTable
<1>1. IInv => WalkFollowsTable
  BY DEF IInv
<1> QED
  BY <1>1, WalkInvariant, PTL

-----------------------------------------------------------------------------
(* What the user is told                                                   *)

\* An outcome the user must act on is in the annotation that is carried: the
\* walk has gone on to the floor, which is the end of the chain.
CarriedTo(k) ==
  seen[k].status \in R1Statuses =>
    /\ seen[k].at + 1 = Len(chain) /\ chain[Len(chain)] = opencode
    /\ index >= Len(chain)
    /\ carry = Hint(seen[k].status, chain[seen[k].at])

Told ==
  /\ pc # "idle" => chain \in Chains
  /\ N > 0 => last.platform # None
  /\ pc \in {"walk", "run"} => \A k \in 1 .. N : CarriedTo(k)
  /\ AuthProblemIsReported

\* What the policy says to a user who must act.
LEMMA DecideTells ==
  ASSUME NEW s \in Statuses \ {"succeeded"}, NEW n \in 1 .. 2, NEW p, NEW next
  PROVE  LET d == decide(s, n, p, next) IN
         /\ d.action = "stop" => d.hint # NoHint
         /\ s \in R1Statuses => d.hint = Hint(s, p) /\ d.action # "retry"
         /\ s \notin R1Statuses /\ d.action = "fallback" => d.hint = NoHint
<1>1. CASE s \in R1Statuses
  BY <1>1 DEF decide, Stop, Fallback, Retry, Hint, NoHint, R1Statuses
<1>2. CASE s \in {"quota", "provider_unavailable", "network", "timeout"}
  BY <1>2 DEF decide, Stop, Fallback, Retry, Hint, NoHint, R1Statuses
<1>3. CASE s \in {"workflow_failed", "unknown"}
  BY <1>3 DEF decide, Stop, Fallback, Retry, Hint, NoHint, R1Statuses
<1> QED
  BY <1>1, <1>2, <1>3 DEF Statuses, PreflightStatuses

\* An outcome that nobody has to act on, and that ends nothing.
LEMMA HarmlessIsTold ==
  ASSUME IInv, Told, NEW kind \in {"missing", "preflight", "run"},
         NEW s \in Statuses \ R1Statuses, Saw(kind, s), index \in Nat \ {0},
         chain' = chain, pc \in {"walk", "run"}, pc' \in {"walk", "run"},
         index' \in {index, index + 1}, carry' = carry, last'.platform # None
  PROVE  Told'
<1>1. /\ N \in Nat /\ N' = N + 1 /\ \A k \in 1 .. N : seen'[k] = seen[k]
      /\ seen'[N + 1].status = s /\ Len(chain) \in Nat
  BY SawFacts DEF IInv, TypeOK
<1>2. index' >= index
  OBVIOUS
<1>3. \A k \in 1 .. N : CarriedTo(k)
  BY DEF Told
<1>4. ASSUME NEW k \in 1 .. N' PROVE CarriedTo(k)'
  <2>1. CASE k = N + 1
    BY <1>1, <2>1 DEF CarriedTo
  <2>2. CASE k \in 1 .. N
    <3>1. CarriedTo(k) /\ seen'[k] = seen[k]
      BY <1>1, <1>3, <2>2
    <3> QED
      BY <1>1, <1>2, <3>1 DEF CarriedTo
  <2> QED
    BY <1>1, <1>4, <2>1, <2>2
<1> QED
  BY <1>4 DEF Told, AuthProblemIsReported

\* An outcome that the policy stops at, or leaves with its annotation.
LEMMA OutcomeIsTold ==
  ASSUME IInv, Told, NEW kind \in {"preflight", "run"}, NEW s \in Statuses \ {"succeeded"},
         NEW n \in 1 .. 2, Saw(kind, s), index \in 1 .. Len(chain), chain' = chain,
         pc \in {"walk", "run"}, last'.platform = Here,
         NEW d, d = decide(s, n, Here, NextPlatform),
         \/ /\ d.action = "stop" /\ pc' = "done"
            /\ result'.hint = d.hint /\ result'.platform = Here
         \/ /\ d.action # "stop" /\ pc' = "walk" /\ index' = index + 1
            /\ carry' = IF d.action = "fallback" /\ d.hint # NoHint THEN d.hint ELSE carry
         \/ d.action = "retry" /\ pc' = "run" /\ index' = index /\ carry' = carry
  PROVE  Told'
<1>1. /\ Here \in Platforms /\ Here # None /\ index \in Nat \ {0} /\ Len(chain) \in Nat
      /\ chain \in Chains
  BY PlatformsAssumption DEF IInv, TypeOK, Here, Told
<1>2. /\ N \in Nat /\ N' = N + 1 /\ \A k \in 1 .. N : seen'[k] = seen[k]
      /\ seen'[N + 1].status = s /\ seen'[N + 1].at = index
  BY <1>1, SawFacts DEF IInv
<1>3. \A k \in 1 .. N : CarriedTo(k)
  BY DEF Told
<1>4. /\ d.action = "stop" => d.hint # NoHint
      /\ s \in R1Statuses => d.hint = Hint(s, Here) /\ d.action # "retry"
      /\ s \notin R1Statuses /\ d.action = "fallback" => d.hint = NoHint
  BY DecideTells
<1>5. /\ d.action \in {"stop", "fallback", "retry"}
      /\ s \in R1Statuses /\ d.action = "fallback" => NextPlatform = opencode
  BY DecideTable DEF R1Statuses
<1>6. CASE d.action = "stop"
  <2>1. ASSUME NEW k \in 1 .. N', seen'[k].status \in R1Statuses
        PROVE  \/ result'.hint = Hint(seen'[k].status, chain'[seen'[k].at])
               \/ result'.platform = opencode /\ result'.hint # NoHint
    <3>1. CASE k = N + 1
      BY <1>2, <1>4, <1>6, <2>1, <3>1 DEF Here
    <3>2. CASE k \in 1 .. N
      <4>1. CarriedTo(k) /\ seen[k].status \in R1Statuses
        BY <1>2, <1>3, <2>1, <3>2
      <4>2. index >= Len(chain) /\ chain[Len(chain)] = opencode
        BY <4>1 DEF CarriedTo
      <4>3. index = Len(chain)
        BY <1>1, <4>2
      <4> QED
        BY <1>4, <1>6, <4>2, <4>3 DEF Here
    <3> QED
      BY <1>2, <2>1, <3>1, <3>2
  <2> QED
    BY <1>1, <1>2, <1>6, <2>1 DEF Told, AuthProblemIsReported, N
<1>7. CASE s \notin R1Statuses /\ d.action # "stop"
  <2>1. /\ pc' \in {"walk", "run"} /\ index' \in {index, index + 1} /\ carry' = carry
        /\ last'.platform # None
    BY <1>1, <1>4, <1>7
  <2> QED
    BY <1>1, <1>7, <2>1, HarmlessIsTold
<1>8. CASE s \in R1Statuses /\ d.action # "stop"
  <2>1. d.action = "fallback" /\ NextPlatform = opencode /\ d.hint = Hint(s, Here)
    BY <1>4, <1>5, <1>8
  <2>2. index < Len(chain) /\ chain[index + 1] = opencode
    BY <2>1, PlatformsAssumption DEF NextPlatform
  <2>3. index + 1 = Len(chain)
    <3>1. index + 1 \in 1 .. Len(chain)
      BY <1>1, <2>2
    <3>2. index + 1 \in {1, Len(chain)}
      BY <1>1, <2>2, <3>1, FloorAssumption, Zenon
    <3> QED
      BY <1>1, <3>2
  <2>4. pc' = "walk" /\ index' = Len(chain) /\ carry' = Hint(s, Here)
    <3>1. Hint(s, Here) # NoHint
      BY DEF Hint, NoHint
    <3> QED
      BY <2>1, <2>3, <3>1
  <2>5. \A k \in 1 .. N : seen[k].status \notin R1Statuses
    BY <1>1, <1>3, <2>2 DEF CarriedTo
  <2>6. ASSUME NEW k \in 1 .. N' PROVE CarriedTo(k)'
    <3>1. CASE k = N + 1
      BY <1>1, <1>2, <2>2, <2>3, <2>4, <3>1 DEF CarriedTo, Here
    <3>2. CASE k \in 1 .. N
      BY <1>2, <2>5, <3>2 DEF CarriedTo
    <3> QED
      BY <1>2, <2>6, <3>1, <3>2
  <2> QED
    BY <1>1, <2>4, <2>6 DEF Told, AuthProblemIsReported
<1> QED
  BY <1>6, <1>7, <1>8

\* Every step keeps the user told.
LEMMA StepKeepsTold == IInv /\ Told /\ [Next]_vars => Told'
<1> SUFFICES ASSUME IInv, Told, [Next]_vars PROVE Told'
  OBVIOUS
<1>1. TypeOK /\ N \in Nat /\ attempt \in 1 .. 2
  BY DEF IInv, TypeOK, N, PER_PLATFORM_ATTEMPT_CAP
<1>2. ASSUME NEW c \in Chains, NEW l \in Lineages, Execute(c, l)
      PROVE  Told'
  <2>1. N = 0 /\ seen' = seen /\ chain' = c
    BY <1>2 DEF IInv, Standing, Execute
  <2> QED
    BY <2>1 DEF Told, AuthProblemIsReported, N
<1>3. CASE SkipMissing
  <2>1. "provider_unavailable" \in Statuses \ R1Statuses
    BY DEF Statuses, PreflightStatuses, R1Statuses
  <2>2. last'.platform # None /\ index \in Nat \ {0}
    BY <1>1, <1>3, PlatformsAssumption DEF SkipMissing, TypeOK, Here
  <2> QED
    BY <1>3, <2>1, <2>2, HarmlessIsTold DEF SkipMissing
<1>4. CASE PreflightPasses
  BY <1>4 DEF PreflightPasses, Told, CarriedTo, AuthProblemIsReported, N
<1>5. CASE RunSucceeds
  <2>1. /\ "succeeded" \in Statuses \ R1Statuses /\ "succeeded" \in Statuses
        /\ Ran("succeeded")
    BY <1>5 DEF RunSucceeds, Statuses, PreflightStatuses, R1Statuses
  <2>2. /\ chain' = chain /\ pc = "run" /\ Saw("run", "succeeded") /\ index \in Nat \ {0}
        /\ Here \in Platforms
    BY <1>1, <2>1, RanTypes DEF TypeOK
  <2>3. /\ N' = N + 1 /\ \A k \in 1 .. N : seen'[k] = seen[k]
        /\ seen'[N + 1].status = "succeeded"
    BY <1>1, <2>1, <2>2, SawFacts
  <2>4. pc' = "done" /\ result'.hint = carry /\ last'.platform # None
    BY <1>5, <2>2, PlatformsAssumption DEF RunSucceeds, Return, Ran
  <2>5. ASSUME NEW k \in 1 .. N', seen'[k].status \in R1Statuses
        PROVE  result'.hint = Hint(seen'[k].status, chain'[seen'[k].at])
    <3>1. k \in 1 .. N
      BY <1>1, <2>1, <2>3, <2>5
    <3> QED
      BY <2>2, <2>3, <2>4, <2>5, <3>1 DEF Told, CarriedTo
  <2> QED
    BY <2>2, <2>4, <2>5 DEF Told, AuthProblemIsReported, N
<1>6. CASE ChainExhausted
  <2>1. seen' = seen /\ chain' = chain /\ last' = last /\ pc = "walk" /\ pc' = "done"
    BY <1>6 DEF ChainExhausted, Return
  <2>2. N > 0 => result'.hint = carry
    BY <1>6 DEF ChainExhausted, Return, Told
  <2>3. ASSUME NEW k \in 1 .. N, seen[k].status \in R1Statuses
        PROVE  result'.hint = Hint(seen[k].status, chain[seen[k].at])
    BY <1>1, <2>1, <2>2, <2>3 DEF Told, CarriedTo
  <2> QED
    BY <2>1, <2>3 DEF Told, AuthProblemIsReported, N
<1>7. ASSUME NEW s \in PreflightStatuses, PreflightFails(s)
      PROVE  Told'
  <2> DEFINE d == decide(s, 1, Here, NextPlatform)
  <2>1. s \in Statuses \ {"succeeded"}
    BY DEF Statuses, PreflightStatuses, R1Statuses
  <2>2. /\ Saw("preflight", s) /\ index \in 1 .. Len(chain) /\ chain' = chain /\ pc = "walk"
        /\ last'.platform = Here
    BY <1>1, <1>7 DEF PreflightFails, TypeOK
  <2>3. \/ /\ d.action = "stop" /\ pc' = "done"
           /\ result'.hint = d.hint /\ result'.platform = Here
        \/ /\ d.action # "stop" /\ pc' = "walk" /\ index' = index + 1
           /\ carry' = IF d.action = "fallback" /\ d.hint # NoHint THEN d.hint ELSE carry
    BY <1>7 DEF PreflightFails, FinaliseStop, Return, MoveOn
  <2> HIDE DEF d
  <2>4. d = decide(s, 1, Here, NextPlatform)
    BY DEF d
  <2> QED
    BY <2>1, <2>2, <2>3, <2>4, OutcomeIsTold
<1>8. ASSUME NEW s \in Statuses \ {"succeeded"}, RunFails(s)
      PROVE  Told'
  <2> DEFINE d == decide(s, attempt, Here, NextPlatform)
  <2>1. s \in Statuses /\ Ran(s)
    BY <1>8 DEF RunFails
  <2>2. /\ Saw("run", s) /\ index \in 1 .. Len(chain) /\ chain' = chain /\ pc = "run"
    BY <1>1, <2>1, RanTypes
  <2>3. last'.platform = Here
    BY <2>1 DEF Ran
  <2>4. d.action \in {"stop", "fallback", "retry"}
    BY <1>1, <2>1, DecideTable
  <2>5. \/ /\ d.action = "stop" /\ pc' = "done"
           /\ result'.hint = d.hint /\ result'.platform = Here
        \/ /\ d.action # "stop" /\ pc' = "walk" /\ index' = index + 1
           /\ carry' = IF d.action = "fallback" /\ d.hint # NoHint THEN d.hint ELSE carry
        \/ d.action = "retry" /\ pc' = "run" /\ index' = index /\ carry' = carry
    <3>1. CASE d.action = "stop"
      BY <1>8, <3>1 DEF RunFails, FinaliseStop, Return
    <3>2. CASE d.action = "retry" /\ attempt < PER_PLATFORM_ATTEMPT_CAP
      BY <1>8, <2>2, <3>2 DEF RunFails
    <3>3. CASE d.action # "stop" /\ ~(d.action = "retry" /\ attempt < PER_PLATFORM_ATTEMPT_CAP)
      <4>1. MoveOn(d, Append(hooks, "attempt_failed"))
        BY <1>8, <3>3 DEF RunFails
      <4> QED
        BY <3>3, <4>1 DEF MoveOn
    <3> QED
      BY <3>1, <3>2, <3>3
  <2> HIDE DEF d
  <2>6. d = decide(s, attempt, Here, NextPlatform)
    BY DEF d
  <2> QED
    BY <1>1, <2>2, <2>3, <2>5, <2>6, OutcomeIsTold
<1>9. CASE UNCHANGED vars
  BY <1>9 DEF vars, Told, CarriedTo, AuthProblemIsReported, N
<1> QED
  BY <1>2, <1>3, <1>4, <1>5, <1>6, <1>7, <1>8, <1>9 DEF Next, Step

\* Whoever has to log in, trust a workspace or enable an API is told so at the
\* end of any walk down any chain with opencode at its end, or in front.
THEOREM UserIsTold == Spec => []AuthProblemIsReported
<1>1. Init => Told
  BY DEF Init, Told, AuthProblemIsReported, N
<1>2. Told => AuthProblemIsReported
  BY DEF Told
<1> QED
  BY <1>1, <1>2, StepKeepsTold, WalkInvariant, PTL DEF Spec

-----------------------------------------------------------------------------
(* The webhooks                                                            *)

\* The events so far are not terminal, or the last one is.
Closing(h, done) ==
  \A i \in DOMAIN h : h[i] \in {"succeeded", "failed"} <=> done /\ i = Len(h)

HooksInv ==
  /\ IsFiniteSet(Failures) /\ IsFiniteSet(Leavings)
  /\ Count("attempt_failed", hooks) = Cardinality(Failures)
  /\ Count("fallback", hooks) = Cardinality(Leavings)
  /\ Closing(hooks, pc = "done")

\* An event more.
LEMMA CountGrows ==
  ASSUME NEW h \in Seq(HookNames), NEW x \in HookNames, NEW e
  PROVE  LET h2 == Append(h, x) IN
         /\ h2 \in Seq(HookNames)
         /\ Count(e, h) \in Nat /\ Count(e, h2) = IF x = e THEN Count(e, h) + 1 ELSE Count(e, h)
         /\ x \notin {"succeeded", "failed"} /\ Closing(h, FALSE) => Closing(h2, FALSE)
         /\ x \in {"succeeded", "failed"} /\ Closing(h, FALSE) => Closing(h2, TRUE)
<1> DEFINE h2 == Append(h, x)
           at  == {i \in DOMAIN h : h[i] = e}
           at2 == {i \in DOMAIN h2 : h2[i] = e}
           n   == Len(h) + 1
<1>1. /\ h2 \in Seq(HookNames) /\ Len(h) \in Nat /\ DOMAIN h = 1 .. Len(h)
      /\ Len(h2) = n /\ DOMAIN h2 = 1 .. n /\ h2[n] = x
      /\ \A i \in DOMAIN h : h2[i] = h[i]
  OBVIOUS
<1> HIDE DEF h2
<1>2. n \notin DOMAIN h /\ DOMAIN h2 = DOMAIN h \cup {n}
  <2>1. n \notin 1 .. Len(h) /\ 1 .. n = 1 .. Len(h) \cup {n}
    BY <1>1
  <2> QED
    BY <1>1, <2>1
<1> HIDE DEF n
<1>3. IsFiniteSet(at) /\ Cardinality(at) \in Nat
  <2>1. IsFiniteSet(1 .. Len(h)) /\ at \in SUBSET (1 .. Len(h))
    BY <1>1, FS_Interval
  <2>2. IsFiniteSet(at)
    BY <2>1, FS_Subset
  <2> QED
    BY <2>2, FS_CardinalityType
<1>4. at2 = IF x = e THEN at \cup {n} ELSE at
  BY <1>1, <1>2
<1>5. n \notin at
  BY <1>2
<1> HIDE DEF at, at2
<1>6. Cardinality(at2) = IF x = e THEN Cardinality(at) + 1 ELSE Cardinality(at)
  BY <1>3, <1>4, <1>5, FS_AddElement
<1>7. Count(e, h) \in Nat /\ Count(e, h2) = IF x = e THEN Count(e, h) + 1 ELSE Count(e, h)
  BY <1>3, <1>6 DEF Count, at, at2
<1>8. x \notin {"succeeded", "failed"} /\ Closing(h, FALSE) => Closing(h2, FALSE)
  BY <1>1, <1>2 DEF Closing
<1>9. x \in {"succeeded", "failed"} /\ Closing(h, FALSE) => Closing(h2, TRUE)
  BY <1>1, <1>2 DEF Closing
<1> QED
  BY <1>1, <1>7, <1>8, <1>9 DEF h2

\* An outcome more: whether its platform was left shows in where the walk is.
LEMMA OutcomesGrow ==
  ASSUME IInv, HooksInv, index \in Nat \ {0}, pc \in {"walk", "run"}, index' \in Nat,
         NEW kind \in {"missing", "preflight", "run"}, NEW s \in Statuses, Saw(kind, s)
  PROVE  LET failed == kind # "missing" /\ s # "succeeded"
             left   == kind # "missing" /\ index' > index IN
         /\ IsFiniteSet(Failures)' /\ IsFiniteSet(Leavings)'
         /\ Cardinality(Failures) \in Nat /\ Cardinality(Leavings) \in Nat
         /\ Cardinality(Failures') =
              IF failed THEN Cardinality(Failures) + 1 ELSE Cardinality(Failures)
         /\ Cardinality(Leavings') =
              IF left THEN Cardinality(Leavings) + 1 ELSE Cardinality(Leavings)
<1>0. PICK n \in Nat : n = N + 1
  <2>1. N \in Nat
    BY SawFacts DEF IInv
  <2> QED
    BY <2>1
<1>1. /\ N \in Nat /\ N' = n
      /\ \A k \in 1 .. N : seen'[k] = seen[k]
      /\ seen'[n].at = index /\ seen'[n].kind = kind /\ seen'[n].status = s
      /\ DOMAIN seen = 1 .. N /\ DOMAIN seen' = 1 .. n
  <2>1. /\ N \in Nat /\ N' = n
        /\ \A k \in 1 .. N : seen'[k] = seen[k]
        /\ seen'[n].at = index /\ seen'[n].kind = kind /\ seen'[n].status = s
        /\ seen' \in Seq([at : Nat \ {0}, kind : {"missing", "preflight", "run"},
                          status : Statuses])
    BY <1>0, SawFacts DEF IInv
  <2>2. DOMAIN seen = 1 .. N
    BY DEF IInv, TypeOK, N
  <2>3. DOMAIN seen' = 1 .. N'
    BY <2>1 DEF N
  <2> QED
    BY <2>1, <2>2, <2>3
<1>2. n \notin DOMAIN seen /\ DOMAIN seen' = DOMAIN seen \cup {n}
  <2>1. n \notin 1 .. N /\ 1 .. n = 1 .. N \cup {n}
    BY <1>0, <1>1
  <2> QED
    BY <1>1, <2>1
<1>3. \A k \in DOMAIN seen : MovedOn(k)' <=> MovedOn(k)
  <2> SUFFICES ASSUME NEW k \in 1 .. N PROVE MovedOn(k)' <=> MovedOn(k)
    BY <1>1
  <2>1. k < N'
    BY <1>0, <1>1
  <2>2. MovedOn(k)' <=> FirstAt(k + 1)'
    BY <2>1 DEF MovedOn, N
  <2>3. k + 1 # 1 /\ (k + 1) - 1 = k
    BY <1>1
  <2>4. FirstAt(k + 1)' <=> seen'[k].at # seen'[k + 1].at
    BY <2>3 DEF FirstAt
  <2>5. CASE k < N
    <3>1. k + 1 \in 1 .. N
      BY <1>1, <2>5
    <3>2. seen'[k] = seen[k] /\ seen'[k + 1] = seen[k + 1]
      BY <1>1, <3>1
    <3>3. MovedOn(k) <=> seen[k].at # seen[k + 1].at
      BY <2>3, <2>5 DEF MovedOn, FirstAt, N
    <3> QED
      BY <2>2, <2>4, <3>2, <3>3
  <2>6. CASE k = N
    <3>1. ~(N < N) /\ N > 0
      BY <1>1, <2>6
    <3>2. MovedOn(k) <=> index > seen[N].at
      BY <2>6, <3>1 DEF MovedOn, N
    <3>3. seen[N].at = index - 1 \/ seen[N].at = index
      BY <3>1 DEF IInv, Standing, Arrived, Again
    <3>4. index > seen[N].at <=> seen[N].at # index
      BY <3>3
    <3>5. seen'[k] = seen[N] /\ seen'[k + 1].at = index
      BY <1>0, <1>1, <2>6
    <3> QED
      BY <2>2, <2>4, <3>2, <3>4, <3>5
  <2> QED
    BY <1>1, <2>5, <2>6
<1>4. MovedOn(n)' <=> index' > index
  <2>1. ~(n < N')
    BY <1>1
  <2>2. MovedOn(n)' <=> index' > seen'[n].at
    BY <2>1 DEF MovedOn, N
  <2> QED
    BY <1>1, <2>2
<1>5. \A k \in DOMAIN seen : seen'[k] = seen[k]
  BY <1>1
<1> DEFINE failed == kind # "missing" /\ s # "succeeded"
           left   == kind # "missing" /\ index' > index
<1>6. n \notin Failures /\ n \notin Leavings
  BY <1>2 DEF Failures, Leavings
<1>7. Failures' = IF failed THEN Failures \cup {n} ELSE Failures
  BY <1>1, <1>2, <1>5 DEF Failures
<1>8. Leavings' = IF left THEN Leavings \cup {n} ELSE Leavings
  <2>1. Leavings' = {k \in DOMAIN seen' : seen'[k].kind # "missing" /\ MovedOn(k)'}
    BY DEF Leavings
  <2>2. \A k \in DOMAIN seen' : seen'[k].kind # "missing" /\ MovedOn(k)' <=>
          \/ k \in Leavings
          \/ k = n /\ left
    BY <1>1, <1>2, <1>3, <1>4, <1>5 DEF Leavings
  <2>3. Leavings \subseteq DOMAIN seen'
    BY <1>2 DEF Leavings
  <2> QED
    BY <1>2, <2>1, <2>2, <2>3
<1> HIDE DEF failed, left
<1>9. IsFiniteSet(Failures) /\ IsFiniteSet(Leavings)
  BY DEF HooksInv
<1>10. Cardinality(Failures) \in Nat /\ Cardinality(Leavings) \in Nat
  BY <1>9, FS_CardinalityType
<1>11. /\ IsFiniteSet(Failures') /\ Cardinality(Failures') =
            IF failed THEN Cardinality(Failures) + 1 ELSE Cardinality(Failures)
  BY <1>6, <1>7, <1>9, FS_AddElement
<1>12. /\ IsFiniteSet(Leavings') /\ Cardinality(Leavings') =
            IF left THEN Cardinality(Leavings) + 1 ELSE Cardinality(Leavings)
  BY <1>6, <1>8, <1>9, FS_AddElement
<1> QED
  BY <1>10, <1>11, <1>12 DEF failed, left

\* A failed attempt: its event, and the one for what came of it.
LEMMA FailureIsTold ==
  ASSUME IInv, HooksInv, index \in Nat \ {0}, pc \in {"walk", "run"},
         NEW kind \in {"preflight", "run"}, NEW s \in Statuses \ {"succeeded"}, Saw(kind, s),
         \/ /\ index' = index /\ pc' = "done"
            /\ hooks' = Append(Append(hooks, "attempt_failed"), "failed")
         \/ /\ index' = index /\ pc' # "done"
            /\ hooks' = Append(hooks, "attempt_failed")
         \/ /\ index' = index + 1 /\ pc' # "done"
            /\ hooks' = Append(Append(hooks, "attempt_failed"), "fallback")
  PROVE  HooksInv'
<1> DEFINE sent == Append(hooks, "attempt_failed")
<1>1. /\ IsFiniteSet(Failures)' /\ IsFiniteSet(Leavings)'
      /\ Cardinality(Failures) \in Nat /\ Cardinality(Leavings) \in Nat
      /\ Cardinality(Failures') = Cardinality(Failures) + 1
      /\ Cardinality(Leavings') =
           IF index' > index THEN Cardinality(Leavings) + 1 ELSE Cardinality(Leavings)
  <2>1. s \in Statuses /\ s # "succeeded" /\ kind # "missing" /\ index' \in Nat
        /\ kind \in {"missing", "preflight", "run"}
    OBVIOUS
  <2> QED
    BY <2>1, OutcomesGrow
<1>2. /\ hooks \in Seq(HookNames) /\ pc # "done"
      /\ {"attempt_failed", "fallback", "failed"} \subseteq HookNames
  BY DEF IInv, TypeOK, HookNames
<1>3. /\ sent \in Seq(HookNames)
      /\ Count("attempt_failed", sent) = Count("attempt_failed", hooks) + 1
      /\ Count("fallback", sent) = Count("fallback", hooks)
      /\ Closing(sent, FALSE)
  <2>1. Closing(hooks, FALSE)
    BY <1>2 DEF HooksInv, Closing
  <2> QED
    BY <1>2, <2>1, CountGrows
<1>4. Count("attempt_failed", hooks) = Cardinality(Failures)
      /\ Count("fallback", hooks) = Cardinality(Leavings)
  BY DEF HooksInv
<1> HIDE DEF sent
<1>5. CASE index' = index /\ pc' = "done" /\ hooks' = Append(sent, "failed")
  <2>1. /\ Count("attempt_failed", hooks') = Count("attempt_failed", sent)
        /\ Count("fallback", hooks') = Count("fallback", sent)
        /\ Closing(hooks', TRUE)
    <3>1. \A e : Count(e, Append(sent, "failed")) =
                   IF "failed" = e THEN Count(e, sent) + 1 ELSE Count(e, sent)
      BY <1>2, <1>3, CountGrows
    <3>2. Closing(Append(sent, "failed"), TRUE)
      BY <1>2, <1>3, CountGrows
    <3> QED
      BY <1>5, <3>1, <3>2
  <2>2. ~(index' > index)
    BY <1>5
  <2>3. Closing(hooks', pc' = "done")
    BY <1>5, <2>1 DEF Closing
  <2>4. /\ Count("attempt_failed", hooks') = Cardinality(Failures')
        /\ Count("fallback", hooks') = Cardinality(Leavings')
    BY <1>1, <1>3, <1>4, <2>1, <2>2
  <2> QED
    BY <1>1, <2>3, <2>4 DEF HooksInv
<1>6. CASE index' = index /\ pc' # "done" /\ hooks' = sent
  <2>1. ~(index' > index)
    BY <1>6
  <2>2. Closing(hooks', pc' = "done")
    BY <1>3, <1>6 DEF Closing
  <2>3. /\ Count("attempt_failed", hooks') = Cardinality(Failures')
        /\ Count("fallback", hooks') = Cardinality(Leavings')
    BY <1>1, <1>3, <1>4, <1>6, <2>1
  <2> QED
    BY <1>1, <2>2, <2>3 DEF HooksInv
<1>7. CASE index' = index + 1 /\ pc' # "done" /\ hooks' = Append(sent, "fallback")
  <2>1. /\ Count("attempt_failed", hooks') = Count("attempt_failed", sent)
        /\ Count("fallback", hooks') = Count("fallback", sent) + 1
        /\ Closing(hooks', FALSE)
    BY <1>2, <1>3, <1>7, CountGrows
  <2>2. index' > index
    BY <1>7
  <2>3. Closing(hooks', pc' = "done")
    BY <1>7, <2>1 DEF Closing
  <2>4. /\ Count("attempt_failed", hooks') = Cardinality(Failures')
        /\ Count("fallback", hooks') = Cardinality(Leavings')
    BY <1>1, <1>3, <1>4, <2>1, <2>2
  <2> QED
    BY <1>1, <2>3, <2>4 DEF HooksInv
<1> QED
  BY <1>5, <1>6, <1>7 DEF sent

\* Every step sends the events that tell of it.
LEMMA StepKeepsHooks == IInv /\ HooksInv /\ [Next]_vars => HooksInv'
<1> SUFFICES ASSUME IInv, HooksInv, [Next]_vars PROVE HooksInv'
  OBVIOUS
<1>1. /\ TypeOK /\ index \in Nat \ {0} /\ hooks \in Seq(HookNames) /\ HookNames # {}
      /\ {"started", "succeeded", "failed"} \subseteq HookNames
  BY DEF IInv, TypeOK, HookNames
<1>2. ASSUME UNCHANGED <<seen, index>>
      PROVE  Failures' = Failures /\ Leavings' = Leavings
  BY <1>2 DEF Failures, Leavings, MovedOn, FirstAt
<1>3. \A x \in {"succeeded", "failed"} : pc \in {"walk", "run"} =>
        /\ Count("attempt_failed", Append(hooks, x)) = Count("attempt_failed", hooks)
        /\ Count("fallback", Append(hooks, x)) = Count("fallback", hooks)
        /\ Closing(Append(hooks, x), TRUE)
  <2> SUFFICES ASSUME NEW x \in {"succeeded", "failed"}, pc \in {"walk", "run"}
               PROVE  /\ Count("attempt_failed", Append(hooks, x)) = Count("attempt_failed", hooks)
                      /\ Count("fallback", Append(hooks, x)) = Count("fallback", hooks)
                      /\ Closing(Append(hooks, x), TRUE)
    OBVIOUS
  <2>1. Closing(hooks, FALSE)
    BY DEF HooksInv, Closing
  <2>2. x \in HookNames /\ x # "attempt_failed" /\ x # "fallback"
    BY DEF HookNames
  <2> QED
    BY <1>1, <2>1, <2>2, CountGrows
<1>4. ASSUME NEW c \in Chains, NEW l \in Lineages, Execute(c, l)
      PROVE  HooksInv'
  <2>1. seen = <<>> /\ seen' = seen
    BY <1>4 DEF Execute, IInv, Spent, TypeOK, N
  <2>2. Failures' = {} /\ Leavings' = {}
    BY <2>1 DEF Failures, Leavings
  <2>3. IsFiniteSet({}) /\ Cardinality({}) = 0
    BY FS_EmptySet
  <2>4. \A e : Count(e, <<>>) = 0
    <3>1. \A e : {i \in DOMAIN <<>> : <<>>[i] = e} = {}
      OBVIOUS
    <3> QED
      BY <2>3, <3>1 DEF Count
  <2>5. /\ Append(<<>>, "started") = <<"started">>
        /\ Append(<<"started">>, "failed") = <<"started">> \o <<"failed">>
    OBVIOUS
  <2>6. <<>> \in Seq(HookNames) /\ Closing(<<>>, FALSE)
    BY DEF Closing
  <2>7. /\ <<"started">> \in Seq(HookNames) /\ Closing(<<"started">>, FALSE)
        /\ Count("attempt_failed", <<"started">>) = 0 /\ Count("fallback", <<"started">>) = 0
    <3> DEFINE h == <<>>
    <3>1. h \in Seq(HookNames) /\ Closing(h, FALSE) /\ \A e : Count(e, h) = 0
      BY <2>4, <2>6
    <3>2. Append(h, "started") = <<"started">>
      BY <2>5
    <3> HIDE DEF h
    <3>3. "started" \in HookNames
      BY <1>1
    <3>4. /\ Append(h, "started") \in Seq(HookNames) /\ Closing(Append(h, "started"), FALSE)
          /\ Count("attempt_failed", Append(h, "started")) = Count("attempt_failed", h)
          /\ Count("fallback", Append(h, "started")) = Count("fallback", h)
      BY <3>1, <3>3, CountGrows
    <3> QED
      BY <3>1, <3>2, <3>4
  <2>8. LET h == <<"started">> \o <<"failed">> IN
        /\ Closing(h, TRUE)
        /\ Count("attempt_failed", h) = 0 /\ Count("fallback", h) = 0
    <3> DEFINE h == <<"started">>
    <3>1. "failed" \in HookNames
      BY <1>1
    <3>2. h \o <<"failed">> = Append(h, "failed")
      BY <2>5
    <3>3. /\ h \in Seq(HookNames) /\ Closing(h, FALSE)
          /\ Count("attempt_failed", h) = 0 /\ Count("fallback", h) = 0
      BY <2>7
    <3> HIDE DEF h
    <3>4. /\ Closing(Append(h, "failed"), TRUE)
          /\ Count("attempt_failed", Append(h, "failed")) = Count("attempt_failed", h)
          /\ Count("fallback", Append(h, "failed")) = Count("fallback", h)
      BY <3>1, <3>3, CountGrows
    <3> QED
      BY <3>2, <3>3, <3>4 DEF h
  <2>9. \/ pc' = "done" /\ hooks' = <<"started">> \o <<"failed">>
        \/ pc' = "walk" /\ hooks' = <<"started">>
    BY <1>4 DEF Execute, Return
  <2>10. Closing(hooks', pc' = "done")
    BY <2>7, <2>8, <2>9 DEF Closing
  <2> QED
    BY <2>2, <2>3, <2>7, <2>8, <2>9, <2>10 DEF HooksInv
<1>5. CASE SkipMissing
  <2>1. /\ Saw("missing", "provider_unavailable") /\ index' = index + 1
        /\ pc = "walk" /\ pc' = pc /\ hooks' = hooks
    BY <1>5 DEF SkipMissing
  <2>2. index' \in Nat /\ "provider_unavailable" \in Statuses
    BY <1>1, <2>1 DEF Statuses, PreflightStatuses
  <2>3. /\ IsFiniteSet(Failures)' /\ IsFiniteSet(Leavings)'
        /\ Cardinality(Failures') = Cardinality(Failures)
        /\ Cardinality(Leavings') = Cardinality(Leavings)
    BY <1>1, <2>1, <2>2, OutcomesGrow
  <2>4. Closing(hooks', pc' = "done")
    BY <2>1 DEF HooksInv
  <2> QED
    BY <2>1, <2>3, <2>4 DEF HooksInv
<1>6. CASE PreflightPasses
  <2>1. UNCHANGED <<seen, index>> /\ hooks' = hooks /\ pc # "done" /\ pc' # "done"
    BY <1>6 DEF PreflightPasses
  <2>2. Closing(hooks', pc' = "done")
    BY <2>1 DEF HooksInv, Closing
  <2> QED
    BY <1>2, <2>1, <2>2 DEF HooksInv
<1>7. CASE RunSucceeds
  <2>1. /\ Ran("succeeded") /\ index' = index /\ pc' = "done"
        /\ hooks' = hooks \o <<"succeeded">>
    BY <1>7 DEF RunSucceeds, Return
  <2>2. Saw("run", "succeeded") /\ pc = "run"
    BY <2>1 DEF Ran
  <2>3. hooks' = Append(hooks, "succeeded")
    BY <1>1, <2>1
  <2>4. "succeeded" \in Statuses /\ ~(index' > index) /\ index' \in Nat
    BY <1>1, <2>1 DEF Statuses
  <2>5. /\ IsFiniteSet(Failures)' /\ IsFiniteSet(Leavings)'
        /\ Cardinality(Failures') = Cardinality(Failures)
        /\ Cardinality(Leavings') = Cardinality(Leavings)
    BY <1>1, <2>2, <2>4, OutcomesGrow
  <2>6. Closing(hooks', pc' = "done")
    BY <1>3, <2>1, <2>2, <2>3 DEF Closing
  <2> QED
    BY <1>3, <2>2, <2>3, <2>5, <2>6 DEF HooksInv
<1>8. CASE ChainExhausted
  <2>1. /\ UNCHANGED <<seen, index>> /\ pc = "walk" /\ pc' = "done"
        /\ \E x \in {"succeeded", "failed"} : hooks' = hooks \o <<x>>
    BY <1>8 DEF ChainExhausted, Return
  <2>2. PICK x \in {"succeeded", "failed"} : hooks' = hooks \o <<x>>
    BY <2>1
  <2>3. hooks' = Append(hooks, x)
    BY <1>1, <2>2
  <2>4. Closing(hooks', pc' = "done")
    BY <1>3, <2>1, <2>3 DEF Closing
  <2>5. /\ Count("attempt_failed", hooks') = Count("attempt_failed", hooks)
        /\ Count("fallback", hooks') = Count("fallback", hooks)
    BY <1>3, <2>1, <2>3
  <2> QED
    BY <1>2, <2>1, <2>4, <2>5 DEF HooksInv
<1>9. ASSUME NEW s \in PreflightStatuses, PreflightFails(s)
       PROVE  HooksInv'
  <2> DEFINE d == decide(s, 1, Here, NextPlatform)
             sent == Append(hooks, "attempt_failed")
  <2>1. s \in Statuses \ {"succeeded"} /\ s \notin {"network", "timeout", "unknown"}
    BY DEF Statuses, PreflightStatuses, R1Statuses
  <2>2. d.action \in {"stop", "fallback"}
    BY <2>1, DecideTable
  <2>3. sent \in Seq(HookNames)
    BY <1>1 DEF HookNames
  <2>4. Saw("preflight", s) /\ pc = "walk"
    BY <1>9 DEF PreflightFails
  <2>5. \/ /\ index' = index /\ pc' = "done" /\ hooks' = sent \o <<"failed">>
        \/ /\ index' = index + 1 /\ pc' # "done" /\ hooks' = Append(sent, "fallback")
    BY <1>9, <2>1, <2>2 DEF PreflightFails, FinaliseStop, Return, MoveOn
  <2>6. sent \o <<"failed">> = Append(sent, "failed")
    BY <2>3
  <2> HIDE DEF d
  <2> QED
    BY <1>1, <2>1, <2>4, <2>5, <2>6, FailureIsTold
<1>10. ASSUME NEW s \in Statuses \ {"succeeded"}, RunFails(s)
       PROVE  HooksInv'
  <2> DEFINE d == decide(s, attempt, Here, NextPlatform)
             sent == Append(hooks, "attempt_failed")
  <2>1. Ran(s) /\ s \in Statuses /\ attempt \in 1 .. 2
    BY <1>1, <1>10 DEF RunFails, TypeOK, PER_PLATFORM_ATTEMPT_CAP
  <2>2. /\ d.action \in {"stop", "fallback", "retry"}
        /\ d.action = "retry" => attempt < PER_PLATFORM_ATTEMPT_CAP
    BY <2>1, DecideTable DEF PER_PLATFORM_ATTEMPT_CAP
  <2>3. sent \in Seq(HookNames)
    BY <1>1 DEF HookNames
  <2>4. Saw("run", s) /\ pc = "run"
    BY <2>1 DEF Ran
  <2>5. \/ /\ index' = index /\ pc' = "done" /\ hooks' = sent \o <<"failed">>
        \/ /\ index' = index /\ pc' # "done" /\ hooks' = sent
        \/ /\ index' = index + 1 /\ pc' # "done" /\ hooks' = Append(sent, "fallback")
    <3>1. CASE d.action = "stop"
      BY <1>10, <3>1 DEF RunFails, FinaliseStop, Return
    <3>2. CASE d.action = "retry"
      BY <1>10, <2>2, <2>4, <3>2 DEF RunFails
    <3>3. CASE d.action = "fallback"
      BY <1>10, <3>3 DEF RunFails, MoveOn
    <3> QED
      BY <2>2, <3>1, <3>2, <3>3
  <2>6. sent \o <<"failed">> = Append(sent, "failed")
    BY <2>3
  <2> HIDE DEF d
  <2> QED
    BY <1>1, <2>1, <2>4, <2>5, <2>6, FailureIsTold
<1>11. CASE UNCHANGED vars
  <2>1. UNCHANGED <<seen, index>> /\ hooks' = hooks /\ pc' = pc
    BY <1>11 DEF vars
  <2> QED
    BY <1>2, <2>1 DEF HooksInv
<1> QED
  BY <1>4, <1>5, <1>6, <1>7, <1>8, <1>9, <1>10, <1>11 DEF Next, Step

\* Whoever receives the webhooks can tell every failure and every fallback of
\* the walk, on each of its exits, and when it is over.
THEOREM WebhooksTellTheWalk == Spec => []HooksTellWalk
<1>1. Init => HooksInv
  <2> SUFFICES ASSUME Init PROVE HooksInv
    OBVIOUS
  <2>1. seen = <<>> /\ hooks = <<>>
    BY DEF Init
  <2>2. Failures = {} /\ Leavings = {} /\ Closing(hooks, pc = "done")
    BY <2>1 DEF Failures, Leavings, Closing
  <2>3. \A e : {i \in DOMAIN hooks : hooks[i] = e} = {}
    BY <2>1
  <2> QED
    BY <2>2, <2>3, FS_EmptySet DEF HooksInv, Count
<1>2. HooksInv => HooksTellWalk
  BY DEF HooksInv, HooksTellWalk, Closing
<1> QED
  BY <1>1, <1>2, StepKeepsHooks, WalkInvariant, PTL DEF Spec
=============================================================================
