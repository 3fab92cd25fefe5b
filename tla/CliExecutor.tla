----------------------------- MODULE CliExecutor -----------------------------
(***************************************************************************)
(* ResilientExecutor.execute: one request walks a chain of CLI platforms,  *)
(* asking the fallback policy after every failure whether to retry, to     *)
(* fall back to the next platform, or to stop.  Adapters are the           *)
(* environment: a preflight may fail and a run may end in any status.      *)
(*                                                                         *)
(* Every return path is modelled with what it hands out: the result, and   *)
(* the webhook events sent on the way.  Positions of chain start at 1.     *)
(***************************************************************************)
EXTENDS Naturals, Sequences, FiniteSets

CONSTANTS
  Platforms,    \* CLI platforms
  opencode,     \* the local floor, which needs no credentials
  Registered,   \* the platforms an adapter is registered for
  Chains,       \* the chains a request may carry
  Lineages,     \* the parent chains a request may carry: sequences of agents
  None          \* no platform

ASSUME ChainsAssumption == Chains \subseteq Seq(Platforms)
ASSUME PlatformsAssumption == None \notin Platforms /\ opencode \in Platforms

\* resolve_cli_chain: opencode is the floor, unless the tenant chose it.
ASSUME FloorAssumption ==
  \A c \in Chains : \A i \in 1 .. Len(c) : c[i] = opencode => i \in {1, Len(c)}

MAX_FALLBACK_DEPTH == 3
PER_PLATFORM_ATTEMPT_CAP == 2

\* NEEDS_AUTH, WORKSPACE_UNTRUSTED and API_DISABLED: the user must act.
R1Statuses == {"needs_auth", "workspace_untrusted", "api_disabled"}
PreflightStatuses == R1Statuses \cup {"provider_unavailable"}
Statuses == PreflightStatuses \cup
  {"succeeded", "quota", "network", "timeout", "workflow_failed", "unknown"}

NoHint == <<>>
\* An i18n key: a status and, where the code appends it, the platform.
Hint(s, p) == <<s, p>>

VARIABLES
  chain, index, attempt,  \* the chain, where the walk is, the attempt there
  pc,                     \* idle, walk (preflight next), run, done
  attempted,              \* platform_attempted
  last,                   \* last_result: its status and platform
  carry,                  \* carry_hint
  hooks,                  \* the webhook events sent, in order
  result,                 \* what execute returned
  seen                    \* history: every outcome an adapter produced

vars == <<chain, index, attempt, pc, attempted, last, carry, hooks, result, seen>>

NoResult == [status |-> "none", platform |-> None, hint |-> NoHint,
             attempted |-> <<>>, attempts |-> 0]

Init ==
  /\ chain = <<>> /\ index = 1 /\ attempt = 1
  /\ pc = "idle"
  /\ attempted = <<>>
  /\ last = [status |-> "none", platform |-> None]
  /\ carry = NoHint
  /\ hooks = <<>>
  /\ result = NoResult
  /\ seen = <<>>

Here == chain[index]
NextPlatform == IF index < Len(chain) THEN chain[index + 1] ELSE None

-----------------------------------------------------------------------------
(* policy.decide                                                           *)

Stop(h)     == [action |-> "stop", hint |-> h]
Fallback(h) == [action |-> "fallback", hint |-> h]
Retry       == [action |-> "retry", hint |-> NoHint]

\* Mutant of decide: the second timeout is retried too.
decide_TimeoutAgain(s, n, p, next) ==
  CASE s = "succeeded" -> Stop(NoHint)
    [] s \in R1Statuses -> IF next = opencode THEN Fallback(Hint(s, p)) ELSE Stop(Hint(s, p))
    [] s \in {"quota", "provider_unavailable"} -> Fallback(NoHint)
    [] s \in {"network", "timeout"} -> Retry
    [] s = "workflow_failed" -> Stop(Hint(s, None))
    [] s = "unknown" -> IF n = 1 THEN Retry ELSE Stop(Hint(s, None))

\* What to do after status s on attempt n at platform p, next being next.
decide(s, n, p, next) ==
  CASE s = "succeeded" -> Stop(NoHint)
    [] s \in R1Statuses -> IF next = opencode THEN Fallback(Hint(s, p)) ELSE Stop(Hint(s, p))
    [] s \in {"quota", "provider_unavailable"} -> Fallback(NoHint)
    [] s \in {"network", "timeout"} -> IF n = 1 THEN Retry ELSE Fallback(NoHint)
    [] s = "workflow_failed" -> Stop(Hint(s, None))
    [] s = "unknown" -> IF n = 1 THEN Retry ELSE Stop(Hint(s, None))

-----------------------------------------------------------------------------
(* execute                                                                 *)

\* _emit_metrics, the RL mirror and the last webhook, then return.
Return(status, platform, hint, tried, attempts, sent) ==
  /\ result' = [status |-> status, platform |-> platform, hint |-> hint,
                attempted |-> tried, attempts |-> attempts]
  /\ hooks' = sent \o <<IF status = "succeeded" THEN "succeeded" ELSE "failed">>
  /\ pc' = "done"

\* _enforce_recursion_gate: too deep, or an agent twice in the lineage.
Refused(lineage) ==
  \/ Len(lineage) >= MAX_FALLBACK_DEPTH
  \/ \E i, k \in 1 .. Len(lineage) : i # k /\ lineage[i] = lineage[k]

RefusalHint(lineage) ==
  Hint(IF Len(lineage) >= MAX_FALLBACK_DEPTH THEN "recursion_depth_exceeded"
                                             ELSE "recursion_cycle", None)

Execute(c, lineage) ==
  /\ pc = "idle"
  /\ chain' = c
  /\ IF Refused(lineage)
       THEN Return("provider_unavailable", IF c = <<>> THEN None ELSE c[1],
                   RefusalHint(lineage), <<>>, 0, <<"started">>)
       ELSE pc' = "walk" /\ hooks' = <<"started">> /\ UNCHANGED result
  /\ UNCHANGED <<index, attempt, attempted, last, carry, seen>>

Saw(kind, s) == seen' = Append(seen, [at |-> index, kind |-> kind, status |-> s])

\* No adapter: a synthetic result, for which the policy is not asked.
SkipMissing ==
  /\ pc = "walk" /\ index <= Len(chain) /\ Here \notin Registered
  /\ attempted' = Append(attempted, Here)
  /\ last' = [status |-> "provider_unavailable", platform |-> Here]
  /\ Saw("missing", "provider_unavailable")
  /\ index' = index + 1
  /\ UNCHANGED <<chain, attempt, pc, carry, hooks, result>>

\* Leave the platform for the next one, keeping a fallback's hint.
MoveOn(d, sent) ==
  /\ index' = index + 1
  /\ pc' = "walk"
  /\ IF d.action = "fallback"
       THEN /\ hooks' = Append(sent, "fallback")
            /\ carry' = IF d.hint # NoHint THEN d.hint ELSE carry
       ELSE hooks' = sent /\ UNCHANGED carry
  /\ UNCHANGED <<attempt, result>>

\* _finalise_stop keeps the attempt_count of the result it is given: 0 after
\* a preflight, 1 after a run, the attempt's number after a run that raised.
FinaliseStop(s, h, tried, attempts, sent) ==
  /\ Return(s, Here, h, tried, attempts, sent)
  /\ UNCHANGED <<index, attempt, carry>>

\* A failed preflight is final for its platform: "retry" moves on as well.
PreflightFails(s) ==
  /\ pc = "walk" /\ index <= Len(chain) /\ Here \in Registered
  /\ attempted' = Append(attempted, Here)
  /\ last' = [status |-> s, platform |-> Here]
  /\ Saw("preflight", s)
  /\ LET d    == decide(s, 1, Here, NextPlatform)
         sent == Append(hooks, "attempt_failed")
     IN  IF d.action = "stop" THEN FinaliseStop(s, d.hint, attempted', 0, sent)
                              ELSE MoveOn(d, sent)
  /\ UNCHANGED chain

\* Mutant of PreflightPasses: the attempt counter is not reset.
PreflightPasses_KeepsAttempt ==
  /\ pc = "walk" /\ index <= Len(chain) /\ Here \in Registered
  /\ pc' = "run"
  /\ UNCHANGED <<chain, index, attempt, attempted, last, carry, hooks, result, seen>>

PreflightPasses ==
  /\ pc = "walk" /\ index <= Len(chain) /\ Here \in Registered
  /\ attempt' = 1
  /\ pc' = "run"
  /\ UNCHANGED <<chain, index, attempted, last, carry, hooks, result, seen>>

IsIn(p, s) == \E i \in 1 .. Len(s) : s[i] = p

\* What run(req) returned or raised, classified: bookkeeping of both paths.
Ran(s) ==
  /\ pc = "run"
  /\ attempted' = IF IsIn(Here, attempted) THEN attempted ELSE Append(attempted, Here)
  /\ last' = [status |-> s, platform |-> Here]
  /\ Saw("run", s)
  /\ UNCHANGED chain

\* Mutant of RunSucceeds: the annotation is dropped on success.
RunSucceeds_NoAnnotation ==
  /\ Ran("succeeded")
  /\ Return("succeeded", Here, NoHint, attempted', 1, hooks)
  /\ UNCHANGED <<index, attempt, carry>>

\* _finalise_success: attempt_count stays the adapter's own, which is 1.
RunSucceeds ==
  /\ Ran("succeeded")
  /\ Return("succeeded", Here, carry, attempted', 1, hooks)
  /\ UNCHANGED <<index, attempt, carry>>

RunFails(s) ==
  /\ Ran(s)
  /\ LET d    == decide(s, attempt, Here, NextPlatform)
         sent == Append(hooks, "attempt_failed")
     IN  CASE d.action = "stop" ->
                \E n \in {1, attempt} : FinaliseStop(s, d.hint, attempted', n, sent)
           [] d.action = "retry" /\ attempt < PER_PLATFORM_ATTEMPT_CAP ->
                /\ attempt' = attempt + 1
                /\ hooks' = sent
                /\ UNCHANGED <<index, pc, carry, result>>
           [] OTHER -> MoveOn(d, sent)

\* The chain is exhausted: the last result, with all platforms tried.
ChainExhausted ==
  /\ pc = "walk" /\ index > Len(chain)
  /\ IF last.platform = None
       THEN Return("provider_unavailable", None, NoHint, <<>>, 0, hooks)
       ELSE Return(last.status, last.platform, carry, attempted, Len(attempted), hooks)
  /\ UNCHANGED <<chain, index, attempt, attempted, last, carry, seen>>

Step ==
  \/ SkipMissing \/ PreflightPasses \/ RunSucceeds \/ ChainExhausted
  \/ \E s \in PreflightStatuses : PreflightFails(s)
  \/ \E s \in Statuses \ {"succeeded"} : RunFails(s)

Next == (\E c \in Chains, l \in Lineages : Execute(c, l)) \/ Step

Spec == Init /\ [][Next]_vars

-----------------------------------------------------------------------------
(* What must hold                                                          *)

Results == [status : Statuses \cup {"none"}, platform : Platforms \cup {None},
            hint : {NoHint} \cup ((Statuses \cup {"recursion_depth_exceeded", "recursion_cycle"})
                                  \X (Platforms \cup {None})),
            attempted : Seq(Platforms), attempts : Nat]

TypeOK ==
  /\ chain \in Seq(Platforms)
  /\ index \in 1 .. Len(chain) + 1
  /\ attempt \in 1 .. PER_PLATFORM_ATTEMPT_CAP
  /\ pc \in {"idle", "walk", "run", "done"}
  /\ pc = "run" => index <= Len(chain)
  /\ attempted \in Seq(Platforms)
  /\ last \in [status : Statuses \cup {"none"}, platform : Platforms \cup {None}]
  /\ carry \in {NoHint} \cup (R1Statuses \X Platforms)
  /\ hooks \in Seq({"started", "attempt_failed", "fallback", "succeeded", "failed"})
  /\ result \in Results
  /\ seen \in Seq([at : Nat \ {0}, kind : {"missing", "preflight", "run"}, status : Statuses])

\* A request costs at most two outcomes per platform of its chain, whatever
\* the adapters answer: CLI runs take minutes and are billed.
RunsAreBounded == Len(seen) <= PER_PLATFORM_ATTEMPT_CAP * Len(chain)

FirstAt(k) == k = 1 \/ seen[k - 1].at # seen[k].at

\* The walk as a whole obeys the table in policy.py's docstring: a platform
\* is tried again once, after a failure that may be transient; the next one
\* is tried only after a failure that allows it, and none is skipped.
WalkFollowsTable ==
  \A k \in 1 .. Len(seen) - 1 :
    LET s == seen[k].status  from == seen[k].at  to == seen[k + 1].at IN
      \/ /\ to = from /\ FirstAt(k)
         /\ seen[k].kind = "run" /\ s \in {"network", "timeout", "unknown"}
      \/ /\ to = from + 1
         /\ \/ seen[k].kind = "missing"
            \/ s \in {"quota", "provider_unavailable"}
            \/ s \in R1Statuses /\ chain[to] = opencode
            \/ s \in {"network", "timeout"} /\ ~FirstAt(k)

\* A user whose login, trust or API access stopped a platform is told so in
\* the end, also when opencode answered instead, unless opencode itself
\* ended the walk with a problem of its own.
AuthProblemIsReported ==
  pc = "done" =>
    \A k \in 1 .. Len(seen) :
      seen[k].status \in R1Statuses =>
        \/ result.hint = Hint(seen[k].status, chain[seen[k].at])
        \/ /\ result.platform = opencode
           /\ result.hint # NoHint

Count(e, s) == Cardinality({i \in DOMAIN s : s[i] = e})

\* Left for another platform, or for the end of the chain.
MovedOn(k) == IF k < Len(seen) THEN FirstAt(k + 1) ELSE index > seen[k].at

\* The outcomes that are failures of an attempt, and the ones that a platform
\* was left after.
Failures == {k \in DOMAIN seen : seen[k].kind # "missing" /\ seen[k].status # "succeeded"}
Leavings == {k \in DOMAIN seen : seen[k].kind # "missing" /\ MovedOn(k)}

\* The webhook consumer can reconstruct the walk: one event per failed
\* outcome, one per fallback, and exactly one terminal event, the last.
HooksTellWalk ==
  /\ Count("attempt_failed", hooks) = Cardinality(Failures)
  /\ Count("fallback", hooks) = Cardinality(Leavings)
  /\ \A i \in DOMAIN hooks :
       hooks[i] \in {"succeeded", "failed"} <=> pc = "done" /\ i = Len(hooks)
=============================================================================
