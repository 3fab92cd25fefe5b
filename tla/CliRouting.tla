----------------------------- MODULE CliRouting -----------------------------
(***************************************************************************)
(* How a chat turn of one tenant finds its CLI: agent_router chooses a     *)
(* platform, cli_platform_resolver builds the chain, and the legacy walk   *)
(* tries it, marking platforms that ran out of quota or lost their login.  *)
(* Marks live in Redis, shared by all processes, or in the process when    *)
(* Redis does not answer.  CliExecutor takes the same chains when the      *)
(* tenant's flag selects the resilient walk.                               *)
(***************************************************************************)
EXTENDS Naturals, Sequences

CONSTANTS
  Processes,   \* api processes, each serving one turn at a time
  Paid,        \* platforms that need a credential
  opencode,    \* the local floor
  Ranked,      \* Ranked[S]: the platforms of S in the order of _DEFAULT_PRIORITY
  Connected,   \* the platforms the tenant has credentials for
  Explorable,  \* platforms exploration and RL may choose
  None,        \* no platform
  MaxTurns     \* bound: turns, and restarts

Platforms == Paid \cup {opencode}

ASSUME RoutingAssumption ==
  /\ opencode \notin Paid /\ None \notin Platforms
  /\ Connected \subseteq Paid /\ Explorable \subseteq Paid
  /\ Ranked \in [SUBSET Paid -> Seq(Paid)]
  /\ \A S \in SUBSET Paid :
       /\ Ranked[S] \in Seq(S)
       /\ \A i, k \in DOMAIN Ranked[S] : i # k => Ranked[S][i] # Ranked[S][k]
  /\ MaxTurns \in Nat

\* Classes of outcomes, by what the walk does: "quota" also stands for
\* "auth", "missing_credential" for an exception, "empty" for "mint_failed".
Cooling   == {"quota"}
FallsBack == Cooling \cup {"missing_credential"}
Outcomes  == {"answer", "empty"} \cup FallsBack

VARIABLES
  up,       \* Redis answers
  cool,     \* Redis: platforms with a cooldown key
  local,    \* local[c]: _local_cooldown of process c
  client,   \* client[c]: the Redis singleton: unset, built or failed
  turn,     \* turn[c]: the turn that process c serves
  turns,    \* turns begun and restarts made so far
  marked,   \* history: live marks, with the process that made them
  flapped,  \* history: Redis was lost or came back
  earned    \* history: platforms that ran out of quota or lost their login

vars == <<up, cool, local, client, turn, turns, marked, flapped, earned>>
history == <<marked, flapped, earned>>
store == <<up, cool, local>>

Unresolved == <<>>
Idle == [pc |-> "idle", requested |-> None, chain |-> Unresolved, tried |-> <<>>, avoid |-> {}]

Init ==
  /\ up \in BOOLEAN
  /\ cool = {} /\ local = [c \in Processes |-> {}]
  /\ client = [c \in Processes |-> "unset"]
  /\ turn = [c \in Processes |-> Idle]
  /\ turns = 0
  /\ marked = {} /\ flapped = FALSE /\ earned = {}

-----------------------------------------------------------------------------
(* Cooldowns                                                               *)

\* _redis_client: built at the first use; once it failed, failed for good.
Client(c) == IF client[c] # "unset" THEN client[c] ELSE IF up THEN "built" ELSE "failed"
UseClient(c) == client' = [client EXCEPT ![c] = Client(c)]
InRedis(c) == Client(c) = "built" /\ up

\* is_in_cooldown and get_active_cooldowns: the dictionary of the process
\* counts only while Redis does not answer.
CooldownsSeen(c) == IF InRedis(c) THEN cool ELSE local[c]

\* Mutant of MarkCooldown: also after a missing credential or an exception.
MarkCooldown_Any(c, p, class) ==
  IF p # opencode
    THEN /\ IF InRedis(c) THEN cool' = cool \cup {p} /\ UNCHANGED local
                          ELSE local' = [local EXCEPT ![c] = @ \cup {p}] /\ UNCHANGED cool
         /\ marked' = marked \cup {<<p, c>>}
         /\ UseClient(c)
    ELSE UNCHANGED <<cool, local, marked, client>>

\* mark_cooldown, for a class that cools; the floor is never cooled.
MarkCooldown(c, p, class) ==
  IF class \in Cooling /\ p # opencode
    THEN /\ IF InRedis(c) THEN cool' = cool \cup {p} /\ UNCHANGED local
                          ELSE local' = [local EXCEPT ![c] = @ \cup {p}] /\ UNCHANGED cool
         /\ marked' = marked \cup {<<p, c>>}
         /\ UseClient(c)
    ELSE UNCHANGED <<cool, local, marked, client>>

\* Mutant of ResolveChain: the explicit platform is not filtered.
ResolveChain_ExplicitHot(explicit, ok, cooling) ==
  LET available == IF ok THEN Connected ELSE {}
      head == IF explicit # None /\ (~ok \/ explicit \in available \cup {opencode})
                THEN <<explicit>> ELSE <<>>
      rest == Ranked[(available \ cooling) \ {explicit}]
      floor == IF head = <<opencode>> THEN <<>> ELSE <<opencode>>
  IN  head \o rest \o floor

\* resolve_cli_chain: the explicit platform if it is connected (or if the
\* query for connections failed), the other connected ones by priority,
\* none of them cooling, and the floor, which leads if it is explicit.
ResolveChain(explicit, ok, cooling) ==
  LET available == IF ok THEN Connected ELSE {}
      head == IF explicit # None /\ (~ok \/ explicit \in available \cup {opencode})
                 /\ explicit \notin cooling
                THEN <<explicit>> ELSE <<>>
      rest == Ranked[(available \ cooling) \ {explicit}]
      floor == IF head = <<opencode>> THEN <<>> ELSE <<opencode>>
  IN  head \o rest \o floor

-----------------------------------------------------------------------------
(* A turn                                                                  *)

\* Cooldowns that process c must know of: its own, and in Redis everyone's.
MustAvoid(c) == {p \in Paid : \E d \in Processes : <<p, d>> \in marked /\ (d = c \/ up)}

\* The tenant's or the agent's platform; the pin probe resolves the chain
\* at once unless that platform is a paid one.
Begin(c, explicit) ==
  /\ turn[c].pc = "idle" /\ turns < MaxTurns
  /\ turns' = turns + 1
  /\ \E ok \in BOOLEAN :
       turn' = [turn EXCEPT ![c] =
         [Idle EXCEPT !.pc = "select", !.requested = explicit, !.avoid = MustAvoid(c),
                      !.chain = IF explicit \in Paid THEN Unresolved
                                ELSE ResolveChain(explicit, ok, CooldownsSeen(c))]]
  /\ IF explicit \in Paid THEN UNCHANGED client ELSE UseClient(c)
  /\ UNCHANGED <<store, history>>

\* A cooling platform is surrendered; exploration or RL may choose another
\* that is not cooling, a policy rollout any.
Select(c) ==
  /\ turn[c].pc = "select"
  /\ LET cooling == CooldownsSeen(c)
         kept == IF turn[c].requested \in cooling THEN None ELSE turn[c].requested
     IN  \E choice \in {kept} \cup (Explorable \ cooling) \cup Platforms :
           turn' = [turn EXCEPT ![c].pc = "dispatch", ![c].requested = choice]
  /\ UseClient(c)
  /\ UNCHANGED <<store, turns, history>>

\* A chain from the probe is used as it is, whatever was chosen since.  The
\* resolver catches its own errors, so it never raises here.
Dispatch(c) ==
  /\ turn[c].pc = "dispatch"
  /\ \E ok \in BOOLEAN :
       turn' = [turn EXCEPT ![c].pc = "walk",
                            ![c].chain = IF @ # Unresolved THEN @
                              ELSE ResolveChain(turn[c].requested, ok, CooldownsSeen(c))]
  /\ IF turn[c].chain # Unresolved THEN UNCHANGED client ELSE UseClient(c)
  /\ UNCHANGED <<store, turns, history>>

Here(t) == t.chain[Len(t.tried) + 1]

\* Mutant of AfterAttempt: an empty answer tries the next platform.
AfterAttempt_GoesOn(t, o) ==
  LET tried == Append(t.tried, [platform |-> Here(t), outcome |-> o])
      over  == o = "answer" \/ Len(tried) = Len(t.chain)
  IN  [t EXCEPT !.tried = tried, !.pc = IF over THEN "done" ELSE "walk"]

\* One pass of the loop: what the turn knows after outcome o, and whether
\* the walk goes on.
AfterAttempt(t, o) ==
  LET tried == Append(t.tried, [platform |-> Here(t), outcome |-> o])
      over  == o \notin FallsBack \/ Len(tried) = Len(t.chain)
  IN  [t EXCEPT !.tried = tried, !.pc = IF over THEN "done" ELSE "walk"]

Attempt(c, o) ==
  /\ turn[c].pc = "walk"
  /\ turn' = [turn EXCEPT ![c] = AfterAttempt(@, o)]
  /\ MarkCooldown(c, Here(turn[c]), o)
  /\ earned' = IF o \in Cooling THEN earned \cup {Here(turn[c])} ELSE earned
  /\ UNCHANGED <<up, turns, flapped>>

Return(c) ==
  /\ turn[c].pc = "done"
  /\ turn' = [turn EXCEPT ![c] = Idle]
  /\ UNCHANGED <<store, client, turns, history>>

-----------------------------------------------------------------------------
(* The environment                                                         *)

\* Nobody has to avoid p because of these marks any more.
Forget(gone) ==
  /\ marked' = marked \ gone
  /\ turn' = [c \in Processes |->
       [turn[c] EXCEPT !.avoid = @ \ {m[1] : m \in gone}]]

\* A key of Redis reaches its TTL, or an entry of a dictionary does.
KeyExpires(p) ==
  /\ p \in cool
  /\ cool' = cool \ {p}
  /\ Forget({m \in marked : m[1] = p /\ p \notin local[m[2]]})
  /\ UNCHANGED <<up, local, client, turns, flapped, earned>>

EntryExpires(c, p) ==
  /\ p \in local[c]
  /\ local' = [local EXCEPT ![c] = @ \ {p}]
  /\ Forget({m \in marked : m = <<p, c>>})
  /\ UNCHANGED <<up, cool, client, turns, flapped, earned>>

\* Redis stops answering, or answers again with its keys.
RedisFlaps ==
  /\ ~flapped    \* bound: once
  /\ up' = ~up
  /\ flapped' = TRUE
  /\ UNCHANGED <<cool, local, client, turn, turns, marked, earned>>

\* A process restarts: its dictionary, its client and its turn are gone.
Restart(c) ==
  /\ turns < MaxTurns
  /\ turns' = turns + 1
  /\ turn' = [turn EXCEPT ![c] = Idle]
  /\ local' = [local EXCEPT ![c] = {}]
  /\ client' = [client EXCEPT ![c] = "unset"]
  /\ marked' = marked \ {<<p, c>> : p \in local[c]}
  /\ UNCHANGED <<up, cool, flapped, earned>>

-----------------------------------------------------------------------------
Serve(c) == Select(c) \/ Dispatch(c) \/ (\E o \in Outcomes : Attempt(c, o)) \/ Return(c)

Next ==
  \/ \E c \in Processes :
       Serve(c) \/ Restart(c) \/ \E e \in Platforms \cup {None} : Begin(c, e)
  \/ \E p \in Paid : KeyExpires(p) \/ \E c \in Processes : EntryExpires(c, p)
  \/ RedisFlaps

Spec == Init /\ [][Next]_vars

-----------------------------------------------------------------------------
(* What must hold                                                          *)

TypeOK ==
  /\ up \in BOOLEAN /\ flapped \in BOOLEAN
  /\ cool \subseteq Paid /\ local \in [Processes -> SUBSET Paid]
  /\ client \in [Processes -> {"unset", "built", "failed"}]
  /\ turn \in [Processes ->
       [pc : {"idle", "select", "dispatch", "walk", "done"},
        requested : Platforms \cup {None}, chain : Seq(Platforms),
        tried : Seq([platform : Platforms, outcome : Outcomes]),
        avoid : SUBSET Paid]]
  /\ turns \in 0 .. MaxTurns
  /\ marked \subseteq Paid \X Processes /\ earned \subseteq Platforms

\* Every chain the walk gets is one that CliExecutor is checked on: the floor
\* is there, last or chosen to be first, and no platform comes twice.
ChainIsResolvable ==
  \A c \in Processes :
    LET chain == turn[c].chain IN
      chain # Unresolved =>
        /\ \A i, k \in DOMAIN chain : i # k => chain[i] # chain[k]
        /\ opencode \in {chain[1], chain[Len(chain)]}

\* While Redis does not come or go, no turn tries a platform that ran out of
\* quota or lost its login before the turn began, in any process if Redis
\* answers, until the mark expires.
CooledIsSkipped ==
  ~flapped =>
    \A c \in Processes : \A i \in DOMAIN turn[c].tried :
      turn[c].tried[i].platform \notin turn[c].avoid

\* A turn uses up a tenant's other quotas only after a failure that says
\* nothing about them, and gives up without an answer only after a failure
\* that stops it or when the floor has failed too.
WalkIsContained ==
  \A c \in Processes :
    LET t == turn[c]  n == Len(t.tried) IN
      /\ \A i \in 1 .. n - 1 : t.tried[i].outcome \in FallsBack
      /\ t.pc = "done" /\ t.tried[n].outcome \in FallsBack =>
           \E i \in 1 .. n : t.tried[i].platform = opencode

\* Only a platform that ran out of quota or lost its login is ever cooled,
\* and never the floor: a missing credential is fixed in seconds.
MarksAreEarned ==
  \A p \in cool \cup UNION {local[c] : c \in Processes} : p \in earned /\ p # opencode
=============================================================================
