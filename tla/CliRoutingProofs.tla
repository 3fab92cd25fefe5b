-------------------------- MODULE CliRoutingProofs --------------------------
(***************************************************************************)
(* CliRouting for any processes, platforms and order of preference.        *)
(*                                                                         *)
(* The argument: while Redis does not come or go, all processes agree on   *)
(* where marks live, so a turn sees every mark it must respect when its    *)
(* chain is resolved; what it has tried is always a prefix of that chain.  *)
(***************************************************************************)
EXTENDS CliRouting, SequenceTheorems, TLAPS

\* Where the marks that concern process c live.
Faced(c) == IF up THEN cool ELSE local[c]

\* Redis was there from the beginning, or never.
MarksAgree ==
  ~flapped =>
    /\ \A c \in Processes : client[c] # (IF up THEN "failed" ELSE "built")
    /\ IF up THEN \A c \in Processes : local[c] = {} ELSE cool = {}
    /\ \A m \in marked : m[1] \in Faced(m[2])

\* A turn avoids live marks only, and its chain has none of them.
ChainAvoids ==
  ~flapped =>
    \A c \in Processes :
      /\ turn[c].avoid \subseteq Faced(c)
      /\ \A i \in DOMAIN turn[c].chain : turn[c].chain[i] \notin turn[c].avoid

\* A turn avoids nothing that nobody has marked.
AvoidsAreMarked ==
  ~flapped => \A c \in Processes : turn[c].avoid \subseteq MustAvoid(c)

Distinct(s) == \A i, k \in DOMAIN s : i # k => s[i] # s[k]

Fits(chain) == Distinct(chain) /\ opencode \in {chain[1], chain[Len(chain)]}

\* How far a turn has come.
Shape(t) ==
  LET n == Len(t.tried) IN
    /\ t.pc \in {"idle", "select", "dispatch"} => n = 0
    /\ t.pc \in {"walk", "done"} => Len(t.chain) > 0
    /\ t.chain # Unresolved => Fits(t.chain)
    /\ n <= Len(t.chain)
    /\ \A i \in 1 .. n : t.tried[i].platform = t.chain[i]
    /\ t.pc = "walk" => n < Len(t.chain) /\ \A i \in 1 .. n : t.tried[i].outcome \in FallsBack
    /\ t.pc = "done" => /\ n > 0
                        /\ \A i \in 1 .. n - 1 : t.tried[i].outcome \in FallsBack
                        /\ t.tried[n].outcome \in FallsBack => n = Len(t.chain)

Shapes == \A c \in Processes : Shape(turn[c])

IInv == TypeOK /\ MarksAgree /\ ChainAvoids /\ AvoidsAreMarked /\ Shapes /\ MarksAreEarned

-----------------------------------------------------------------------------

\* The elements of three sequences in a row.
LEMMA Concat3 ==
  ASSUME NEW S, NEW a \in Seq(S), NEW b \in Seq(S), NEW c \in Seq(S)
  PROVE  /\ a \o b \o c \in Seq(S)
         /\ Len(a \o b \o c) = Len(a) + Len(b) + Len(c)
         /\ \A i \in 1 .. Len(a) + Len(b) + Len(c) :
              (a \o b \o c)[i] = IF i <= Len(a) THEN a[i]
                                 ELSE IF i <= Len(a) + Len(b) THEN b[i - Len(a)]
                                 ELSE c[i - Len(a) - Len(b)]
<1>1. a \o b \in Seq(S) /\ Len(a \o b) = Len(a) + Len(b)
  OBVIOUS
<1>2. \A i \in 1 .. Len(a) + Len(b) : (a \o b)[i] = IF i <= Len(a) THEN a[i] ELSE b[i - Len(a)]
  OBVIOUS
<1> DEFINE ab == a \o b
<1>3. ab \in Seq(S) /\ Len(ab) = Len(a) + Len(b)
  BY <1>1
<1> HIDE DEF ab
<1>4. ab \o c \in Seq(S) /\ Len(ab \o c) = Len(ab) + Len(c)
  BY <1>3, ConcatProperties
<1>5. \A i \in 1 .. Len(ab) + Len(c) : (ab \o c)[i] = IF i <= Len(ab) THEN ab[i] ELSE c[i - Len(ab)]
  BY <1>3
<1>6. \A i \in 1 .. Len(ab) : ab[i] = IF i <= Len(a) THEN a[i] ELSE b[i - Len(a)]
  BY <1>2, <1>3 DEF ab
<1>7. Len(a) \in Nat /\ Len(b) \in Nat /\ Len(c) \in Nat
  OBVIOUS
<1>8. \A i \in 1 .. Len(a) + Len(b) + Len(c) :
        (ab \o c)[i] = IF i <= Len(a) THEN a[i]
                       ELSE IF i <= Len(a) + Len(b) THEN b[i - Len(a)]
                       ELSE c[i - Len(a) - Len(b)]
  BY <1>3, <1>5, <1>6, <1>7
<1> QED
  BY <1>3, <1>4, <1>8 DEF ab

\* A chain has the floor, repeats nothing, and holds no cooling platform.
LEMMA ResolveFacts ==
  ASSUME NEW explicit \in Platforms \cup {None}, NEW ok \in BOOLEAN, NEW cooling \in SUBSET Paid
  PROVE  LET chain == ResolveChain(explicit, ok, cooling) IN
         /\ chain \in Seq(Platforms) /\ Len(chain) > 0 /\ chain # Unresolved
         /\ Fits(chain)
         /\ \A i \in DOMAIN chain : chain[i] \notin cooling
<1> DEFINE available == IF ok THEN Connected ELSE {}
           rest == (available \ cooling) \ {explicit}
           head == IF explicit # None /\ (~ok \/ explicit \in available \cup {opencode})
                      /\ explicit \notin cooling
                     THEN <<explicit>> ELSE <<>>
           mid == Ranked[rest]
           floor == IF head = <<opencode>> THEN <<>> ELSE <<opencode>>
           chain == ResolveChain(explicit, ok, cooling)
<1>1. rest \in SUBSET Paid /\ rest \cap cooling = {} /\ explicit \notin rest
  BY RoutingAssumption
<1>2. /\ mid \in Seq(rest) /\ mid \in Seq(Platforms) /\ Distinct(mid)
      /\ \A i \in 1 .. Len(mid) : mid[i] \in rest
  <2>1. mid \in Seq(rest) /\ Distinct(mid)
    BY <1>1, RoutingAssumption DEF Distinct
  <2>2. rest \subseteq Platforms
    BY <1>1 DEF Platforms
  <2> HIDE DEF mid, rest
  <2>3. \A i \in 1 .. Len(mid) : mid[i] \in rest
    BY <2>1
  <2>4. mid \in Seq(Platforms)
    BY <2>1, <2>2
  <2> QED
    BY <2>1, <2>3, <2>4
<1>3. opencode \in Platforms /\ opencode \notin rest /\ opencode \notin cooling /\ opencode # None
  BY <1>1, RoutingAssumption DEF Platforms
<1>4. \/ head = <<explicit>> /\ explicit \in Platforms /\ explicit \notin cooling
      \/ head = <<>>
  OBVIOUS
<1>5. \/ floor = <<opencode>> /\ head # <<opencode>>
      \/ floor = <<>> /\ head = <<opencode>>
  OBVIOUS
<1>6. chain = head \o mid \o floor
  BY DEF ResolveChain
<1> HIDE DEF available, rest, head, mid, floor, chain
<1>7. head \in Seq(Platforms) /\ floor \in Seq(Platforms)
  <2>1. <<>> \in Seq(Platforms) /\ <<opencode>> \in Seq(Platforms)
    BY <1>3
  <2>2. explicit \in Platforms => <<explicit>> \in Seq(Platforms)
    OBVIOUS
  <2> QED
    BY <1>4, <1>5, <2>1, <2>2
<1>8. /\ chain \in Seq(Platforms)
      /\ Len(chain) = Len(head) + Len(mid) + Len(floor)
      /\ \A i \in 1 .. Len(chain) :
           chain[i] = IF i <= Len(head) THEN head[i]
                      ELSE IF i <= Len(head) + Len(mid) THEN mid[i - Len(head)]
                      ELSE floor[i - Len(head) - Len(mid)]
  BY <1>2, <1>6, <1>7, Concat3
<1>9. DOMAIN chain = 1 .. Len(chain) /\ Len(mid) \in Nat /\ DOMAIN mid = 1 .. Len(mid)
  BY <1>2, <1>8
<1>10. CASE head = <<>>
  <2>1. floor = <<opencode>> /\ Len(head) = 0 /\ Len(floor) = 1
    BY <1>5, <1>10
  <2>2. /\ Len(chain) = Len(mid) + 1 /\ chain[Len(mid) + 1] = opencode
        /\ \A i \in 1 .. Len(mid) : chain[i] = mid[i]
    BY <1>8, <1>9, <2>1
  <2>3. Fits(chain)
    BY <1>2, <1>3, <1>9, <2>2 DEF Fits, Distinct
  <2>4. \A i \in DOMAIN chain : chain[i] \notin cooling
    BY <1>1, <1>2, <1>3, <1>9, <2>2
  <2> QED
    BY <1>8, <1>9, <2>2, <2>3, <2>4 DEF chain, Unresolved
<1>11. CASE head = <<opencode>>
  <2>1. floor = <<>> /\ Len(head) = 1 /\ Len(floor) = 0 /\ head[1] = opencode
    BY <1>5, <1>11
  <2>2. /\ Len(chain) = Len(mid) + 1 /\ chain[1] = opencode
        /\ \A i \in 2 .. Len(chain) : chain[i] = mid[i - 1]
    BY <1>8, <1>9, <2>1
  <2>3. Distinct(chain)
    <3> SUFFICES ASSUME NEW i \in 1 .. Len(mid) + 1, NEW k \in 1 .. Len(mid) + 1, i # k
                 PROVE chain[i] # chain[k]
      BY <1>9, <2>2 DEF Distinct
    <3>1. CASE i # 1 /\ k # 1
      BY <1>2, <1>9, <2>2, <3>1 DEF Distinct
    <3>2. CASE i = 1 \/ k = 1
      BY <1>2, <1>3, <1>9, <2>2, <3>2
    <3> QED
      BY <3>1, <3>2
  <2>4. \A i \in DOMAIN chain : chain[i] \notin cooling
    BY <1>1, <1>2, <1>3, <1>9, <2>2
  <2> QED
    BY <1>8, <1>9, <2>2, <2>3, <2>4 DEF chain, Unresolved, Fits
<1>12. CASE head # <<>> /\ head # <<opencode>>
  <2>1. /\ floor = <<opencode>> /\ Len(head) = 1 /\ Len(floor) = 1 /\ head[1] = explicit
        /\ explicit # opencode /\ explicit \notin cooling
    BY <1>4, <1>5, <1>12
  <2>2. /\ Len(chain) = Len(mid) + 2 /\ chain[1] = explicit /\ chain[Len(chain)] = opencode
        /\ \A i \in 2 .. Len(chain) - 1 : chain[i] = mid[i - 1]
    BY <1>8, <1>9, <2>1
  <2>3. Distinct(chain)
    <3> SUFFICES ASSUME NEW i \in 1 .. Len(mid) + 2, NEW k \in 1 .. Len(mid) + 2, i < k
                 PROVE chain[i] # chain[k]
      BY <1>9, <2>2 DEF Distinct
    <3>1. CASE i # 1 /\ k # Len(chain)
      <4>4. Len(chain) = Len(mid) + 2 /\ Len(mid) \in Nat
        BY <1>9, <2>2
      <4>1. i - 1 \in 1 .. Len(mid) /\ k - 1 \in 1 .. Len(mid) /\ i - 1 # k - 1
        BY <3>1, <4>4
      <4>2. i \in 2 .. Len(chain) - 1 /\ k \in 2 .. Len(chain) - 1
        BY <3>1, <4>4
      <4>3. chain[i] = mid[i - 1] /\ chain[k] = mid[k - 1]
        BY <2>2, <4>2
      <4> QED
        BY <1>2, <1>9, <4>1, <4>3, SMTT(30) DEF Distinct
    <3>2. CASE i = 1 /\ k # Len(chain)
      <4>1. k - 1 \in 1 .. Len(mid) /\ chain[k] = mid[k - 1] /\ chain[i] = explicit
        BY <1>9, <2>2, <3>2
      <4> QED
        BY <1>1, <1>2, <4>1
    <3>3. CASE i # 1 /\ k = Len(chain)
      <4>1. i - 1 \in 1 .. Len(mid) /\ chain[i] = mid[i - 1] /\ chain[k] = opencode
        BY <1>9, <2>2, <3>3
      <4> QED
        BY <1>2, <1>3, <4>1
    <3>4. CASE i = 1 /\ k = Len(chain)
      BY <2>1, <2>2, <3>4
    <3> QED
      BY <3>1, <3>2, <3>3, <3>4
  <2>4. \A i \in DOMAIN chain : chain[i] \notin cooling
    BY <1>1, <1>2, <1>3, <1>9, <2>1, <2>2
  <2> QED
    BY <1>8, <1>9, <2>2, <2>3, <2>4 DEF chain, Unresolved, Fits
<1> QED
  BY <1>10, <1>11, <1>12

-----------------------------------------------------------------------------

Turns ==
  [pc : {"idle", "select", "dispatch", "walk", "done"},
   requested : Platforms \cup {None}, chain : Seq(Platforms),
   tried : Seq([platform : Platforms, outcome : Outcomes]), avoid : SUBSET Paid]

\* An idle turn is well formed.
LEMMA IdleFits == Idle \in Turns /\ Shape(Idle) /\ Idle.avoid = {} /\ Idle.chain = <<>>
<1>1. <<>> \in Seq(Platforms) /\ <<>> \in Seq([platform : Platforms, outcome : Outcomes])
  OBVIOUS
<1>2. Idle \in Turns
  BY <1>1 DEF Idle, Turns, Unresolved
<1> QED
  BY <1>2 DEF Idle, Shape, Unresolved

\* The invariant holds at first.
LEMMA InitEstablishes == Init => IInv
<1> SUFFICES ASSUME Init PROVE IInv
  OBVIOUS
<1> USE DEF Init
<1>1. TypeOK
  <2>1. turn \in [Processes -> Turns]
    BY IdleFits
  <2>2. turns \in 0 .. MaxTurns
    BY RoutingAssumption
  <2> QED
    BY <2>1, <2>2 DEF TypeOK, Turns
<1>2. MarksAgree /\ MarksAreEarned
  BY DEF MarksAgree, MarksAreEarned, Faced
<1>3. ChainAvoids /\ AvoidsAreMarked /\ Shapes
  BY IdleFits DEF ChainAvoids, AvoidsAreMarked, Shapes
<1> QED
  BY <1>1, <1>2, <1>3 DEF IInv

\* What a process sees are platforms; while Redis does not come or go, it
\* sees all that concerns it.
LEMMA SeenFacts ==
  ASSUME TypeOK, MarksAgree, NEW c \in Processes
  PROVE  /\ CooldownsSeen(c) \in SUBSET Paid
         /\ Client(c) \in {"built", "failed"}
         /\ ~flapped => /\ CooldownsSeen(c) = Faced(c)
                        /\ Client(c) # (IF up THEN "failed" ELSE "built")
                        /\ InRedis(c) <=> up
<1>1. up \in BOOLEAN /\ client[c] \in {"unset", "built", "failed"}
  BY DEF TypeOK
<1>2. Client(c) \in {"built", "failed"}
  BY <1>1 DEF Client
<1>3. ~flapped => Client(c) # (IF up THEN "failed" ELSE "built")
  BY <1>1 DEF Client, MarksAgree
<1>4. CooldownsSeen(c) \in SUBSET Paid
  BY DEF CooldownsSeen, TypeOK
<1>5. ~flapped => (InRedis(c) <=> up)
  BY <1>1, <1>2, <1>3 DEF InRedis
<1>6. ~flapped => CooldownsSeen(c) = Faced(c)
  BY <1>5 DEF CooldownsSeen, Faced
<1> QED
  BY <1>2, <1>3, <1>4, <1>5, <1>6

\* A turn that only changes itself, and marks nothing.
LEMMA TurnKeepsInv ==
  ASSUME IInv, NEW c \in Processes, NEW t \in Turns, turn' = [turn EXCEPT ![c] = t],
         UNCHANGED <<store, history>>, turns' \in 0 .. MaxTurns,
         UseClient(c) \/ UNCHANGED client,
         Shape(t), t.avoid \subseteq turn[c].avoid \/ t.avoid = MustAvoid(c),
         ~flapped => t.avoid \subseteq Faced(c) /\ \A i \in DOMAIN t.chain : t.chain[i] \notin t.avoid
  PROVE  IInv'
<1> USE DEF IInv, store, history
<1>1. /\ turn' \in [Processes -> Turns] /\ turn'[c] = t
      /\ \A d \in Processes : d # c => turn'[d] = turn[d]
  BY DEF TypeOK, Turns
<1>2. /\ client' \in [Processes -> {"unset", "built", "failed"}]
      /\ \A d \in Processes : client'[d] = client[d] \/ client'[d] = Client(d)
  BY SeenFacts DEF TypeOK, UseClient
<1>3. TypeOK'
  BY <1>1, <1>2 DEF TypeOK, Turns
<1>4. MarksAgree'
  BY <1>2, SeenFacts DEF MarksAgree, Faced
<1>5. ChainAvoids'
  BY <1>1 DEF ChainAvoids, Faced
<1>6. Shapes'
  <2>1. \A d \in Processes : Shape(turn'[d])
    BY <1>1 DEF Shapes
  <2> QED
    BY <2>1 DEF Shapes, Shape
<1>7. MarksAreEarned'
  BY DEF MarksAreEarned
<1>8. AvoidsAreMarked'
  <2>1. \A d \in Processes : MustAvoid(d)' = MustAvoid(d)
    BY DEF MustAvoid
  <2>2. ~flapped => t.avoid \subseteq MustAvoid(c)
    BY DEF AvoidsAreMarked
  <2> QED
    BY <1>1, <2>1, <2>2 DEF AvoidsAreMarked
<1> QED
  BY <1>3, <1>4, <1>5, <1>6, <1>7, <1>8

\* A turn begins: what it must avoid is what it could see.
LEMMA BeginKeepsInv ==
  ASSUME IInv, NEW c \in Processes, NEW e \in Platforms \cup {None}, Begin(c, e)
  PROVE  IInv'
<1> USE DEF IInv
<1>1. PICK ok \in BOOLEAN : turn' = [turn EXCEPT ![c] =
         [Idle EXCEPT !.pc = "select", !.requested = e, !.avoid = MustAvoid(c),
                      !.chain = IF e \in Paid THEN Unresolved
                                ELSE ResolveChain(e, ok, CooldownsSeen(c))]]
  BY DEF Begin
<1> DEFINE chain == IF e \in Paid THEN Unresolved ELSE ResolveChain(e, ok, CooldownsSeen(c))
           t == [Idle EXCEPT !.pc = "select", !.requested = e, !.avoid = MustAvoid(c),
                             !.chain = chain]
<1>2. MustAvoid(c) \in SUBSET Paid
  BY DEF MustAvoid
<1>3. CooldownsSeen(c) \in SUBSET Paid /\ (~flapped => CooldownsSeen(c) = Faced(c))
  BY SeenFacts
<1>4. /\ chain \in Seq(Platforms) /\ (chain # Unresolved => Fits(chain))
      /\ Len(chain) >= 0
      /\ \A i \in DOMAIN chain : chain[i] \notin CooldownsSeen(c)
  <2>1. CASE e \in Paid
    BY <2>1 DEF Unresolved
  <2>2. CASE e \notin Paid
    BY <1>3, <2>2, ResolveFacts
  <2> QED
    BY <2>1, <2>2
<1>5. ~flapped => MustAvoid(c) \subseteq Faced(c)
  BY DEF MustAvoid, MarksAgree, Faced
<1> HIDE DEF chain
<1>6. /\ t \in Turns
      /\ t.pc = "select" /\ t.chain = chain /\ t.avoid = MustAvoid(c) /\ t.tried = <<>>
  BY <1>2, <1>4, IdleFits DEF Turns, Idle
<1> HIDE DEF t
<1>7. Shape(t)
  BY <1>4, <1>6 DEF Shape
<1>8. ~flapped => t.avoid \subseteq Faced(c) /\ \A i \in DOMAIN t.chain : t.chain[i] \notin t.avoid
  BY <1>3, <1>4, <1>5, <1>6
<1>9. turns' \in 0 .. MaxTurns
  BY RoutingAssumption DEF Begin, TypeOK
<1>10. turn' = [turn EXCEPT ![c] = t]
  BY <1>1 DEF t, chain
<1>11. UNCHANGED <<store, history>> /\ (UseClient(c) \/ UNCHANGED client)
  BY DEF Begin
<1> QED
  BY <1>6, <1>7, <1>8, <1>9, <1>10, <1>11, TurnKeepsInv

\* A cooling choice is given up before the chain is resolved.
LEMMA SelectKeepsInv ==
  ASSUME IInv, NEW c \in Processes, Select(c)
  PROVE  IInv'
<1> USE DEF IInv
<1> DEFINE cooling == CooldownsSeen(c)
           kept == IF turn[c].requested \in cooling THEN None ELSE turn[c].requested
<1>1. turn[c] \in Turns /\ Shape(turn[c])
  BY DEF TypeOK, Turns, Shapes
<1>2. PICK choice \in {kept} \cup (Explorable \ cooling) \cup Platforms :
        turn' = [turn EXCEPT ![c].pc = "dispatch", ![c].requested = choice]
  BY DEF Select
<1>3. choice \in Platforms \cup {None}
  BY <1>1, RoutingAssumption DEF Turns, Platforms
<1> HIDE DEF cooling, kept
<1> DEFINE t == [turn[c] EXCEPT !.pc = "dispatch", !.requested = choice]
<1>4. /\ t \in Turns /\ t.pc = "dispatch" /\ t.chain = turn[c].chain
      /\ t.tried = turn[c].tried /\ t.avoid = turn[c].avoid
  BY <1>1, <1>3 DEF Turns
<1>5. turn' = [turn EXCEPT ![c] = t]
  BY <1>2
<1> HIDE DEF t
<1>6. Shape(t)
  BY <1>1, <1>4 DEF Shape, Select
<1>7. ~flapped => t.avoid \subseteq Faced(c) /\ \A i \in DOMAIN t.chain : t.chain[i] \notin t.avoid
  BY <1>4 DEF ChainAvoids
<1>8. /\ turns' \in 0 .. MaxTurns /\ UNCHANGED <<store, history>>
      /\ UseClient(c) \/ UNCHANGED client
  BY DEF Select, TypeOK
<1> QED
  BY <1>4, <1>5, <1>6, <1>7, <1>8, TurnKeepsInv

\* The chain of the pin probe is reused, or resolved again.
LEMMA DispatchKeepsInv ==
  ASSUME IInv, NEW c \in Processes, Dispatch(c)
  PROVE  IInv'
<1> USE DEF IInv
<1>1. turn[c] \in Turns /\ Shape(turn[c]) /\ turn[c].pc = "dispatch"
  BY DEF TypeOK, Turns, Shapes, Dispatch
<1>2. PICK ok \in BOOLEAN :
        turn' = [turn EXCEPT ![c].pc = "walk",
                             ![c].chain = IF @ # Unresolved THEN @
                               ELSE ResolveChain(turn[c].requested, ok, CooldownsSeen(c))]
  BY DEF Dispatch
<1> DEFINE chain == IF turn[c].chain # Unresolved THEN turn[c].chain
                    ELSE ResolveChain(turn[c].requested, ok, CooldownsSeen(c))
           t == [turn[c] EXCEPT !.pc = "walk", !.chain = chain]
<1>3. CooldownsSeen(c) \in SUBSET Paid /\ (~flapped => CooldownsSeen(c) = Faced(c))
  BY SeenFacts
<1>4. /\ chain \in Seq(Platforms) /\ chain # Unresolved /\ Fits(chain) /\ Len(chain) > 0
      /\ ~flapped => \A i \in DOMAIN chain : chain[i] \notin turn[c].avoid
  <2>1. CASE turn[c].chain # Unresolved
    <3>1. turn[c].chain \in Seq(Platforms) /\ turn[c].chain # <<>>
      BY <1>1, <2>1 DEF Turns, Unresolved
    <3>2. Len(turn[c].chain) > 0
      BY <3>1, EmptySeq
    <3> QED
      BY <1>1, <2>1, <3>1, <3>2 DEF Shape, ChainAvoids
  <2>2. CASE turn[c].chain = Unresolved
    <3>1. turn[c].requested \in Platforms \cup {None}
      BY <1>1 DEF Turns
    <3>2. ~flapped => turn[c].avoid \subseteq Faced(c)
      BY DEF ChainAvoids
    <3> QED
      BY <1>3, <2>2, <3>1, <3>2, ResolveFacts
  <2> QED
    BY <2>1, <2>2
<1>5. turn' = [turn EXCEPT ![c] = t]
  BY <1>2 DEF TypeOK
<1> HIDE DEF chain
<1>6. /\ t \in Turns /\ t.pc = "walk" /\ t.chain = chain
      /\ t.tried = turn[c].tried /\ t.avoid = turn[c].avoid
  BY <1>1, <1>4 DEF Turns
<1> HIDE DEF t
<1>7. Shape(t)
  BY <1>1, <1>4, <1>6 DEF Shape
<1>8. ~flapped => t.avoid \subseteq Faced(c) /\ \A i \in DOMAIN t.chain : t.chain[i] \notin t.avoid
  BY <1>4, <1>6 DEF ChainAvoids
<1>9. /\ turns' \in 0 .. MaxTurns /\ UNCHANGED <<store, history>>
      /\ UseClient(c) \/ UNCHANGED client
  BY DEF Dispatch, TypeOK
<1> QED
  BY <1>5, <1>6, <1>7, <1>8, <1>9, TurnKeepsInv

\* A turn is over.
LEMMA ReturnKeepsInv ==
  ASSUME IInv, NEW c \in Processes, Return(c)
  PROVE  IInv'
<1>1. /\ turn' = [turn EXCEPT ![c] = Idle] /\ turns' \in 0 .. MaxTurns
      /\ UNCHANGED <<store, history>> /\ UNCHANGED client
  BY DEF Return, IInv, TypeOK
<1> QED
  BY <1>1, IdleFits, TurnKeepsInv

\* One pass of the walk: the turn keeps its shape, chain and marks to avoid.
LEMMA AfterAttemptFacts ==
  ASSUME NEW t \in Turns, Shape(t), t.pc = "walk", NEW o \in Outcomes
  PROVE  /\ AfterAttempt(t, o) \in Turns /\ Shape(AfterAttempt(t, o))
         /\ AfterAttempt(t, o).chain = t.chain /\ AfterAttempt(t, o).avoid = t.avoid
         /\ Here(t) \in Platforms
<1> DEFINE n == Len(t.tried)
           new == [platform |-> Here(t), outcome |-> o]
           tried == Append(t.tried, new)
           u == AfterAttempt(t, o)
<1>1. /\ n \in Nat /\ n < Len(t.chain) /\ Len(t.chain) \in Nat /\ t.chain \in Seq(Platforms)
      /\ t.tried \in Seq([platform : Platforms, outcome : Outcomes])
  BY DEF Turns, Shape
<1>2. Here(t) = t.chain[n + 1] /\ Here(t) \in Platforms
  BY <1>1 DEF Here
<1>3. new \in [platform : Platforms, outcome : Outcomes]
  BY <1>2
<1>4. /\ tried \in Seq([platform : Platforms, outcome : Outcomes])
      /\ Len(tried) = n + 1 /\ tried[n + 1] = new
      /\ \A i \in 1 .. n : tried[i] = t.tried[i]
  BY <1>1, <1>3
<1>5. /\ u = [t EXCEPT !.tried = tried,
                       !.pc = IF o \notin FallsBack \/ Len(tried) = Len(t.chain) THEN "done" ELSE "walk"]
  BY DEF AfterAttempt
<1> HIDE DEF tried, u
<1>6. /\ u \in Turns /\ u.chain = t.chain /\ u.avoid = t.avoid /\ u.tried = tried
      /\ u.pc = IF o \notin FallsBack \/ n + 1 = Len(t.chain) THEN "done" ELSE "walk"
  BY <1>4, <1>5 DEF Turns
<1>7. \A i \in 1 .. n + 1 : tried[i].platform = t.chain[i]
  BY <1>1, <1>2, <1>4, SMTT(30) DEF Shape
<1>8. \A i \in 1 .. n : tried[i].outcome \in FallsBack
  BY <1>4 DEF Shape
<1>9. tried[n + 1].outcome = o
  BY <1>4
<1>10. Shape(u)
  BY <1>1, <1>4, <1>6, <1>7, <1>8, <1>9 DEF Shape
<1> QED
  BY <1>2, <1>6, <1>10 DEF u

\* A platform is tried, and perhaps marked.
LEMMA AttemptKeepsInv ==
  ASSUME IInv, NEW c \in Processes, NEW o \in Outcomes, Attempt(c, o)
  PROVE  IInv'
<1> USE DEF IInv
<1> DEFINE t == turn[c]  u == AfterAttempt(t, o)  p == Here(t)
<1>1. t \in Turns /\ Shape(t) /\ t.pc = "walk"
  BY DEF TypeOK, Turns, Shapes, Attempt
<1>2. u \in Turns /\ Shape(u) /\ u.chain = t.chain /\ u.avoid = t.avoid /\ p \in Platforms
  BY <1>1, AfterAttemptFacts
<1>3. turn' = [turn EXCEPT ![c] = u] /\ MarkCooldown(c, p, o)
      /\ earned' = (IF o \in Cooling THEN earned \cup {p} ELSE earned)
      /\ UNCHANGED <<up, turns, flapped>>
  BY DEF Attempt
<1> HIDE DEF u, p
<1>4. /\ turn' \in [Processes -> Turns] /\ turn'[c] = u
      /\ \A d \in Processes : d # c => turn'[d] = turn[d]
  BY <1>2, <1>3 DEF TypeOK, Turns
<1>5. /\ \A d \in Processes : turn'[d].avoid = turn[d].avoid /\ turn'[d].chain = turn[d].chain
  BY <1>2, <1>4
<1>6. /\ \A d \in Processes : Shape(turn'[d])
  BY <1>2, <1>4 DEF Shapes
<1>7. Shapes'
  BY <1>6 DEF Shapes, Shape
<1>8. earned \subseteq earned' /\ earned' \subseteq Platforms
  BY <1>2, <1>3 DEF TypeOK
<1>9. CASE o \in Cooling /\ p # opencode
  <2>1. p \in Paid /\ p \in earned'
    BY <1>2, <1>3, <1>9 DEF Platforms
  <2>2. /\ \/ InRedis(c) /\ cool' = cool \cup {p} /\ local' = local
           \/ ~InRedis(c) /\ local' = [local EXCEPT ![c] = @ \cup {p}] /\ cool' = cool
        /\ marked' = marked \cup {<<p, c>>}
        /\ client' = [client EXCEPT ![c] = Client(c)]
    BY <1>3, <1>9 DEF MarkCooldown, UseClient
  <2>3. /\ cool' \subseteq Paid /\ local' \in [Processes -> SUBSET Paid] /\ cool \subseteq cool'
        /\ \A d \in Processes : local[d] \subseteq local'[d]
        /\ cool' \subseteq cool \cup {p}
        /\ \A d \in Processes : local'[d] \subseteq local[d] \cup {p}
        /\ InRedis(c) => local' = local /\ p \in cool'
        /\ ~InRedis(c) => cool' = cool /\ p \in local'[c]
    <3>1. cool \subseteq Paid /\ local \in [Processes -> SUBSET Paid]
      BY DEF TypeOK
    <3>2. CASE InRedis(c) /\ cool' = cool \cup {p} /\ local' = local
      BY <2>1, <3>1, <3>2
    <3>3. CASE ~InRedis(c) /\ local' = [local EXCEPT ![c] = @ \cup {p}] /\ cool' = cool
      BY <2>1, <3>1, <3>3
    <3> QED
      BY <2>2, <3>2, <3>3
  <2>4. /\ client' \in [Processes -> {"unset", "built", "failed"}]
        /\ \A d \in Processes : client'[d] = client[d] \/ client'[d] = Client(d)
    BY <2>2, SeenFacts DEF TypeOK
  <2>5. TypeOK'
    <3>1. marked' \subseteq Paid \X Processes
      BY <2>1, <2>2 DEF TypeOK
    <3> QED
      BY <1>3, <1>4, <1>8, <2>3, <2>4, <3>1 DEF TypeOK, Turns
  <2>6. MarksAgree'
    <3> SUFFICES ASSUME ~flapped'
                 PROVE /\ \A d \in Processes : client'[d] # (IF up' THEN "failed" ELSE "built")
                       /\ IF up' THEN \A d \in Processes : local'[d] = {} ELSE cool' = {}
                       /\ \A m \in marked' : m[1] \in IF up' THEN cool' ELSE local'[m[2]]
      BY DEF MarksAgree, Faced
    <3>1. ~flapped /\ up' = up /\ (InRedis(c) <=> up)
      BY <1>3, SeenFacts
    <3>2. \A d \in Processes : client'[d] # (IF up' THEN "failed" ELSE "built")
      BY <2>4, <3>1, SeenFacts DEF MarksAgree
    <3>3. IF up' THEN \A d \in Processes : local'[d] = {} ELSE cool' = {}
      BY <2>3, <3>1 DEF MarksAgree
    <3>4. \A m \in marked : m[1] \in (IF up THEN cool ELSE local[m[2]]) /\ m[2] \in Processes
      BY <3>1 DEF MarksAgree, Faced, TypeOK
    <3>5. \A m \in marked' : m[1] \in IF up' THEN cool' ELSE local'[m[2]]
      BY <2>2, <2>3, <3>1, <3>4
    <3> QED
      BY <3>2, <3>3, <3>5
  <2>7. ChainAvoids'
    BY <1>3, <1>5, <2>3 DEF ChainAvoids, Faced
  <2>8. MarksAreEarned'
    BY <1>8, <1>9, <2>1, <2>3 DEF MarksAreEarned
  <2>9. AvoidsAreMarked'
    BY <1>3, <1>5, <2>2 DEF AvoidsAreMarked, MustAvoid
  <2> QED
    BY <1>7, <2>5, <2>6, <2>7, <2>8, <2>9
<1>10. CASE ~(o \in Cooling /\ p # opencode)
  <2>1. UNCHANGED <<cool, local, marked, client>>
    BY <1>3, <1>10 DEF MarkCooldown
  <2>2. TypeOK'
    BY <1>3, <1>4, <1>8, <2>1 DEF TypeOK, Turns
  <2>3. MarksAgree'
    BY <1>3, <2>1 DEF MarksAgree, Faced
  <2>4. ChainAvoids'
    BY <1>3, <1>5, <2>1 DEF ChainAvoids, Faced
  <2>5. MarksAreEarned'
    BY <1>8, <2>1 DEF MarksAreEarned
  <2>6. AvoidsAreMarked'
    BY <1>3, <1>5, <2>1 DEF AvoidsAreMarked, MustAvoid
  <2> QED
    BY <1>7, <2>2, <2>3, <2>4, <2>5, <2>6
<1> QED
  BY <1>9, <1>10

\* Forgetting marks leaves turns as they are but for what they avoid.
LEMMA ForgetFacts ==
  ASSUME IInv, NEW gone, Forget(gone)
  PROVE  /\ marked' = marked \ gone
         /\ turn' \in [Processes -> Turns]
         /\ \A c \in Processes : /\ turn'[c].chain = turn[c].chain
                                /\ turn'[c].avoid = turn[c].avoid \ {m[1] : m \in gone}
         /\ Shapes'
<1> DEFINE t(c) == [turn[c] EXCEPT !.avoid = @ \ {m[1] : m \in gone}]
<1>1. turn' = [c \in Processes |-> t(c)] /\ marked' = marked \ gone
  BY DEF Forget
<1>2. ASSUME NEW c \in Processes
      PROVE  /\ t(c) \in Turns /\ t(c).chain = turn[c].chain
             /\ t(c).avoid = turn[c].avoid \ {m[1] : m \in gone}
             /\ t(c).tried = turn[c].tried /\ t(c).pc = turn[c].pc
  <2>1. turn[c] \in Turns
    BY DEF IInv, TypeOK, Turns
  <2>2. turn[c].avoid \ {m[1] : m \in gone} \in SUBSET Paid
    BY <2>1 DEF Turns
  <2> QED
    BY <2>1, <2>2 DEF Turns
<1> HIDE DEF t
<1>3. \A c \in Processes : turn'[c] = t(c)
  BY <1>1
<1>4. ASSUME NEW c \in Processes PROVE Shape(turn'[c])
  <2>1. Shape(turn[c])
    BY DEF IInv, Shapes
  <2>2. turn'[c].pc = turn[c].pc /\ turn'[c].chain = turn[c].chain /\ turn'[c].tried = turn[c].tried
    BY <1>2, <1>3
  <2> QED
    BY <2>1, <2>2 DEF Shape
<1>5. Shapes'
  BY <1>4 DEF Shapes, Shape
<1> QED
  BY <1>1, <1>2, <1>3, <1>5

\* A key in Redis expires.
LEMMA KeyExpiresKeepsInv ==
  ASSUME IInv, NEW p \in Paid, KeyExpires(p)
  PROVE  IInv'
<1> USE DEF IInv
<1> DEFINE gone == {m \in marked : m[1] = p /\ p \notin local[m[2]]}
<1>1. /\ p \in cool /\ cool' = cool \ {p} /\ Forget(gone)
      /\ UNCHANGED <<up, local, client, turns, flapped, earned>>
  BY DEF KeyExpires
<1>2. /\ marked' = marked \ gone /\ turn' \in [Processes -> Turns] /\ Shapes'
      /\ \A c \in Processes : /\ turn'[c].chain = turn[c].chain
                             /\ turn'[c].avoid = turn[c].avoid \ {m[1] : m \in gone}
  BY <1>1, ForgetFacts
<1>3. TypeOK'
  BY <1>1, <1>2 DEF TypeOK, Turns
<1>4. ~flapped => up /\ (\A c \in Processes : local[c] = {})
  BY <1>1 DEF MarksAgree
<1>5. MarksAgree'
  BY <1>1, <1>2, <1>4 DEF MarksAgree, Faced, TypeOK
<1>6. ChainAvoids'
  <2> SUFFICES ASSUME ~flapped, NEW c \in Processes
               PROVE /\ turn'[c].avoid \subseteq cool'
                     /\ \A i \in DOMAIN turn'[c].chain : turn'[c].chain[i] \notin turn'[c].avoid
    BY <1>1, <1>4 DEF ChainAvoids, Faced
  <2>1. turn'[c].avoid \subseteq turn[c].avoid /\ turn[c].avoid \subseteq cool
    BY <1>2, <1>4 DEF ChainAvoids, Faced
  <2>2. p \in turn[c].avoid => p \in {m[1] : m \in gone}
    <3> SUFFICES ASSUME p \in turn[c].avoid PROVE p \in {m[1] : m \in gone}
      OBVIOUS
    <3>1. PICK d \in Processes : <<p, d>> \in marked
      BY <1>4 DEF AvoidsAreMarked, MustAvoid
    <3>2. <<p, d>> \in gone /\ <<p, d>>[1] = p
      BY <1>4, <3>1
    <3> QED
      BY <3>2
  <2> QED
    BY <1>1, <1>2, <2>1, <2>2 DEF ChainAvoids
<1>7. MarksAreEarned'
  BY <1>1 DEF MarksAreEarned
<1>8. AvoidsAreMarked'
  <2> SUFFICES ASSUME ~flapped, NEW c \in Processes, NEW q \in turn'[c].avoid
               PROVE q \in Paid /\ \E d \in Processes : <<q, d>> \in marked' /\ (d = c \/ up)
    BY <1>1 DEF AvoidsAreMarked, MustAvoid
  <2>0. q \in MustAvoid(c)
    BY <1>2 DEF AvoidsAreMarked
  <2>1. PICK d \in Processes : <<q, d>> \in marked /\ (d = c \/ up)
    BY <2>0 DEF MustAvoid
  <2>2. <<q, d>> \in gone => q \in {m[1] : m \in gone}
    OBVIOUS
  <2> QED
    BY <1>2, <2>0, <2>1, <2>2 DEF MustAvoid
<1> QED
  BY <1>2, <1>3, <1>5, <1>6, <1>7, <1>8

\* An entry in the dictionary of a process expires.
LEMMA EntryExpiresKeepsInv ==
  ASSUME IInv, NEW c \in Processes, NEW p \in Paid, EntryExpires(c, p)
  PROVE  IInv'
<1> USE DEF IInv
<1> DEFINE gone == {m \in marked : m = <<p, c>>}
<1>1. /\ p \in local[c] /\ local' = [local EXCEPT ![c] = @ \ {p}] /\ Forget(gone)
      /\ UNCHANGED <<up, cool, client, turns, flapped, earned>>
  BY DEF EntryExpires
<1>2. /\ marked' = marked \ gone /\ turn' \in [Processes -> Turns] /\ Shapes'
      /\ \A d \in Processes : /\ turn'[d].chain = turn[d].chain
                             /\ turn'[d].avoid = turn[d].avoid \ {m[1] : m \in gone}
  BY <1>1, ForgetFacts
<1>3. /\ local' \in [Processes -> SUBSET Paid] /\ local'[c] = local[c] \ {p}
      /\ \A d \in Processes : d # c => local'[d] = local[d]
  BY <1>1 DEF TypeOK
<1>4. TypeOK'
  BY <1>1, <1>2, <1>3 DEF TypeOK, Turns
<1>5. ~flapped => ~up
  BY <1>1 DEF MarksAgree
<1>6. \A m \in marked : m \notin gone => ~(m[1] = p /\ m[2] = c)
  BY DEF TypeOK
<1>7. MarksAgree'
  <2> SUFFICES ASSUME ~flapped, NEW m \in marked' PROVE m[1] \in local'[m[2]]
    BY <1>1, <1>5 DEF MarksAgree, Faced
  <2>1. m \in marked /\ m \notin gone /\ m[2] \in Processes
    BY <1>2 DEF TypeOK
  <2>2. m[1] \in local[m[2]]
    BY <1>5, <2>1 DEF MarksAgree, Faced
  <2> QED
    BY <1>3, <1>6, <2>1, <2>2
<1>8. ChainAvoids'
  <2> SUFFICES ASSUME ~flapped, NEW d \in Processes
               PROVE /\ turn'[d].avoid \subseteq local'[d]
                     /\ \A i \in DOMAIN turn'[d].chain : turn'[d].chain[i] \notin turn'[d].avoid
    BY <1>1, <1>5 DEF ChainAvoids, Faced
  <2>1. turn'[d].avoid \subseteq turn[d].avoid /\ turn[d].avoid \subseteq local[d]
    BY <1>2, <1>5 DEF ChainAvoids, Faced
  <2>2. p \in turn'[c].avoid => FALSE
    <3> SUFFICES ASSUME p \in turn'[c].avoid PROVE FALSE
      OBVIOUS
    <3>1. p \in MustAvoid(c)
      BY <1>2, <1>5 DEF AvoidsAreMarked
    <3>2. <<p, c>> \in gone /\ <<p, c>>[1] = p
      BY <1>5, <3>1 DEF MustAvoid
    <3>3. p \in {m[1] : m \in gone}
      BY <3>2
    <3> QED
      BY <1>2, <3>3
  <2> QED
    BY <1>2, <1>3, <2>1, <2>2 DEF ChainAvoids
<1>9. MarksAreEarned'
  BY <1>1, <1>3 DEF MarksAreEarned
<1>10. AvoidsAreMarked'
  <2> SUFFICES ASSUME ~flapped, NEW d \in Processes, NEW q \in turn'[d].avoid
               PROVE q \in Paid /\ <<q, d>> \in marked'
    BY <1>1 DEF AvoidsAreMarked, MustAvoid
  <2>1. q \in Paid /\ <<q, d>> \in marked /\ q \notin {m[1] : m \in gone}
    BY <1>2, <1>5 DEF AvoidsAreMarked, MustAvoid
  <2>2. <<q, d>> \in gone => q \in {m[1] : m \in gone}
    OBVIOUS
  <2> QED
    BY <1>2, <2>1, <2>2
<1> QED
  BY <1>2, <1>4, <1>7, <1>8, <1>9, <1>10

\* A process restarts and forgets its dictionary and its client.
LEMMA RestartKeepsInv ==
  ASSUME IInv, NEW c \in Processes, Restart(c)
  PROVE  IInv'
<1> USE DEF IInv
<1>1. /\ turn' = [turn EXCEPT ![c] = Idle] /\ local' = [local EXCEPT ![c] = {}]
      /\ client' = [client EXCEPT ![c] = "unset"] /\ turns' \in 0 .. MaxTurns
      /\ marked' = marked \ {<<p, c>> : p \in local[c]}
      /\ UNCHANGED <<up, cool, flapped, earned>>
  BY RoutingAssumption DEF Restart, TypeOK
<1>2. /\ turn' \in [Processes -> Turns] /\ turn'[c] = Idle
      /\ \A d \in Processes : d # c => turn'[d] = turn[d]
  BY <1>1, IdleFits DEF TypeOK, Turns
<1>3. /\ local' \in [Processes -> SUBSET Paid] /\ local'[c] = {}
      /\ \A d \in Processes : d # c => local'[d] = local[d]
  BY <1>1 DEF TypeOK
<1>4. /\ client' \in [Processes -> {"unset", "built", "failed"}]
      /\ \A d \in Processes : client'[d] \in {"unset", client[d]}
  BY <1>1 DEF TypeOK
<1>5. \A m \in marked' : m \in marked /\ ~(m[2] = c /\ m[1] \in local[c])
  BY <1>1 DEF TypeOK
<1>6. \A q \in Paid, d \in Processes :
        <<q, d>> \in marked /\ (d # c \/ q \notin local[c]) => <<q, d>> \in marked'
  BY <1>1
<1>7. TypeOK'
  BY <1>1, <1>2, <1>3, <1>4 DEF TypeOK, Turns
<1>8. MarksAgree'
  <2> SUFFICES ASSUME ~flapped
               PROVE /\ \A d \in Processes : client'[d] # (IF up THEN "failed" ELSE "built")
                     /\ IF up THEN \A d \in Processes : local'[d] = {} ELSE cool = {}
                     /\ \A m \in marked' : m[1] \in IF up THEN cool ELSE local'[m[2]]
    BY <1>1 DEF MarksAgree, Faced
  <2>1. \A d \in Processes : client'[d] # (IF up THEN "failed" ELSE "built")
    BY <1>4 DEF MarksAgree
  <2>2. IF up THEN \A d \in Processes : local'[d] = {} ELSE cool = {}
    BY <1>3 DEF MarksAgree
  <2>3. ASSUME NEW m \in marked' PROVE m[1] \in IF up THEN cool ELSE local'[m[2]]
    <3>1. m \in marked /\ ~(m[2] = c /\ m[1] \in local[c]) /\ m[2] \in Processes
      BY <1>5 DEF TypeOK
    <3>2. m[1] \in IF up THEN cool ELSE local[m[2]]
      BY <3>1 DEF MarksAgree, Faced
    <3> QED
      BY <1>3, <3>1, <3>2
  <2> QED
    BY <2>1, <2>2, <2>3
<1>9. ChainAvoids'
  BY <1>1, <1>2, <1>3, IdleFits DEF ChainAvoids, Faced
<1>10. Shapes'
  <2>1. \A d \in Processes : Shape(turn'[d])
    BY <1>2, IdleFits DEF Shapes
  <2> QED
    BY <2>1 DEF Shapes, Shape
<1>11. AvoidsAreMarked'
  <2> SUFFICES ASSUME ~flapped, NEW d \in Processes, NEW q \in turn'[d].avoid
               PROVE q \in Paid /\ \E e \in Processes : <<q, e>> \in marked' /\ (e = d \/ up)
    BY <1>1 DEF AvoidsAreMarked, MustAvoid
  <2>1. d # c /\ q \in turn[d].avoid
    BY <1>2, IdleFits
  <2>2. PICK e \in Processes : q \in Paid /\ <<q, e>> \in marked /\ (e = d \/ up)
    BY <2>1 DEF AvoidsAreMarked, MustAvoid
  <2>3. e # c \/ q \notin local[c]
    BY <2>1, <2>2 DEF MarksAgree
  <2> QED
    BY <1>6, <2>2, <2>3
<1>12. MarksAreEarned'
  BY <1>1, <1>3 DEF MarksAreEarned
<1> QED
  BY <1>7, <1>8, <1>9, <1>10, <1>11, <1>12

\* Redis goes, loses its keys, or comes back.
LEMMA FlapKeepsInv ==
  ASSUME IInv, RedisFlaps
  PROVE  IInv'
<1> USE DEF IInv, RedisFlaps
<1>1. TypeOK'
  BY DEF TypeOK
<1>2. (MarksAgree /\ ChainAvoids /\ AvoidsAreMarked)'
  BY DEF MarksAgree, ChainAvoids, AvoidsAreMarked
<1>3. Shapes'
  BY DEF Shapes, Shape
<1>4. MarksAreEarned'
  BY DEF MarksAreEarned
<1> QED
  BY <1>1, <1>2, <1>3, <1>4

\* Every step keeps the invariant.
LEMMA StepPreserves == IInv /\ [Next]_vars => IInv'
<1> SUFFICES ASSUME IInv, [Next]_vars PROVE IInv'
  OBVIOUS
<1>1. CASE UNCHANGED vars
  <2> USE <1>1 DEF vars, store, history, IInv
  <2>1. TypeOK'
    BY DEF TypeOK
  <2>4. MarksAreEarned'
    BY DEF MarksAreEarned
  <2>2. MarksAgree' /\ ChainAvoids'
    BY DEF MarksAgree, ChainAvoids, Faced
  <2>3. Shapes' /\ AvoidsAreMarked'
    BY DEF Shapes, Shape, AvoidsAreMarked, MustAvoid
  <2> QED
    BY <2>1, <2>2, <2>3, <2>4
<1> QED
  BY <1>1, BeginKeepsInv, SelectKeepsInv, DispatchKeepsInv, AttemptKeepsInv, ReturnKeepsInv,
     KeyExpiresKeepsInv, EntryExpiresKeepsInv, RestartKeepsInv, FlapKeepsInv DEF Next, Serve

-----------------------------------------------------------------------------

\* The inductive invariant, for any processes and platforms.
THEOREM RoutingInvariant == Spec => []IInv
<1> QED
  BY InitEstablishes, StepPreserves, PTL DEF Spec

\* Every variable keeps its type.
THEOREM TypeCorrect == Spec => []TypeOK
<1>1. IInv => TypeOK
  BY DEF IInv
<1> QED
  BY <1>1, RoutingInvariant, PTL

\* Every chain that route_and_execute hands to the walk has the floor, first
\* or last, and repeats no platform.
THEOREM ChainsAreResolvable == Spec => []ChainIsResolvable
<1>1. IInv => ChainIsResolvable
  BY DEF IInv, Shapes, Shape, Fits, Distinct, ChainIsResolvable
<1> QED
  BY <1>1, RoutingInvariant, PTL

\* While Redis does not come or go, no turn tries a platform that was marked
\* where its process could see it when the turn began.
THEOREM CooledPlatformsAreSkipped == Spec => []CooledIsSkipped
<1>1. IInv => CooledIsSkipped
  <2> SUFFICES ASSUME IInv, ~flapped, NEW c \in Processes, NEW i \in DOMAIN turn[c].tried
               PROVE turn[c].tried[i].platform \notin turn[c].avoid
    BY DEF CooledIsSkipped
  <2>1. turn[c] \in Turns /\ Shape(turn[c])
    BY DEF IInv, TypeOK, Turns, Shapes
  <2>2. i \in 1 .. Len(turn[c].tried) /\ i \in DOMAIN turn[c].chain
    BY <2>1 DEF Turns, Shape
  <2>3. turn[c].tried[i].platform = turn[c].chain[i]
    BY <2>1, <2>2 DEF Shape
  <2> QED
    BY <2>2, <2>3 DEF IInv, ChainAvoids
<1> QED
  BY <1>1, RoutingInvariant, PTL

\* A turn goes on to another platform only after a failure that lets it, and
\* gives up on such a failure only when the floor has failed.
THEOREM WalksAreContained == Spec => []WalkIsContained
<1>1. IInv => WalkIsContained
  <2> SUFFICES ASSUME IInv, NEW c \in Processes
               PROVE LET t == turn[c]  n == Len(t.tried) IN
                     /\ \A i \in 1 .. n - 1 : t.tried[i].outcome \in FallsBack
                     /\ t.pc = "done" /\ t.tried[n].outcome \in FallsBack =>
                          \E i \in 1 .. n : t.tried[i].platform = opencode
    BY DEF WalkIsContained
  <2> DEFINE t == turn[c]  n == Len(t.tried)
  <2>1. t \in Turns /\ Shape(t)
    BY DEF IInv, TypeOK, Turns, Shapes
  <2> HIDE DEF t
  <2>2. n \in Nat /\ t.pc \in {"idle", "select", "dispatch", "walk", "done"} /\ Len(t.chain) \in Nat
    BY <2>1 DEF Turns
  <2>3. \A i \in 1 .. n - 1 : t.tried[i].outcome \in FallsBack
    BY <2>1, <2>2 DEF Shape
  <2>4. ASSUME t.pc = "done", t.tried[n].outcome \in FallsBack
        PROVE \E i \in 1 .. n : t.tried[i].platform = opencode
    <3>1. n > 0 /\ n = Len(t.chain) /\ t.chain # Unresolved
      BY <2>1, <2>2, <2>4 DEF Shape, Unresolved
    <3>2. opencode = t.chain[1] \/ opencode = t.chain[n]
      BY <2>1, <3>1 DEF Shape, Fits
    <3>3. t.tried[1].platform = t.chain[1] /\ t.tried[n].platform = t.chain[n]
      BY <2>1, <2>2, <3>1 DEF Shape
    <3> QED
      BY <2>2, <3>1, <3>2, <3>3
  <2> QED
    BY <2>3, <2>4 DEF t
<1> QED
  BY <1>1, RoutingInvariant, PTL

\* Only platforms that ran out of quota or lost their login are cooling.
THEOREM OnlyEarnedMarks == Spec => []MarksAreEarned
<1>1. IInv => MarksAreEarned
  BY DEF IInv
<1> QED
  BY <1>1, RoutingInvariant, PTL
=============================================================================
