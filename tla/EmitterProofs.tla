---------------------------- MODULE EmitterProofs ----------------------------
(***************************************************************************)
(* StreamEmitter for any producers, handlers, other writers and readers,   *)
(* any high-water mark and any batch size.                                 *)
(*                                                                         *)
(* The argument: what the worker has queued, and the endpoint not yet      *)
(* received, is one line of chunks; every pass of the flusher only moves   *)
(* the border between its batch and the rest, and a request takes a prefix *)
(* of the line away.                                                       *)
(*                                                                         *)
(* The log beneath is EventLog, by itself an append-only log whose pollers *)
(* miss nothing: whoever is between BEGIN and COMMIT holds the lock, so    *)
(* the MAX(seq) it read is still the maximum when it inserts and commits;  *)
(* hence the committed rows are always a sequence.                         *)
(***************************************************************************)
EXTENDS StreamEmitter, FiniteSetTheorems, SequenceTheorems, TLAPS

-----------------------------------------------------------------------------
(* The log by itself                                                       *)

\* Only the holder of the advisory lock has an open append transaction.
LockExcludes == \A w \in Writers : tx[w] # "idle" => holder = w

\* A number that was read and not yet committed is the next one.
NumberIsNext ==
  \A w \in Writers : tx[w] \in {"numbered", "inserted"} => mySeq[w] = Len(rows) + 1

CursorIsRead == \A r \in Readers : cursor[r] <= Len(rows)

IInv ==
  /\ TypeOK
  /\ rows \in Seq(Writers)
  /\ LockExcludes
  /\ NumberIsNext
  /\ NoConflict
  /\ ReaderMissesNothing
  /\ CursorIsRead

-----------------------------------------------------------------------------

\* COALESCE(MAX(seq), 0) is the length of the log.
LEMMA MaxIsLength ==
  ASSUME rows \in Seq(Writers)
  PROVE  MaxCommitted = Len(rows)
<1>1. DOMAIN rows = 1 .. Len(rows) /\ Len(rows) \in Nat
  OBVIOUS
<1>2. Len(rows) \in DOMAIN rows \cup {0}
  BY <1>1
<1>3. \A n \in DOMAIN rows : n <= Len(rows)
  BY <1>1
<1>4. /\ MaxCommitted \in DOMAIN rows \cup {0}
      /\ \A n \in DOMAIN rows : n <= MaxCommitted
  BY <1>2, <1>3 DEF MaxCommitted
<1> QED
  BY <1>1, <1>2, <1>3, <1>4

\* The row function written by COMMIT is the log with one entry appended.
LEMMA CommitAppends ==
  ASSUME rows \in Seq(Writers), NEW w \in Writers
  PROVE  [n \in DOMAIN rows \cup {Len(rows) + 1} |->
            IF n = Len(rows) + 1 THEN w ELSE rows[n]] = Append(rows, w)
<1> DEFINE new == [n \in DOMAIN rows \cup {Len(rows) + 1} |->
                     IF n = Len(rows) + 1 THEN w ELSE rows[n]]
<1>1. DOMAIN rows = 1 .. Len(rows) /\ Len(rows) \in Nat
  OBVIOUS
<1>2. DOMAIN new = 1 .. Len(rows) + 1
  BY <1>1
<1>3. DOMAIN Append(rows, w) = 1 .. Len(rows) + 1
  OBVIOUS
<1>4. \A n \in 1 .. Len(rows) + 1 : new[n] = Append(rows, w)[n]
  BY <1>1
<1>5. new = [n \in DOMAIN new |-> new[n]]
  OBVIOUS
<1>6. Append(rows, w) = [n \in DOMAIN Append(rows, w) |-> Append(rows, w)[n]]
  <2>1. Append(rows, w) \in Seq(Writers)
    OBVIOUS
  <2> QED
    BY <2>1, LenProperties
<1> HIDE DEF new
<1>7. new = Append(rows, w)
  BY <1>2, <1>3, <1>4, <1>5, <1>6
<1> QED
  BY <1>7 DEF new

-----------------------------------------------------------------------------

\* The invariant holds of an empty log.
LEMMA InitEstablishes == Init => IInv
<1> SUFFICES ASSUME Init PROVE IInv
  OBVIOUS
<1>1. rows = << >>
  BY DEF Init
<1>2. rows \in Seq(Writers) /\ Len(rows) = 0 /\ DOMAIN rows = {}
  BY <1>1
<1> QED
  BY <1>2 DEF Init, IInv, TypeOK, LockExcludes, NumberIsNext, NoConflict,
              ReaderMissesNothing, CursorIsRead, TxStates

\* Every statement of a writer and every poll keeps the invariant.
LEMMA StepPreserves == IInv /\ [Next]_vars => IInv'
<1> SUFFICES ASSUME IInv, [Next]_vars PROVE IInv'
  OBVIOUS
<1> USE NoneAssumption
<1>0. MaxCommitted = Len(rows) /\ Len(rows) \in Nat /\ DOMAIN rows = 1 .. Len(rows)
  BY MaxIsLength DEF IInv
<1>1. ASSUME NEW w \in Writers, AcquireLock(w) PROVE IInv'
  BY <1>1 DEF IInv, AcquireLock, TypeOK, LockExcludes, NumberIsNext, NoConflict,
              ReaderMissesNothing, CursorIsRead, TxStates
<1>2. ASSUME NEW w \in Writers, AllocateSeq(w) PROVE IInv'
  BY <1>0, <1>2 DEF IInv, AllocateSeq, TypeOK, LockExcludes, NumberIsNext,
              NoConflict, ReaderMissesNothing, CursorIsRead, TxStates
<1>3. ASSUME NEW w \in Writers, InsertRow(w) PROVE IInv'
  <2>1. mySeq[w] \notin DOMAIN rows
    BY <1>0, <1>3 DEF IInv, InsertRow, NumberIsNext
  <2>2. tx' = [tx EXCEPT ![w] = "inserted"]
    BY <1>3, <2>1 DEF InsertRow
  <2> QED
    BY <1>3, <2>2 DEF IInv, InsertRow, TypeOK, LockExcludes, NumberIsNext,
              NoConflict, ReaderMissesNothing, CursorIsRead, TxStates
<1>4. ASSUME NEW w \in Writers, Commit(w) PROVE IInv'
  <2>1. mySeq[w] = Len(rows) + 1
    BY <1>4 DEF IInv, Commit, NumberIsNext
  <2>2. rows' = Append(rows, w)
    BY <1>4, <2>1, CommitAppends DEF IInv, Commit
  <2>3. /\ rows' \in Seq(Writers)
        /\ Len(rows') = Len(rows) + 1
        /\ DOMAIN rows' = 1 .. Len(rows) + 1
        /\ \A n \in DOMAIN rows' : rows'[n] \in Writers
    BY <2>2 DEF IInv
  <2>4. \A v \in Writers : tx'[v] = "idle"
    BY <1>4 DEF IInv, Commit, Release, LockExcludes, TypeOK
  <2>5. TypeOK'
    BY <1>4, <2>3 DEF IInv, TypeOK, Commit, Release, TxStates
  <2>6. LockExcludes' /\ NumberIsNext' /\ NoConflict'
    BY <2>4 DEF LockExcludes, NumberIsNext, NoConflict
  <2>7. ReaderMissesNothing' /\ CursorIsRead'
    <3>1. cursor' = cursor /\ got' = got
      BY <1>4 DEF Commit
    <3>2. ASSUME NEW r \in Readers
          PROVE  {n \in DOMAIN rows' : n <= cursor[r]} = {n \in DOMAIN rows : n <= cursor[r]}
      BY <1>0, <2>3 DEF IInv, TypeOK, CursorIsRead
    <3>3. ReaderMissesNothing'
      BY <3>1, <3>2 DEF IInv, ReaderMissesNothing
    <3>4. CursorIsRead'
      BY <1>0, <2>3, <3>1 DEF IInv, TypeOK, CursorIsRead
    <3> QED
      BY <3>3, <3>4
  <2> QED
    BY <2>3, <2>5, <2>6, <2>7 DEF IInv
<1>5. ASSUME NEW w \in Writers, Rollback(w) PROVE IInv'
  BY <1>5 DEF IInv, Rollback, Release, TypeOK, LockExcludes, NumberIsNext,
              NoConflict, ReaderMissesNothing, CursorIsRead, TxStates
<1>6. ASSUME NEW r \in Readers, Poll(r) PROVE IInv'
  <2>1. PICK hi \in Newer(r) :
          /\ got' = [got EXCEPT ![r] = @ \cup PageUpTo(r, hi)]
          /\ cursor' = [cursor EXCEPT ![r] = hi]
    BY <1>6 DEF Poll
  <2>2. hi \in 1 .. Len(rows) /\ cursor[r] < hi
    BY <1>0 DEF Newer
  <2>3. got[r] \cup PageUpTo(r, hi) = {n \in DOMAIN rows : n <= hi}
    BY <1>0, <2>2 DEF IInv, ReaderMissesNothing, Newer, PageUpTo, TypeOK
  <2>4. UNCHANGED <<rows, holder, tx, mySeq>>
    BY <1>6 DEF Poll
  <2>5. got' = [got EXCEPT ![r] = {n \in DOMAIN rows : n <= hi}]
    BY <2>1, <2>3 DEF IInv, TypeOK
  <2>6. TypeOK'
    BY <1>0, <2>1, <2>2, <2>4, <2>5 DEF IInv, TypeOK
  <2>7. ReaderMissesNothing' /\ CursorIsRead'
    BY <1>0, <2>1, <2>2, <2>4, <2>5 DEF IInv, TypeOK, ReaderMissesNothing, CursorIsRead
  <2> QED
    BY <2>4, <2>6, <2>7 DEF IInv, LockExcludes, NumberIsNext, NoConflict
<1>7. CASE UNCHANGED vars
  BY <1>7 DEF IInv, vars, TypeOK, LockExcludes, NumberIsNext, NoConflict,
              ReaderMissesNothing, CursorIsRead
<1> QED
  BY <1>1, <1>2, <1>3, <1>4, <1>5, <1>6, <1>7 DEF Next

\* The inductive invariant holds in every reachable state.
THEOREM EventLogInvariant == Spec => []IInv
  BY InitEstablishes, StepPreserves, PTL DEF Spec

\* append_event and publish_session_event never fail on the uniqueness
\* constraint, whatever writers do, for any number of them.
THEOREM AppendsNeverConflict == Spec => []NoConflict
<1>1. IInv => NoConflict
  BY DEF IInv
<1> QED
  BY <1>1, EventLogInvariant, PTL

\* The readable numbers are 1 .. n at every moment.
THEOREM NumbersAreGapless == Spec => []Gapless
<1>1. IInv => Gapless
  BY MaxIsLength DEF IInv, Gapless
<1> QED
  BY <1>1, EventLogInvariant, PTL

\* Polling with seq > cursor gives a reader every row up to its cursor.
THEOREM PollersMissNothing == Spec => []ReaderMissesNothing
<1>1. IInv => ReaderMissesNothing
  BY DEF IInv
<1> QED
  BY <1>1, EventLogInvariant, PTL

\* The table with its lock implements the append-only log.
THEOREM EventLogImplementsLog == Spec => LogSpec
<1>1. Init => Log!Init
  BY DEF Init, Log!Init
<1>2. IInv /\ [Next]_vars => [Log!Next]_rows
  <2> SUFFICES ASSUME IInv, [Next]_vars PROVE Log!Next \/ UNCHANGED rows
    OBVIOUS
  <2>1. ASSUME NEW w \in Writers, Commit(w) PROVE Log!Next
    <3>1. mySeq[w] = Len(rows) + 1
      BY <2>1 DEF IInv, Commit, NumberIsNext
    <3>2. rows' = Append(rows, w)
      BY <2>1, <3>1, CommitAppends DEF IInv, Commit
    <3> QED
      BY <3>2 DEF Log!Next
  <2>2. CASE UNCHANGED vars
    BY <2>2 DEF vars
  <2> QED
    BY <2>1, <2>2 DEF Next, AcquireLock, AllocateSeq, InsertRow, Rollback, Poll
<1> QED
  BY <1>1, <1>2, EventLogInvariant, PTL DEF Spec, LogSpec, Log!Spec

-----------------------------------------------------------------------------
(* The log under the emitter                                               *)

\* Every step of the emitter and of the endpoint is a step of the log, or
\* leaves it alone.
LEMMA LogSteps == [EmitterNext]_<<vars, emitter>> => [Next]_vars
<1> SUFFICES ASSUME [EmitterNext]_<<vars, emitter>> PROVE Next \/ UNCHANGED vars
  OBVIOUS
<1> USE EmitterAssumption
<1>1. ASSUME NEW p \in Producers, Emit(p) \/ Put(p) PROVE UNCHANGED vars
  BY <1>1 DEF Emit, Put
<1>2. CASE Wake \/ Take \/ Drained \/ PostNowhere \/ PostFails \/ Answered
  BY <1>2 DEF Wake, Take, Drained, PostNowhere, PostFails, Answered, FlusherOnly
<1>3. ASSUME NEW w \in Handlers, Post(w) \/ Publish(w) \/ PublishCommits(w) \/ PublishFails(w)
      PROVE  Next \/ UNCHANGED vars
  BY <1>3 DEF Post, FlusherOnly, Publish, PublishCommits, PublishFails, Next
<1>4. CASE Stop \/ Joined \/ Closed
  BY <1>4 DEF Stop, Joined, Closed, CloserOnly
<1>5. ASSUME NEW w \in Writers \ Handlers, Other(w) PROVE Next
  BY <1>5 DEF Other, Next
<1>6. ASSUME NEW r \in Readers, Poll(r) PROVE Next
  BY <1>6 DEF Next
<1> QED
  BY <1>1, <1>2, <1>3, <1>4, <1>5, <1>6 DEF EmitterNext

\* The emitter and the endpoint use the log as EventLog says it is used, so
\* its numbers and its readers are right under them too.
THEOREM EmitterKeepsLog == EmitterSpec => Spec
<1>1. EmitterInit => Init
  BY DEF EmitterInit
<1> QED
  BY <1>1, LogSteps, PTL DEF EmitterSpec, Spec

\* Whatever holds of the log alone holds of the log under the emitter.
LEMMA LogHolds == EmitterSpec => []IInv
<1> QED
  BY EmitterKeepsLog, EventLogInvariant, PTL

\* No chunk dies on the uniqueness constraint, no reader of the session misses
\* a row, and the log is append-only, while batches are posted to it.
THEOREM SharedLogIsSound == EmitterSpec => [](NoConflict /\ ReaderMissesNothing) /\ LogSpec
<1>1. IInv => NoConflict /\ ReaderMissesNothing
  BY DEF IInv
<1> QED
  BY <1>1, LogHolds, EmitterKeepsLog, EventLogImplementsLog, PTL

-----------------------------------------------------------------------------
(* Sequences of chunks                                                     *)

Elems(s) == {s[i] : i \in 1 .. Len(s)}

\* b may come after a: it is another chunk, and, unless a batch was given up
\* at work, one that its thread wrote later.
Apart(a, b, given) == a # b /\ (~given /\ a.from = b.from => a.n < b.n)

Ordered(s, given) == \A i, k \in 1 .. Len(s) : i < k => Apart(s[i], s[k], given)

Precedes(S, T, given) == \A a \in S, b \in T : Apart(a, b, given)

\* The elements of a concatenation are those of its parts.
LEMMA ElemsConcat ==
  ASSUME NEW s \in Seq(Chunks), NEW t \in Seq(Chunks)
  PROVE  Elems(s \o t) = Elems(s) \cup Elems(t)
<1>1. /\ Len(s \o t) = Len(s) + Len(t) /\ Len(s) \in Nat /\ Len(t) \in Nat
      /\ \A i \in 1 .. Len(s) : (s \o t)[i] = s[i]
      /\ \A i \in 1 .. Len(t) : (s \o t)[Len(s) + i] = t[i]
  OBVIOUS
<1>2. ASSUME NEW x \in Elems(s \o t) PROVE x \in Elems(s) \cup Elems(t)
  <2>1. PICK i \in 1 .. Len(s) + Len(t) : x = (s \o t)[i]
    BY <1>1, <1>2 DEF Elems
  <2>2. CASE i <= Len(s)
    <3>1. i \in 1 .. Len(s)
      BY <1>1, <2>2
    <3> QED
      BY <1>1, <2>1, <3>1 DEF Elems
  <2>3. CASE ~(i <= Len(s))
    <3>1. PICK k \in 1 .. Len(t) : i = Len(s) + k
      <4>1. i - Len(s) \in 1 .. Len(t) /\ i = Len(s) + (i - Len(s))
        BY <1>1, <2>3
      <4> QED
        BY <4>1
    <3>2. x = t[k]
      BY <1>1, <2>1, <3>1
    <3> QED
      BY <3>2 DEF Elems
  <2> QED
    BY <2>2, <2>3
<1>3. ASSUME NEW x \in Elems(s) PROVE x \in Elems(s \o t)
  <2>1. PICK i \in 1 .. Len(s) : x = s[i]
    BY <1>3 DEF Elems
  <2>2. i \in 1 .. Len(s \o t)
    BY <1>1
  <2> QED
    BY <1>1, <2>1, <2>2 DEF Elems
<1>4. ASSUME NEW x \in Elems(t) PROVE x \in Elems(s \o t)
  <2>1. PICK i \in 1 .. Len(t) : x = t[i]
    BY <1>4 DEF Elems
  <2>2. Len(s) + i \in 1 .. Len(s \o t)
    BY <1>1
  <2> QED
    BY <1>1, <2>1, <2>2 DEF Elems
<1> QED
  BY <1>2, <1>3, <1>4

\* A concatenation is in order when its parts are, and one precedes the other.
LEMMA OrderedConcat ==
  ASSUME NEW s \in Seq(Chunks), NEW t \in Seq(Chunks), NEW g \in BOOLEAN
  PROVE  Ordered(s \o t, g)
           <=> Ordered(s, g) /\ Ordered(t, g) /\ Precedes(Elems(s), Elems(t), g)
<1>1. /\ Len(s \o t) = Len(s) + Len(t) /\ Len(s) \in Nat /\ Len(t) \in Nat
      /\ \A i \in 1 .. Len(s) : (s \o t)[i] = s[i]
      /\ \A i \in 1 .. Len(t) : (s \o t)[Len(s) + i] = t[i]
  OBVIOUS
<1>2. ASSUME Ordered(s \o t, g) PROVE Ordered(s, g)
  <2> SUFFICES ASSUME NEW i \in 1 .. Len(s), NEW k \in 1 .. Len(s), i < k
               PROVE  Apart(s[i], s[k], g)
    BY DEF Ordered
  <2>1. i \in 1 .. Len(s \o t) /\ k \in 1 .. Len(s \o t)
    BY <1>1
  <2>2. Apart((s \o t)[i], (s \o t)[k], g)
    BY <1>2, <2>1 DEF Ordered
  <2> QED
    BY <1>1, <2>2
<1>3. ASSUME Ordered(s \o t, g) PROVE Ordered(t, g)
  <2> SUFFICES ASSUME NEW i \in 1 .. Len(t), NEW k \in 1 .. Len(t), i < k
               PROVE  Apart(t[i], t[k], g)
    BY DEF Ordered
  <2>1. /\ Len(s) + i \in 1 .. Len(s \o t) /\ Len(s) + k \in 1 .. Len(s \o t)
        /\ Len(s) + i < Len(s) + k
    BY <1>1
  <2>2. Apart((s \o t)[Len(s) + i], (s \o t)[Len(s) + k], g)
    BY <1>3, <2>1 DEF Ordered
  <2> QED
    BY <1>1, <2>2
<1>4. ASSUME Ordered(s \o t, g) PROVE Precedes(Elems(s), Elems(t), g)
  <2> SUFFICES ASSUME NEW i \in 1 .. Len(s), NEW k \in 1 .. Len(t)
               PROVE  Apart(s[i], t[k], g)
    BY DEF Precedes, Elems
  <2>1. /\ i \in 1 .. Len(s \o t) /\ Len(s) + k \in 1 .. Len(s \o t)
        /\ i < Len(s) + k
    BY <1>1
  <2>2. Apart((s \o t)[i], (s \o t)[Len(s) + k], g)
    BY <1>4, <2>1 DEF Ordered
  <2> QED
    BY <1>1, <2>2
<1>5. ASSUME Ordered(s, g), Ordered(t, g), Precedes(Elems(s), Elems(t), g)
      PROVE  Ordered(s \o t, g)
  <2> SUFFICES ASSUME NEW i \in 1 .. Len(s \o t), NEW k \in 1 .. Len(s \o t), i < k
               PROVE  Apart((s \o t)[i], (s \o t)[k], g)
    BY DEF Ordered
  <2>1. CASE k <= Len(s)
    <3>1. i \in 1 .. Len(s) /\ k \in 1 .. Len(s)
      BY <1>1, <2>1
    <3> QED
      BY <1>1, <1>5, <3>1 DEF Ordered
  <2>2. CASE i <= Len(s) /\ ~(k <= Len(s))
    <3>1. PICK m \in 1 .. Len(t) : k = Len(s) + m
      <4>1. k - Len(s) \in 1 .. Len(t) /\ k = Len(s) + (k - Len(s))
        BY <1>1, <2>2
      <4> QED
        BY <4>1
    <3>2. i \in 1 .. Len(s)
      BY <1>1, <2>2
    <3>3. s[i] \in Elems(s) /\ t[m] \in Elems(t)
      BY <3>1, <3>2 DEF Elems
    <3> QED
      BY <1>1, <1>5, <3>1, <3>2, <3>3 DEF Precedes
  <2>3. CASE ~(i <= Len(s))
    <3>1. PICK m \in 1 .. Len(t) : k = Len(s) + m
      <4>1. k - Len(s) \in 1 .. Len(t) /\ k = Len(s) + (k - Len(s))
        BY <1>1, <2>3
      <4> QED
        BY <4>1
    <3>2. PICK j \in 1 .. Len(t) : i = Len(s) + j
      <4>1. i - Len(s) \in 1 .. Len(t) /\ i = Len(s) + (i - Len(s))
        BY <1>1, <2>3
      <4> QED
        BY <4>1
    <3>3. j < m
      BY <1>1, <3>1, <3>2
    <3> QED
      BY <1>1, <1>5, <3>1, <3>2, <3>3 DEF Ordered
  <2> QED
    BY <2>1, <2>2, <2>3
<1> QED
  BY <1>2, <1>3, <1>4, <1>5

\* A sequence is its head before its tail.
LEMMA HeadTail ==
  ASSUME NEW s \in Seq(Chunks), s # <<>>
  PROVE  /\ Head(s) \in Chunks /\ Tail(s) \in Seq(Chunks) /\ <<Head(s)>> \in Seq(Chunks)
         /\ s = <<Head(s)>> \o Tail(s)
         /\ Len(s) = 1 + Len(Tail(s))
<1>1. /\ Head(s) \in Chunks /\ Tail(s) \in Seq(Chunks) /\ Len(s) = 1 + Len(Tail(s))
      /\ Len(s) \in Nat /\ Len(Tail(s)) \in Nat /\ Head(s) = s[1]
      /\ \A i \in 1 .. Len(Tail(s)) : Tail(s)[i] = s[i + 1]
  OBVIOUS
<1>2. <<Head(s)>> \in Seq(Chunks) /\ Len(<<Head(s)>>) = 1 /\ <<Head(s)>>[1] = Head(s)
  BY <1>1
<1> DEFINE h == <<Head(s)>>  t == Tail(s)
<1> HIDE DEF h, t
<1>3. /\ h \o t \in Seq(Chunks) /\ Len(h \o t) = Len(h) + Len(t)
      /\ \A i \in 1 .. Len(h) : (h \o t)[i] = h[i]
      /\ \A i \in 1 .. Len(t) : (h \o t)[Len(h) + i] = t[i]
  BY <1>1, <1>2 DEF h, t
<1>4. ASSUME NEW i \in 1 .. Len(s) PROVE (h \o t)[i] = s[i]
  <2>1. CASE i = 1
    BY <1>1, <1>2, <1>3, <2>1 DEF h
  <2>2. CASE i # 1
    <3>1. PICK k \in 1 .. Len(t) : i = 1 + k
      <4>1. i - 1 \in 1 .. Len(t) /\ i = 1 + (i - 1)
        BY <1>1, <2>2 DEF t
      <4> QED
        BY <4>1
    <3>2. k + 1 = 1 + k
      OBVIOUS
    <3> QED
      BY <1>1, <1>2, <1>3, <3>1, <3>2 DEF h, t
  <2> QED
    BY <2>1, <2>2
<1>5. Len(h \o t) = Len(s)
  BY <1>1, <1>2, <1>3 DEF h, t
<1>6. h \o t = s
  BY <1>3, <1>4, <1>5, SeqEqual
<1> QED
  BY <1>1, <1>2, <1>6 DEF h, t

\* The element of a sequence of one.
LEMMA ElemsOne ==
  ASSUME NEW x
  PROVE  Elems(<<x>>) = {x} /\ Elems(<<>>) = {}
<1>1. Len(<<x>>) = 1 /\ <<x>>[1] = x /\ 1 .. 1 = {1}
  OBVIOUS
<1>2. Len(<<>>) = 0 /\ 1 .. 0 = {}
  OBVIOUS
<1> QED
  BY <1>1, <1>2 DEF Elems

\* A sequence of one is in order.
LEMMA OrderedOne ==
  ASSUME NEW x, NEW g \in BOOLEAN
  PROVE  Ordered(<<x>>, g) /\ Ordered(<<>>, g)
<1>1. \A i, k \in 1 .. 1 : ~(i < k)
  OBVIOUS
<1>2. Len(<<x>>) = 1 /\ Len(<<>>) = 0
  OBVIOUS
<1> QED
  BY <1>1, <1>2 DEF Ordered

-----------------------------------------------------------------------------
(* The invariant                                                           *)

PCs == {"loop", "taking", "post", "posted", "done"}

FlusherRecords ==
  [pc : PCs, batch : Seq(Chunks), over : Seq(Chunks), final : BOOLEAN,
   handler : Handlers \cup {None}]

WorkerTyped ==
  /\ sent \in [Producers -> Nat]
  /\ putting \in [Producers -> Seq(Chunks)] /\ queue \in Seq(Chunks)
  /\ closer \in {"open", "joining", "closing", "closed"}
  /\ flusher \in FlusherRecords
  /\ timely \subseteq Chunks
  /\ hurried \in BOOLEAN

ApiTyped ==
  /\ request \in [Handlers -> Seq(Chunks)]
  /\ DOMAIN stored \subseteq DOMAIN rows /\ \A n \in DOMAIN stored : stored[n] \in Chunks
  /\ failed \subseteq Chunks
  /\ abandoned \in BOOLEAN /\ trouble \in 0 .. MaxTrouble

\* The type invariant in three parts: the log, the worker, the endpoint.
LEMMA EmitterTypeParts == EmitterTypeOK <=> TypeOK /\ WorkerTyped /\ ApiTyped
  BY DEF EmitterTypeOK, WorkerTyped, ApiTyped, FlusherRecords, PCs

\* A thread is past the test with one chunk, the last it was called with.
PutterShape ==
  \A p \in Producers :
    \/ putting[p] = <<>>
    \/ \E c \in Chunks : putting[p] = <<c>> /\ c.from = p /\ c.n = sent[p]

\* Where the flusher holds chunks, and when it has seen the stop.
FlusherShape ==
  /\ flusher.pc = "taking" => flusher.over = <<>>
  /\ flusher.pc \in {"loop", "done"} => flusher.batch = <<>> /\ flusher.over = <<>>
  /\ flusher.pc = "posted" => flusher.handler \in Handlers
  /\ flusher.pc = "done" => flusher.final
  /\ flusher.final => closer # "open"
  /\ closer \in {"closing", "closed"} /\ ~hurried => flusher.pc = "done"

\* A handler's transaction is for the chunk at the head of its request.
HandlersServe == \A w \in Handlers : tx[w] # "idle" => request[w] # <<>>

\* What the worker has and the endpoint has not yet received.
Line == (IF flusher.pc = "posted" THEN <<>> ELSE flusher.batch) \o flusher.over \o queue

\* Chunks that were put: whatever became of them, they are older than the
\* chunk their thread is about to put.
Known(c) == /\ c.n <= sent[c.from]
            /\ putting[c.from] # <<>> => c.n < sent[c.from]

AllKnown ==
  /\ \A c \in Elems(Line) \cup Stored \cup timely : Known(c)
  /\ \A w \in Handlers : \A c \in Elems(request[w]) : Known(c)

EShape ==
  /\ WorkerTyped /\ ApiTyped
  /\ PutterShape /\ FlusherShape /\ HandlersServe /\ AllKnown

-----------------------------------------------------------------------------
(* Types and shapes                                                        *)

\* Concatenation is associative.
LEMMA Assoc ==
  ASSUME NEW s \in Seq(Chunks), NEW t \in Seq(Chunks), NEW u \in Seq(Chunks)
  PROVE  (s \o t) \o u = s \o (t \o u)
  BY ConcatAssociative

\* The line is a sequence of chunks.
LEMMA LineTyped ==
  ASSUME WorkerTyped
  PROVE  /\ Line \in Seq(Chunks) /\ flusher.batch \in Seq(Chunks) /\ flusher.over \in Seq(Chunks)
         /\ queue \in Seq(Chunks) /\ <<>> \in Seq(Chunks)
         /\ flusher.over \o queue \in Seq(Chunks)
  BY DEF WorkerTyped, FlusherRecords, Line

\* From where the chunks of a batch are: a pass that ends leaves the line
\* alone, but for a batch that was not posted.
LEMMA AfterBatchLine ==
  ASSUME WorkerTyped, FlusherShape, AfterBatch, queue' = queue
  PROVE  /\ flusher' \in FlusherRecords
         /\ Line' = flusher.over \o queue
         /\ flusher.pc = "posted" => Line = Line'
         /\ flusher.pc # "posted" => Line = flusher.batch \o Line'
         /\ flusher'.pc \in {"taking", "done", "loop"}
         /\ flusher'.batch = flusher.over /\ flusher'.over = <<>> /\ flusher'.handler = None
         /\ flusher'.final = flusher.final
         /\ flusher'.pc = "taking" <=> flusher.over # <<>>
         /\ flusher'.pc = "done" => flusher.final
         /\ flusher.over = <<>> /\ flusher.final => flusher'.pc = "done"
<1>0. flusher \in FlusherRecords
  BY DEF WorkerTyped
<1>1. /\ flusher.batch \in Seq(Chunks) /\ flusher.over \in Seq(Chunks) /\ queue \in Seq(Chunks)
      /\ flusher.over \o queue \in Seq(Chunks) /\ <<>> \in Seq(Chunks)
  BY LineTyped
<1>2. /\ flusher'.pc \in {"taking", "done", "loop"}
      /\ flusher'.batch = flusher.over /\ flusher'.over = <<>> /\ flusher'.handler = None
      /\ flusher'.final = flusher.final
      /\ flusher'.pc = "taking" <=> flusher.over # <<>>
      /\ flusher'.pc = "done" => flusher.final
      /\ flusher.over = <<>> /\ flusher.final => flusher'.pc = "done"
  BY <1>0 DEF AfterBatch, FlusherRecords
<1>3. flusher' \in FlusherRecords
  BY <1>0, <1>1, <1>2 DEF AfterBatch, FlusherRecords, PCs
<1>4. Line' = flusher.over \o <<>> \o queue
  BY <1>2 DEF Line
<1>5. flusher.over \o <<>> = flusher.over
  BY <1>1
<1>6. Line' = flusher.over \o queue
  BY <1>4, <1>5
<1>7. ASSUME flusher.pc = "posted" PROVE Line = Line'
  <2>1. Line = <<>> \o flusher.over \o queue
    BY <1>7 DEF Line
  <2>2. <<>> \o flusher.over = flusher.over
    BY <1>1
  <2> QED
    BY <1>6, <2>1, <2>2
<1>8. ASSUME flusher.pc # "posted" PROVE Line = flusher.batch \o Line'
  <2>1. Line = flusher.batch \o flusher.over \o queue
    BY <1>8 DEF Line
  <2>2. (flusher.batch \o flusher.over) \o queue = flusher.batch \o (flusher.over \o queue)
    <3> DEFINE b == flusher.batch  o == flusher.over
    <3>1. b \in Seq(Chunks) /\ o \in Seq(Chunks) /\ queue \in Seq(Chunks)
      BY <1>1
    <3> HIDE DEF b, o
    <3>2. (b \o o) \o queue = b \o (o \o queue)
      BY <3>1, Assoc
    <3> QED
      BY <3>2 DEF b, o
  <2> QED
    BY <1>6, <2>1, <2>2
<1> QED
  BY <1>2, <1>3, <1>6, <1>7, <1>8

\* The effect of each step on the flusher and on the line.
LEMMA WakeEffect ==
  ASSUME EShape, Wake
  PROVE  /\ flusher' \in FlusherRecords /\ queue' = queue /\ FlusherShape' /\ Line' = Line
         /\ flusher'.pc = "taking"
<1>1. flusher \in FlusherRecords /\ closer' = closer /\ hurried' = hurried /\ queue' = queue
  BY DEF EShape, WorkerTyped, Wake, FlusherOnly
<1>2. /\ flusher' = [flusher EXCEPT !.pc = "taking", !.final = closer # "open"]
      /\ flusher.pc = "loop"
  BY DEF Wake
<1>3. flusher' \in FlusherRecords
  BY <1>1, <1>2 DEF FlusherRecords, PCs
<1>4. /\ flusher'.pc = "taking" /\ flusher'.final = (closer # "open")
      /\ flusher'.batch = flusher.batch /\ flusher'.over = flusher.over
  BY <1>1, <1>2 DEF FlusherRecords
<1>5. FlusherShape'
  BY <1>1, <1>2, <1>4 DEF EShape, FlusherShape
<1>6. Line' = Line
  BY <1>1, <1>2, <1>4 DEF Line
<1> QED
  BY <1>1, <1>3, <1>4, <1>5, <1>6

\* Taking a chunk moves the border between batch and queue.
LEMMA TakeEffect ==
  ASSUME EShape, Take
  PROVE  /\ flusher' \in FlusherRecords /\ queue' \in Seq(Chunks) /\ FlusherShape' /\ Line' = Line
         /\ flusher'.pc = "taking" \/ flusher'.over # <<>>
         /\ flusher'.pc \in {"taking", "post"}
<1> DEFINE h == Head(queue)  t == Tail(queue)
<1>1. /\ flusher \in FlusherRecords /\ closer' = closer /\ hurried' = hurried /\ queue' = t
      /\ flusher.pc = "taking" /\ flusher.over = <<>>
      /\ flusher.batch \in Seq(Chunks)
  BY DEF EShape, WorkerTyped, FlusherShape, FlusherRecords, Take, FlusherOnly
<1>2. /\ h \in Chunks /\ t \in Seq(Chunks) /\ <<h>> \in Seq(Chunks) /\ queue = <<h>> \o t
      /\ <<>> \in Seq(Chunks)
  <2>1. queue \in Seq(Chunks) /\ queue # <<>>
    BY DEF EShape, WorkerTyped, Take
  <2> HIDE DEF h, t
  <2> QED
    BY <2>1, HeadTail DEF h, t
<1> HIDE DEF h, t
<1>3. Line = flusher.batch \o (<<h>> \o t)
  <2>1. Line = flusher.batch \o <<>> \o queue
    BY <1>1 DEF Line
  <2>2. flusher.batch \o <<>> = flusher.batch
    BY <1>1
  <2> QED
    BY <1>2, <2>1, <2>2
<1>4. (flusher.batch \o <<h>>) \o t = flusher.batch \o (<<h>> \o t)
  BY <1>1, <1>2, Assoc
<1>5. CASE flusher' = [flusher EXCEPT !.batch = Append(@, h)]
  <2>1. Append(flusher.batch, h) = flusher.batch \o <<h>>
    BY <1>1, <1>2, AppendIsConcat
  <2>2. flusher.batch \o <<h>> \in Seq(Chunks)
    BY <1>1, <1>2
  <2>3. /\ flusher' \in FlusherRecords /\ flusher'.pc = "taking" /\ flusher'.over = <<>>
        /\ flusher'.batch = flusher.batch \o <<h>> /\ flusher'.final = flusher.final
    BY <1>1, <1>5, <2>1, <2>2 DEF FlusherRecords
  <2>4. Line' = (flusher.batch \o <<h>>) \o <<>> \o t
    BY <1>1, <2>3 DEF Line
  <2>5. (flusher.batch \o <<h>>) \o <<>> = flusher.batch \o <<h>>
    BY <2>2
  <2>6. Line' = Line
    BY <1>3, <1>4, <2>4, <2>5
  <2>7. FlusherShape'
    BY <1>1, <2>3 DEF EShape, FlusherShape
  <2> QED
    BY <1>1, <1>2, <2>3, <2>6, <2>7
<1>6. CASE flusher' = [flusher EXCEPT !.pc = "post", !.over = <<h>>]
  <2>1. /\ flusher' \in FlusherRecords /\ flusher'.pc = "post" /\ flusher'.over = <<h>>
        /\ flusher'.batch = flusher.batch /\ flusher'.final = flusher.final
    BY <1>1, <1>2, <1>6 DEF FlusherRecords, PCs
  <2>2. Line' = Line
    BY <1>1, <1>3, <1>4, <2>1 DEF Line
  <2>3. FlusherShape'
    BY <1>1, <2>1 DEF EShape, FlusherShape
  <2>4. <<h>> # <<>>
    OBVIOUS
  <2> QED
    BY <1>1, <1>2, <2>1, <2>2, <2>3, <2>4
<1> QED
  BY <1>5, <1>6 DEF Take, h

\* The queue is empty: the pass ends with what it has.
LEMMA DrainedEffect ==
  ASSUME EShape, Drained
  PROVE  /\ flusher' \in FlusherRecords /\ queue' = queue /\ queue = <<>> /\ FlusherShape'
         /\ Line' = Line /\ flusher'.pc # "posted"
<1>1. /\ flusher \in FlusherRecords /\ closer' = closer /\ hurried' = hurried /\ queue' = queue
      /\ flusher.pc = "taking" /\ flusher.over = <<>> /\ queue = <<>>
      /\ WorkerTyped /\ FlusherShape
  BY DEF EShape, WorkerTyped, FlusherShape, Drained, FlusherOnly
<1>2. CASE flusher.batch = <<>> /\ AfterBatch
  <2>1. /\ flusher' \in FlusherRecords /\ Line = flusher.batch \o Line' /\ Line' \in Seq(Chunks)
        /\ flusher'.pc \in {"taking", "done", "loop"}
        /\ flusher'.batch = <<>> /\ flusher'.over = <<>> /\ flusher'.pc # "taking"
        /\ flusher'.final = flusher.final
        /\ flusher'.pc = "done" => flusher.final
        /\ flusher.final => flusher'.pc = "done"
    BY <1>1, <1>2, AfterBatchLine, LineTyped
  <2>2. Line' = Line
    BY <1>2, <2>1
  <2>3. FlusherShape'
    BY <1>1, <2>1 DEF FlusherShape
  <2> QED
    BY <1>1, <2>1, <2>2, <2>3
<1>3. CASE flusher' = [flusher EXCEPT !.pc = "post"]
  <2>1. /\ flusher' \in FlusherRecords /\ flusher'.pc = "post" /\ flusher'.over = flusher.over
        /\ flusher'.batch = flusher.batch /\ flusher'.final = flusher.final
    BY <1>1, <1>3 DEF FlusherRecords, PCs
  <2>2. Line' = Line
    BY <1>1, <2>1 DEF Line
  <2>3. FlusherShape'
    BY <1>1, <2>1 DEF FlusherShape
  <2> QED
    BY <1>1, <2>1, <2>2, <2>3
<1> QED
  BY <1>2, <1>3 DEF Drained

\* A request takes the batch away from the line.
LEMMA PostEffect ==
  ASSUME EShape, NEW w \in Handlers, Post(w)
  PROVE  /\ flusher' \in FlusherRecords /\ queue' = queue /\ FlusherShape'
         /\ Line' \in Seq(Chunks) /\ Line = flusher.batch \o Line'
         /\ flusher'.pc = "posted" /\ flusher'.handler = w /\ flusher'.over = flusher.over
         /\ flusher'.batch = flusher.batch /\ flusher'.final = flusher.final
         /\ flusher.pc = "post" /\ flusher.batch \in Seq(Chunks)
<1>1. /\ flusher \in FlusherRecords /\ closer' = closer /\ hurried' = hurried /\ queue' = queue
      /\ flusher.pc = "post" /\ WorkerTyped /\ FlusherShape
      /\ flusher' = [flusher EXCEPT !.pc = "posted", !.handler = w]
      /\ closer \in {"open", "joining"}
  BY DEF EShape, WorkerTyped, Post, FlusherOnly
<1>2. /\ flusher' \in FlusherRecords /\ flusher'.pc = "posted" /\ flusher'.handler = w
      /\ flusher'.over = flusher.over /\ flusher'.batch = flusher.batch
      /\ flusher'.final = flusher.final
  BY <1>1 DEF FlusherRecords, PCs
<1>3. /\ flusher.batch \in Seq(Chunks) /\ flusher.over \in Seq(Chunks) /\ queue \in Seq(Chunks)
      /\ flusher.over \o queue \in Seq(Chunks)
  BY <1>1, LineTyped
<1>4. Line' = flusher.over \o queue
  <2>1. Line' = <<>> \o flusher.over \o queue
    BY <1>1, <1>2 DEF Line
  <2>2. <<>> \o flusher.over = flusher.over
    BY <1>3
  <2> QED
    BY <2>1, <2>2
<1>5. Line = flusher.batch \o Line'
  <2>1. Line = flusher.batch \o flusher.over \o queue
    BY <1>1 DEF Line
  <2> QED
    BY <1>3, <1>4, <2>1, Assoc
<1>6. FlusherShape'
  BY <1>1, <1>2 DEF FlusherShape
<1> QED
  BY <1>1, <1>2, <1>3, <1>4, <1>5, <1>6

\* A batch that is done with: answered, given up, or posted nowhere.
LEMMA EndOfBatchEffect ==
  ASSUME EShape, FlusherOnly, queue' = queue, AfterBatch, flusher.pc \in {"post", "posted"}
  PROVE  /\ flusher' \in FlusherRecords /\ FlusherShape'
         /\ Line' \in Seq(Chunks)
         /\ flusher.pc = "posted" => Line = Line'
         /\ flusher.pc = "post" => Line = flusher.batch \o Line'
         /\ flusher'.pc \in {"taking", "done", "loop"} /\ flusher'.over = <<>>
         /\ flusher'.pc = "done" => flusher.over = <<>> /\ flusher.final
<1>1. /\ closer' = closer /\ hurried' = hurried /\ WorkerTyped /\ FlusherShape
  BY DEF EShape, FlusherOnly
<1>2. /\ flusher' \in FlusherRecords
      /\ flusher.pc = "posted" => Line = Line'
      /\ flusher.pc = "post" => Line = flusher.batch \o Line'
      /\ flusher'.pc \in {"taking", "done", "loop"}
      /\ flusher'.batch = flusher.over /\ flusher'.over = <<>>
      /\ flusher'.final = flusher.final
      /\ flusher'.pc = "taking" <=> flusher.over # <<>>
      /\ flusher'.pc = "done" => flusher.final
      /\ Line' \in Seq(Chunks)
  BY <1>1, AfterBatchLine, LineTyped
<1>3. FlusherShape'
  BY <1>1, <1>2 DEF FlusherShape
<1> QED
  BY <1>2, <1>3

-----------------------------------------------------------------------------
(* Types and shapes are kept                                               *)

\* Whatever moves chunks about without emitting any keeps them known.
LEMMA KnownStays ==
  ASSUME AllKnown, UNCHANGED <<sent, putting, timely>>,
         \A c \in Elems(Line') \cup Stored' :
           c \in Elems(Line) \cup Stored \/ \E w \in Handlers : c \in Elems(request[w]),
         \A w \in Handlers : Elems(request'[w]) \subseteq Elems(Line) \cup Elems(request[w])
  PROVE  AllKnown'
<1>1. \A c : Known(c)' <=> Known(c)
  BY DEF Known
<1> QED
  BY <1>1 DEF AllKnown

\* A step of the flusher: it loses chunks or posts them.
LEMMA FlusherKeepsShape ==
  ASSUME EShape, FlusherOnly, UNCHANGED request, failed' \subseteq Chunks,
         abandoned' \in BOOLEAN, trouble' \in 0 .. MaxTrouble,
         flusher' \in FlusherRecords, queue' \in Seq(Chunks), FlusherShape',
         Elems(Line') \subseteq Elems(Line)
  PROVE  EShape'
<1>1. /\ UNCHANGED <<vars, sent, putting, closer, timely, hurried, stored>>
  BY DEF FlusherOnly
<1>2. WorkerTyped' /\ ApiTyped'
  BY <1>1 DEF EShape, WorkerTyped, ApiTyped, vars
<1>3. PutterShape'
  BY <1>1 DEF EShape, PutterShape
<1>4. HandlersServe'
  BY <1>1 DEF EShape, HandlersServe, vars
<1>5. AllKnown'
  <2>1. Stored' = Stored
    BY <1>1 DEF Stored
  <2> QED
    BY <1>1, <2>1, KnownStays DEF EShape
<1> QED
  BY <1>2, <1>3, <1>4, <1>5 DEF EShape

\* A request that reaches the endpoint takes chunks from the line only.
LEMMA PostKeepsShape ==
  ASSUME EShape, NEW w \in Handlers, Post(w)
  PROVE  EShape'
<1>1. /\ UNCHANGED <<vars, sent, putting, closer, timely, hurried, stored, failed, abandoned, trouble>>
      /\ request' = [request EXCEPT ![w] = flusher.batch] /\ request[w] = <<>>
      /\ request \in [Handlers -> Seq(Chunks)]
  BY DEF Post, FlusherOnly, EShape, ApiTyped
<1>2. /\ flusher' \in FlusherRecords /\ queue' = queue /\ FlusherShape'
      /\ Line' \in Seq(Chunks) /\ Line = flusher.batch \o Line'
      /\ flusher.batch \in Seq(Chunks)
  BY PostEffect
<1>3. WorkerTyped' /\ ApiTyped'
  BY <1>1, <1>2 DEF EShape, WorkerTyped, ApiTyped, vars
<1>4. PutterShape'
  BY <1>1 DEF EShape, PutterShape
<1>5. HandlersServe'
  BY <1>1 DEF EShape, HandlersServe, vars
<1>6. AllKnown'
  <2>1. Stored' = Stored
    BY <1>1 DEF Stored
  <2>2. Elems(Line) = Elems(flusher.batch) \cup Elems(Line')
    BY <1>2, ElemsConcat
  <2>3. \A v \in Handlers : Elems(request'[v]) \subseteq Elems(Line) \cup Elems(request[v])
    BY <1>1, <2>2
  <2> QED
    BY <1>1, <2>1, <2>2, <2>3, KnownStays DEF EShape
<1> QED
  BY <1>2, <1>3, <1>4, <1>5, <1>6 DEF EShape

\* A call of emit_chunk: the chunk is the newest of its thread.
LEMMA EmitKeepsShape ==
  ASSUME EShape, NEW p \in Producers, Emit(p)
  PROVE  EShape'
<1>1. /\ UNCHANGED <<vars, queue, closer, flusher, timely, hurried, request, stored, failed, abandoned, trouble>>
      /\ sent' = [sent EXCEPT ![p] = @ + 1] /\ putting[p] = <<>>
      /\ sent \in [Producers -> Nat] /\ putting \in [Producers -> Seq(Chunks)]
  BY DEF Emit, EShape, WorkerTyped
<1>2. sent[p] \in Nat /\ sent'[p] = sent[p] + 1 /\ sent' \in [Producers -> Nat]
  BY <1>1
<1>3. \/ putting' = putting
      \/ \E c \in Chunks : /\ c.from = p /\ c.n = sent'[p]
                           /\ putting' = [putting EXCEPT ![p] = <<c>>]
  <2>1. PICK kind \in Kinds[p] :
          putting' = IF Dropped(kind) THEN putting
                     ELSE [putting EXCEPT ![p] = <<[from |-> p, n |-> sent'[p], kind |-> kind]>>]
    BY DEF Emit
  <2>2. [from |-> p, n |-> sent'[p], kind |-> kind] \in Chunks
    BY <1>2, <2>1 DEF Chunks
  <2> QED
    BY <2>1, <2>2
<1>4. putting' \in [Producers -> Seq(Chunks)]
  <2>1. \A c \in Chunks : <<c>> \in Seq(Chunks)
    OBVIOUS
  <2> QED
    BY <1>1, <1>3, <2>1
<1>5. WorkerTyped' /\ ApiTyped'
  BY <1>1, <1>2, <1>4 DEF EShape, WorkerTyped, ApiTyped, vars
<1>6. PutterShape'
  <2> SUFFICES ASSUME NEW q \in Producers
               PROVE  \/ putting'[q] = <<>>
                      \/ \E c \in Chunks : putting'[q] = <<c>> /\ c.from = q /\ c.n = sent'[q]
    BY DEF PutterShape
  <2>1. CASE q = p
    BY <1>1, <1>3, <2>1
  <2>2. CASE q # p
    <3>1. putting'[q] = putting[q] /\ sent'[q] = sent[q]
      BY <1>1, <1>3, <2>2
    <3> QED
      BY <3>1 DEF EShape, PutterShape
  <2> QED
    BY <2>1, <2>2
<1>7. FlusherShape' /\ HandlersServe'
  BY <1>1 DEF EShape, FlusherShape, HandlersServe, vars
<1>8. ASSUME NEW c, Known(c), c \in Chunks PROVE Known(c)'
  <2>1. c.from \in Producers /\ c.n \in Nat
    BY <1>8 DEF Chunks
  <2>2. CASE c.from = p
    <3>1. c.n < sent'[p]
      <4>1. c.n <= sent[p]
        BY <1>8, <2>2 DEF Known
      <4> QED
        BY <1>2, <2>1, <4>1
    <3>2. c.n <= sent'[p]
      BY <1>2, <2>1, <3>1
    <3> QED
      BY <2>2, <3>1, <3>2 DEF Known
  <2>3. CASE c.from # p
    <3>1. sent'[c.from] = sent[c.from] /\ putting'[c.from] = putting[c.from]
      BY <1>1, <1>3, <2>1, <2>3
    <3> QED
      BY <1>8, <3>1 DEF Known
  <2> QED
    BY <2>2, <2>3
<1>9. AllKnown'
  <2>1. Line' = Line /\ Stored' = Stored
    BY <1>1 DEF Line, Stored
  <2>2. Elems(Line) \subseteq Chunks /\ Stored \subseteq Chunks /\ timely \subseteq Chunks
    BY LineTyped DEF EShape, WorkerTyped, ApiTyped, Elems, Stored
  <2>3. \A w \in Handlers : Elems(request[w]) \subseteq Chunks
    BY DEF EShape, ApiTyped, Elems
  <2>4. \A c \in Elems(Line) \cup Stored \cup timely : Known(c)'
    BY <1>8, <2>2 DEF EShape, AllKnown
  <2>5. \A w \in Handlers : \A c \in Elems(request[w]) : Known(c)'
    BY <1>8, <2>3 DEF EShape, AllKnown
  <2> QED
    BY <1>1, <2>1, <2>4, <2>5 DEF AllKnown
<1> QED
  BY <1>5, <1>6, <1>7, <1>9 DEF EShape

\* The line after a chunk was put.
LEMMA PutEffect ==
  ASSUME EShape, NEW p \in Producers, Put(p)
  PROVE  \E c \in Chunks : /\ putting[p] = <<c>> /\ c.from = p /\ c.n = sent[p]
                           /\ Line' = Line \o <<c>> /\ <<c>> \in Seq(Chunks)
                           /\ queue' = queue \o <<c>>
                           /\ timely' = IF closer = "open" THEN timely \cup {c} ELSE timely
<1>1. PICK c \in Chunks : putting[p] = <<c>> /\ c.from = p /\ c.n = sent[p]
  BY DEF EShape, PutterShape, Put
<1>2. /\ queue' = queue \o <<c>> /\ flusher' = flusher
      /\ timely' = IF closer = "open" THEN timely \cup {c} ELSE timely
      /\ <<c>> \in Seq(Chunks)
  BY <1>1 DEF Put
<1> DEFINE b == IF flusher.pc = "posted" THEN <<>> ELSE flusher.batch
<1>3. b \in Seq(Chunks) /\ flusher.over \in Seq(Chunks) /\ queue \in Seq(Chunks)
  BY LineTyped DEF EShape
<1>4. Line = b \o flusher.over \o queue /\ Line' = b \o flusher.over \o queue'
  BY <1>2 DEF Line
<1> HIDE DEF b
<1>5. b \o flusher.over \in Seq(Chunks)
  BY <1>3
<1>6. Line' = Line \o <<c>>
  BY <1>2, <1>3, <1>4, <1>5, Assoc
<1> QED
  BY <1>1, <1>2, <1>6

\* A chunk that is put becomes known.
LEMMA PutKeepsShape ==
  ASSUME EShape, NEW p \in Producers, Put(p)
  PROVE  EShape'
<1>1. /\ UNCHANGED <<vars, sent, closer, flusher, hurried, request, stored, failed, abandoned, trouble>>
      /\ putting' = [putting EXCEPT ![p] = <<>>] /\ putting \in [Producers -> Seq(Chunks)]
      /\ sent \in [Producers -> Nat] /\ queue \in Seq(Chunks) /\ timely \subseteq Chunks
  BY DEF Put, EShape, WorkerTyped
<1>2. PICK c \in Chunks : /\ putting[p] = <<c>> /\ c.from = p /\ c.n = sent[p]
                          /\ Line' = Line \o <<c>> /\ <<c>> \in Seq(Chunks)
                          /\ queue' = queue \o <<c>>
                          /\ timely' = IF closer = "open" THEN timely \cup {c} ELSE timely
  BY PutEffect
<1>3. WorkerTyped' /\ ApiTyped'
  <2>1. queue' \in Seq(Chunks) /\ timely' \subseteq Chunks
    BY <1>1, <1>2
  <2>2. putting' \in [Producers -> Seq(Chunks)]
    BY <1>1
  <2> QED
    BY <1>1, <2>1, <2>2 DEF EShape, WorkerTyped, ApiTyped, vars
<1>4. PutterShape'
  BY <1>1 DEF EShape, PutterShape
<1>5. FlusherShape' /\ HandlersServe'
  BY <1>1 DEF EShape, FlusherShape, HandlersServe, vars
<1>6. \A d : Known(d) => Known(d)'
  <2> SUFFICES ASSUME NEW d, Known(d) PROVE Known(d)'
    OBVIOUS
  <2>1. sent' = sent /\ d.n <= sent[d.from]
    BY <1>1 DEF Known
  <2>2. putting'[d.from] # <<>> => putting[d.from] # <<>>
    BY <1>1
  <2> QED
    BY <2>1, <2>2 DEF Known
<1>7. Known(c)'
  <2>1. putting'[p] = <<>> /\ sent' = sent /\ sent[p] \in Nat
    BY <1>1
  <2> QED
    BY <1>2, <2>1 DEF Known
<1>8. AllKnown'
  <2>1. Elems(Line') = Elems(Line) \cup {c}
    <3>1. Line \in Seq(Chunks)
      BY LineTyped DEF EShape
    <3>2. Elems(Line') = Elems(Line) \cup Elems(<<c>>)
      BY <1>2, <3>1, ElemsConcat
    <3> QED
      BY <3>2, ElemsOne
  <2>2. Stored' = Stored
    BY <1>1 DEF Stored
  <2> QED
    BY <1>1, <1>2, <1>6, <1>7, <2>1, <2>2 DEF EShape, AllKnown
<1> QED
  BY <1>3, <1>4, <1>5, <1>8 DEF EShape

\* close() moves on.
LEMMA CloserKeepsShape ==
  ASSUME EShape, Stop \/ Joined \/ Closed
  PROVE  EShape'
<1>1. /\ UNCHANGED <<vars, sent, putting, queue, flusher, timely, request, stored, failed, abandoned, trouble>>
      /\ closer' \in {"joining", "closing", "closed"} /\ hurried' \in BOOLEAN
  BY DEF Stop, Joined, Closed, CloserOnly, EShape, WorkerTyped
<1>2. WorkerTyped' /\ ApiTyped'
  BY <1>1 DEF EShape, WorkerTyped, ApiTyped, vars
<1>3. PutterShape' /\ HandlersServe'
  BY <1>1 DEF EShape, PutterShape, HandlersServe, vars
<1>4. FlusherShape'
  <2>1. closer' \in {"closing", "closed"} /\ ~hurried' => flusher.pc = "done"
    BY DEF Stop, Joined, Closed, EShape, FlusherShape, WorkerTyped
  <2> QED
    BY <1>1, <2>1 DEF EShape, FlusherShape
<1>5. AllKnown'
  <2>1. Line' = Line /\ Stored' = Stored
    BY <1>1 DEF Line, Stored
  <2> QED
    BY <1>1, <2>1, KnownStays DEF EShape
<1> QED
  BY <1>2, <1>3, <1>4, <1>5 DEF EShape

\* A step of the log that stores no chunk: rows only grow.
LEMMA LogKeepsShape ==
  ASSUME EShape, UNCHANGED <<worker, request, stored, abandoned>>,
         failed' \subseteq Chunks, trouble' \in 0 .. MaxTrouble,
         DOMAIN rows \subseteq DOMAIN rows',
         \A w \in Handlers : tx'[w] # "idle" => request[w] # <<>>
  PROVE  EShape'
<1>1. UNCHANGED <<sent, putting, queue, closer, flusher, timely, hurried>>
  BY DEF worker
<1>2. WorkerTyped' /\ ApiTyped'
  BY <1>1 DEF EShape, WorkerTyped, ApiTyped
<1>3. PutterShape' /\ FlusherShape' /\ HandlersServe'
  BY <1>1 DEF EShape, PutterShape, FlusherShape, HandlersServe
<1>4. AllKnown'
  <2>1. Line' = Line /\ Stored' = Stored
    BY <1>1 DEF Line, Stored
  <2> QED
    BY <1>1, <2>1, KnownStays DEF EShape
<1> QED
  BY <1>2, <1>3, <1>4 DEF EShape

\* A chunk that was published, or whose publishing failed, leaves its request.
LEMMA ServedEffect ==
  ASSUME EShape, NEW w \in Handlers, request[w] # <<>>, Served(w)
  PROVE  /\ request' \in [Handlers -> Seq(Chunks)]
         /\ Head(request[w]) \in Chunks /\ request'[w] \in Seq(Chunks)
         /\ request[w] = <<Head(request[w])>> \o request'[w]
         /\ Elems(request[w]) = {Head(request[w])} \cup Elems(request'[w])
         /\ \A v \in Handlers \ {w} : request'[v] = request[v]
<1>1. /\ request \in [Handlers -> Seq(Chunks)] /\ request[w] \in Seq(Chunks)
      /\ request' = [request EXCEPT ![w] = Tail(request[w])]
  BY DEF EShape, ApiTyped, Served
<1>2. /\ Head(request[w]) \in Chunks /\ Tail(request[w]) \in Seq(Chunks)
      /\ <<Head(request[w])>> \in Seq(Chunks)
      /\ request[w] = <<Head(request[w])>> \o Tail(request[w])
  BY <1>1, HeadTail
<1>3. /\ request'[w] = Tail(request[w]) /\ request' \in [Handlers -> Seq(Chunks)]
      /\ \A v \in Handlers \ {w} : request'[v] = request[v]
  BY <1>1, <1>2
<1>4. Elems(request[w]) = {Head(request[w])} \cup Elems(Tail(request[w]))
  BY <1>2, ElemsConcat, ElemsOne
<1> QED
  BY <1>2, <1>3, <1>4

\* The row that a handler commits is a new one, after all others.
LEMMA CommitEffect ==
  ASSUME IInv, EShape, NEW w \in Handlers, PublishCommits(w)
  PROVE  /\ request[w] # <<>>
         /\ \A n \in DOMAIN stored : n < mySeq[w] /\ n \in Nat
         /\ DOMAIN stored' = DOMAIN stored \cup {mySeq[w]} /\ mySeq[w] \in Nat
         /\ \A n \in DOMAIN stored : stored'[n] = stored[n]
         /\ stored'[mySeq[w]] = Head(request[w])
         /\ Stored' = Stored \cup {Head(request[w])}
<1>0. w \in Writers
  BY EmitterAssumption
<1>1. tx[w] = "inserted"
  BY DEF PublishCommits, Commit
<1>2. request[w] # <<>>
  BY <1>1 DEF EShape, HandlersServe
<1>3. rows \in Seq(Writers) /\ mySeq[w] = Len(rows) + 1
  BY <1>0, <1>1 DEF IInv, NumberIsNext
<1>4. DOMAIN stored \subseteq 1 .. Len(rows) /\ Len(rows) \in Nat
  BY <1>3 DEF EShape, ApiTyped
<1>5. \A n \in 1 .. Len(rows) : n < Len(rows) + 1 /\ n \in Nat
  BY <1>4
<1>6. \A n \in DOMAIN stored : n < mySeq[w] /\ n \in Nat
  BY <1>3, <1>4, <1>5
<1>7. mySeq[w] \in Nat
  BY <1>3, <1>4
<1>8. mySeq[w] \notin DOMAIN stored
  BY <1>6, <1>7
<1>9. stored' = [n \in DOMAIN stored \cup {mySeq[w]} |->
                   IF n = mySeq[w] THEN Head(request[w]) ELSE stored[n]]
  BY DEF PublishCommits
<1>10. /\ DOMAIN stored' = DOMAIN stored \cup {mySeq[w]}
       /\ \A n \in DOMAIN stored : stored'[n] = stored[n]
       /\ stored'[mySeq[w]] = Head(request[w])
  BY <1>8, <1>9
<1>11. Stored' = Stored \cup {Head(request[w])}
  BY <1>10 DEF Stored
<1> QED
  BY <1>2, <1>6, <1>7, <1>10, <1>11

\* A published chunk moves from its request to the log.
LEMMA CommitKeepsShape ==
  ASSUME IInv, EShape, NEW w \in Handlers, PublishCommits(w)
  PROVE  EShape'
<1>1. /\ UNCHANGED <<sent, putting, queue, closer, flusher, timely, hurried, abandoned, failed, trouble>>
      /\ Commit(w) /\ Served(w)
  BY DEF PublishCommits, HandlerOnly, worker
<1>2. /\ request[w] # <<>>
      /\ DOMAIN stored' = DOMAIN stored \cup {mySeq[w]}
      /\ \A n \in DOMAIN stored : stored'[n] = stored[n]
      /\ stored'[mySeq[w]] = Head(request[w])
      /\ Stored' = Stored \cup {Head(request[w])}
  BY CommitEffect
<1>3. /\ request' \in [Handlers -> Seq(Chunks)]
      /\ Head(request[w]) \in Chunks /\ request'[w] \in Seq(Chunks)
      /\ Elems(request[w]) = {Head(request[w])} \cup Elems(request'[w])
      /\ \A v \in Handlers \ {w} : request'[v] = request[v]
  BY <1>1, <1>2, ServedEffect
<1>4. DOMAIN rows' = DOMAIN rows \cup {mySeq[w]}
  BY <1>1 DEF Commit
<1>5. WorkerTyped' /\ ApiTyped'
  BY <1>1, <1>2, <1>3, <1>4 DEF EShape, WorkerTyped, ApiTyped
<1>6. PutterShape' /\ FlusherShape'
  BY <1>1 DEF EShape, PutterShape, FlusherShape
<1>7. HandlersServe'
  <2>1. /\ tx' = [tx EXCEPT ![w] = "idle"] /\ tx \in [Writers -> TxStates]
        /\ Handlers \subseteq Writers
    BY <1>1, EmitterAssumption DEF Commit, Release, IInv, TypeOK
  <2>2. tx'[w] = "idle" /\ \A v \in Handlers \ {w} : tx'[v] = tx[v]
    BY <2>1
  <2> QED
    BY <1>3, <2>2 DEF EShape, HandlersServe
<1>8. AllKnown'
  <2>1. Line' = Line
    BY <1>1 DEF Line
  <2>2. \A v \in Handlers : Elems(request'[v]) \subseteq Elems(request[v])
    BY <1>3
  <2> QED
    BY <1>1, <1>2, <1>3, <2>1, <2>2, KnownStays DEF EShape
<1> QED
  BY <1>5, <1>6, <1>7, <1>8 DEF EShape

\* A chunk whose publishing failed leaves its request.
LEMMA FailKeepsShape ==
  ASSUME IInv, EShape, NEW w \in Handlers, PublishFails(w)
  PROVE  /\ EShape' /\ request[w] # <<>>
         /\ UNCHANGED <<worker, stored, abandoned>>
         /\ failed' = failed \cup {Head(request[w])} /\ Served(w)
<1>1. /\ UNCHANGED <<sent, putting, queue, closer, flusher, timely, hurried, abandoned, stored>>
      /\ Rollback(w) /\ Served(w) /\ failed' = failed \cup {Head(request[w])}
      /\ UNCHANGED worker
  BY DEF PublishFails, HandlerOnly, worker
<1>2. request[w] # <<>>
  BY <1>1 DEF EShape, HandlersServe, Rollback
<1>3. /\ request' \in [Handlers -> Seq(Chunks)]
      /\ Head(request[w]) \in Chunks
      /\ Elems(request[w]) = {Head(request[w])} \cup Elems(request'[w])
      /\ \A v \in Handlers \ {w} : request'[v] = request[v]
  BY <1>1, <1>2, ServedEffect
<1>4. rows' = rows /\ trouble' \in 0 .. MaxTrouble
  BY EmitterAssumption DEF PublishFails, TroubleHappens, Rollback, EShape, ApiTyped
<1>5. WorkerTyped' /\ ApiTyped'
  BY <1>1, <1>3, <1>4 DEF EShape, WorkerTyped, ApiTyped
<1>6. PutterShape' /\ FlusherShape'
  BY <1>1 DEF EShape, PutterShape, FlusherShape
<1>7. HandlersServe'
  <2>1. /\ tx' = [tx EXCEPT ![w] = "idle"] /\ tx \in [Writers -> TxStates]
        /\ Handlers \subseteq Writers
    BY <1>1, EmitterAssumption DEF Rollback, Release, IInv, TypeOK
  <2>2. tx'[w] = "idle" /\ \A v \in Handlers \ {w} : tx'[v] = tx[v]
    BY <2>1
  <2> QED
    BY <1>3, <2>2 DEF EShape, HandlersServe
<1>8. AllKnown'
  <2>1. Line' = Line /\ Stored' = Stored
    BY <1>1 DEF Line, Stored
  <2>2. \A v \in Handlers : Elems(request'[v]) \subseteq Elems(request[v])
    BY <1>3
  <2> QED
    BY <1>1, <2>1, <2>2, KnownStays DEF EShape
<1> QED
  BY <1>1, <1>2, <1>5, <1>6, <1>7, <1>8 DEF EShape

\* A handler works on its chunk, another writer on its row, a reader polls.
LEMMA OthersKeepShape ==
  ASSUME IInv, EShape,
         \/ \E w \in Handlers : Publish(w)
         \/ \E w \in Writers \ Handlers : Other(w)
         \/ \E r \in Readers : Poll(r) /\ UNCHANGED emitter
  PROVE  /\ EShape' /\ UNCHANGED <<worker, request, stored, failed, abandoned>>
<1>0. tx \in [Writers -> TxStates] /\ Handlers \subseteq Writers
  BY EmitterAssumption DEF IInv, TypeOK
<1>1. ASSUME NEW w \in Handlers, Publish(w)
      PROVE  /\ UNCHANGED <<worker, request, stored, failed, abandoned, trouble, rows>>
             /\ \A v \in Handlers : tx'[v] # "idle" => request[v] # <<>>
  <2>1. UNCHANGED <<worker, request, stored, failed, abandoned, trouble>> /\ request[w] # <<>>
    BY <1>1 DEF Publish, HandlerOnly
  <2>2. UNCHANGED rows /\ \A v \in Writers \ {w} : tx'[v] = tx[v]
    BY <1>0, <1>1 DEF Publish, AcquireLock, AllocateSeq, InsertRow
  <2> QED
    BY <1>0, <2>1, <2>2 DEF EShape, HandlersServe
<1>2. ASSUME NEW w \in Writers \ Handlers, Other(w)
      PROVE  /\ UNCHANGED <<worker, request, stored, failed, abandoned>>
             /\ trouble' \in 0 .. MaxTrouble
             /\ DOMAIN rows \subseteq DOMAIN rows'
             /\ \A v \in Handlers : tx'[v] # "idle" => request[v] # <<>>
  <2>1. UNCHANGED <<worker, request, stored, failed, abandoned>>
    BY <1>2 DEF Other
  <2>2. trouble' \in 0 .. MaxTrouble
    BY <1>2, EmitterAssumption DEF Other, TroubleHappens, EShape, ApiTyped
  <2>3. /\ DOMAIN rows \subseteq DOMAIN rows'
        /\ \A v \in Writers \ {w} : tx'[v] = tx[v]
    BY <1>0, <1>2 DEF Other, AcquireLock, AllocateSeq, InsertRow, Commit, Rollback, Release
  <2> QED
    BY <1>0, <2>1, <2>2, <2>3 DEF EShape, HandlersServe
<1>3. ASSUME NEW r \in Readers, Poll(r), UNCHANGED emitter
      PROVE  /\ UNCHANGED <<worker, request, stored, failed, abandoned, trouble, rows>>
             /\ \A v \in Handlers : tx'[v] # "idle" => request[v] # <<>>
  BY <1>3 DEF Poll, emitter, EShape, HandlersServe
<1>4. /\ UNCHANGED <<worker, request, stored, failed, abandoned>>
      /\ trouble' \in 0 .. MaxTrouble /\ DOMAIN rows \subseteq DOMAIN rows'
      /\ \A v \in Handlers : tx'[v] # "idle" => request[v] # <<>>
  BY <1>1, <1>2, <1>3 DEF EShape, ApiTyped
<1>5. failed' \subseteq Chunks
  BY <1>4 DEF EShape, ApiTyped
<1> QED
  BY <1>4, <1>5, LogKeepsShape

-----------------------------------------------------------------------------
(* The order of chunks                                                     *)

\* Only the handler that the flusher waits for has work, while no batch was
\* given up at work.
OneAtWork ==
  ~abandoned => \A w \in Handlers :
                  request[w] # <<>> => flusher.pc = "posted" /\ flusher.handler = w

StoredOrdered ==
  \A m, n \in DOMAIN stored : m < n => Apart(stored[m], stored[n], abandoned)

RequestsOrdered ==
  \A w \in Handlers :
    /\ Ordered(request[w], abandoned)
    /\ Precedes(Stored, Elems(request[w]), abandoned)
    /\ Precedes(Elems(request[w]), Elems(Line), abandoned)
    /\ \A v \in Handlers \ {w} : Precedes(Elems(request[w]), Elems(request[v]), TRUE)

\* The log, then the requests, then the line.
OrderInv ==
  /\ OneAtWork /\ StoredOrdered /\ RequestsOrdered
  /\ Ordered(Line, abandoned)
  /\ Precedes(Stored, Elems(Line), abandoned)

\* A line that loses its batch, or a batch that is given up, keeps the order.
LEMMA ShorterLineKeepsOrder ==
  ASSUME EShape, OrderInv, UNCHANGED <<request, stored>>,
         abandoned' \in BOOLEAN, abandoned => abandoned', Line' \in Seq(Chunks),
         Line = Line' \/ Line = flusher.batch \o Line', OneAtWork'
  PROVE  OrderInv'
<1>1. /\ Line \in Seq(Chunks) /\ flusher.batch \in Seq(Chunks) /\ abandoned \in BOOLEAN
  BY LineTyped DEF EShape, ApiTyped
<1>2. Elems(Line') \subseteq Elems(Line)
  BY <1>1, ElemsConcat
<1>3. Ordered(Line', abandoned)
  <2>1. Ordered(Line, abandoned)
    BY DEF OrderInv
  <2>2. CASE Line = Line'
    BY <2>1, <2>2
  <2>3. CASE Line = flusher.batch \o Line'
    <3>1. Ordered(flusher.batch \o Line', abandoned)
      BY <2>1, <2>3
    <3> QED
      BY <1>1, <3>1, OrderedConcat
  <2> QED
    BY <2>2, <2>3
<1>4. \A a, b : Apart(a, b, abandoned) => Apart(a, b, abandoned')
  BY DEF Apart
<1>5. Ordered(Line', abandoned')
  BY <1>3, <1>4 DEF Ordered
<1>6. Stored' = Stored
  BY DEF Stored
<1>7. Precedes(Stored', Elems(Line'), abandoned')
  BY <1>2, <1>4, <1>6 DEF OrderInv, Precedes
<1>8. StoredOrdered'
  BY <1>4 DEF OrderInv, StoredOrdered
<1>9. RequestsOrdered'
  <2> SUFFICES ASSUME NEW w \in Handlers
               PROVE  /\ Ordered(request[w], abandoned')
                      /\ Precedes(Stored, Elems(request[w]), abandoned')
                      /\ Precedes(Elems(request[w]), Elems(Line'), abandoned')
                      /\ \A v \in Handlers \ {w} : Precedes(Elems(request[w]), Elems(request[v]), TRUE)
    BY <1>6 DEF RequestsOrdered
  <2>1. /\ Ordered(request[w], abandoned)
        /\ Precedes(Stored, Elems(request[w]), abandoned)
        /\ Precedes(Elems(request[w]), Elems(Line), abandoned)
        /\ \A v \in Handlers \ {w} : Precedes(Elems(request[w]), Elems(request[v]), TRUE)
    BY DEF OrderInv, RequestsOrdered
  <2>2. Ordered(request[w], abandoned')
    BY <1>4, <2>1 DEF Ordered
  <2>3. Precedes(Stored, Elems(request[w]), abandoned')
    BY <1>4, <2>1 DEF Precedes
  <2>4. Precedes(Elems(request[w]), Elems(Line'), abandoned')
    BY <1>2, <1>4, <2>1 DEF Precedes
  <2> QED
    BY <2>1, <2>2, <2>3, <2>4
<1> QED
  BY <1>5, <1>7, <1>8, <1>9 DEF OrderInv

\* The batch becomes the request of a handler that had none.
LEMMA PostKeepsOrder ==
  ASSUME EShape, OrderInv, NEW w \in Handlers, Post(w)
  PROVE  OrderInv'
<1> DEFINE b == flusher.batch  g == abandoned
<1>1. /\ Line' \in Seq(Chunks) /\ Line = b \o Line' /\ b \in Seq(Chunks) /\ Line \in Seq(Chunks)
      /\ flusher'.pc = "posted" /\ flusher'.handler = w /\ flusher.pc = "post"
  BY PostEffect, LineTyped DEF EShape
<1>2. /\ request[w] = <<>> /\ request' = [request EXCEPT ![w] = b]
      /\ request \in [Handlers -> Seq(Chunks)] /\ abandoned' = g /\ g \in BOOLEAN
      /\ UNCHANGED stored
  BY DEF Post, FlusherOnly, EShape, ApiTyped
<1>3. Stored' = Stored
  BY <1>2 DEF Stored
<1>4. request'[w] = b /\ \A v \in Handlers \ {w} : request'[v] = request[v]
  BY <1>2
<1> HIDE DEF b, g
<1>5. /\ Elems(Line) = Elems(b) \cup Elems(Line')
      /\ Ordered(b, g) /\ Ordered(Line', g) /\ Precedes(Elems(b), Elems(Line'), g)
  <2>1. Ordered(Line, g)
    BY DEF OrderInv, g
  <2> QED
    BY <1>1, <1>2, <2>1, ElemsConcat, OrderedConcat
<1>6. Precedes(Stored, Elems(b), g) /\ Precedes(Stored, Elems(Line'), g)
  BY <1>5 DEF OrderInv, Precedes, g
<1>7. \A v \in Handlers : /\ Precedes(Elems(request[v]), Elems(b), g)
                          /\ Precedes(Elems(request[v]), Elems(Line'), g)
  BY <1>5 DEF OrderInv, RequestsOrdered, Precedes, g
<1>8. OneAtWork'
  <2>1. \A v \in Handlers : ~g => request[v] = <<>>
    BY <1>1 DEF OrderInv, OneAtWork, g
  <2> QED
    BY <1>1, <1>2, <1>4, <2>1 DEF OneAtWork, g
<1>9. RequestsOrdered'
  <2> SUFFICES ASSUME NEW v \in Handlers
               PROVE  /\ Ordered(request'[v], g)
                      /\ Precedes(Stored, Elems(request'[v]), g)
                      /\ Precedes(Elems(request'[v]), Elems(Line'), g)
                      /\ \A x \in Handlers \ {v} : Precedes(Elems(request'[v]), Elems(request'[x]), TRUE)
    BY <1>2, <1>3 DEF RequestsOrdered, g
  <2>1. CASE v = w
    <3>1. \A x \in Handlers \ {w} : Precedes(Elems(b), Elems(request[x]), TRUE)
      <4>1. \A x \in Handlers : Precedes(Elems(request[x]), Elems(b), g)
        BY <1>7
      <4> QED
        BY <4>1 DEF Precedes, Apart
    <3> QED
      BY <1>4, <1>5, <1>6, <2>1, <3>1
  <2>2. CASE v # w
    <3>1. /\ Ordered(request[v], g) /\ Precedes(Stored, Elems(request[v]), g)
          /\ \A x \in Handlers \ {v} : Precedes(Elems(request[v]), Elems(request[x]), TRUE)
      BY DEF OrderInv, RequestsOrdered, g
    <3>2. Precedes(Elems(request[v]), Elems(b), TRUE)
      <4>1. Precedes(Elems(request[v]), Elems(b), g)
        BY <1>7
      <4> QED
        BY <4>1 DEF Precedes, Apart
    <3>3. \A x \in Handlers \ {v} : Precedes(Elems(request[v]), Elems(request'[x]), TRUE)
      BY <1>4, <3>1, <3>2
    <3>4. request'[v] = request[v] /\ Precedes(Elems(request[v]), Elems(Line'), g)
      BY <1>4, <1>7, <2>2
    <3> QED
      BY <3>1, <3>3, <3>4
  <2> QED
    BY <2>1, <2>2
<1>10. StoredOrdered'
  BY <1>2 DEF OrderInv, StoredOrdered, g
<1> QED
  BY <1>2, <1>3, <1>5, <1>6, <1>8, <1>9, <1>10 DEF OrderInv

\* The chunk that is put comes after all that were.
LEMMA PutKeepsOrder ==
  ASSUME EShape, OrderInv, NEW p \in Producers, Put(p)
  PROVE  OrderInv'
<1> DEFINE g == abandoned
<1>1. /\ UNCHANGED <<flusher, request, stored>> /\ abandoned' = g /\ g \in BOOLEAN
      /\ Line \in Seq(Chunks)
  BY LineTyped DEF Put, EShape, ApiTyped
<1>2. PICK c \in Chunks : /\ putting[p] = <<c>> /\ c.from = p /\ c.n = sent[p]
                          /\ Line' = Line \o <<c>> /\ <<c>> \in Seq(Chunks)
  BY PutEffect
<1>3. Elems(Line') = Elems(Line) \cup {c}
  <2>1. Elems(Line') = Elems(Line) \cup Elems(<<c>>)
    BY <1>1, <1>2, ElemsConcat
  <2> QED
    BY <2>1, ElemsOne
<1>4. ASSUME NEW a \in Chunks, Known(a) PROVE Apart(a, c, g)
  <2>1. a.from = p => a.n < c.n
    <3>1. <<c>> # <<>>
      OBVIOUS
    <3> QED
      BY <1>2, <1>4, <3>1 DEF Known
  <2>2. c.n \in Nat /\ a.n \in Nat
    BY DEF Chunks
  <2>3. a.from = p => a # c
    BY <2>1, <2>2
  <2> QED
    BY <1>2, <2>1, <2>3 DEF Apart
<1>5. /\ Precedes(Elems(Line), {c}, g) /\ Precedes(Stored, {c}, g)
      /\ \A w \in Handlers : Precedes(Elems(request[w]), {c}, g)
  <2>1. Elems(Line) \subseteq Chunks /\ Stored \subseteq Chunks
    BY <1>1 DEF EShape, ApiTyped, Elems, Stored
  <2>2. \A w \in Handlers : Elems(request[w]) \subseteq Chunks
    BY DEF EShape, ApiTyped, Elems
  <2> QED
    BY <1>4, <2>1, <2>2 DEF EShape, AllKnown, Precedes
<1>6. Ordered(Line', g)
  <2>1. Ordered(Line, g)
    BY DEF OrderInv
  <2>2. Ordered(<<c>>, g) /\ Elems(<<c>>) = {c}
    BY <1>1, OrderedOne, ElemsOne
  <2>3. Precedes(Elems(Line), Elems(<<c>>), g)
    BY <1>5, <2>2
  <2> DEFINE t == <<c>>
  <2>4. /\ t \in Seq(Chunks) /\ Ordered(t, g) /\ Precedes(Elems(Line), Elems(t), g)
        /\ Line' = Line \o t /\ Ordered(Line, g) /\ Line \in Seq(Chunks) /\ g \in BOOLEAN
    BY <1>1, <1>2, <2>1, <2>2, <2>3
  <2> HIDE DEF g, t
  <2>5. Ordered(Line \o t, g)
    BY <2>4, OrderedConcat
  <2> QED
    BY <2>4, <2>5
<1>7. Stored' = Stored
  BY <1>1 DEF Stored
<1>8. Precedes(Stored, Elems(Line'), g)
  BY <1>3, <1>5 DEF OrderInv, Precedes
<1>9. \A w \in Handlers : Precedes(Elems(request[w]), Elems(Line'), g)
  BY <1>3, <1>5 DEF OrderInv, RequestsOrdered, Precedes
<1>10. RequestsOrdered'
  BY <1>1, <1>7, <1>9 DEF OrderInv, RequestsOrdered
<1>11. OneAtWork' /\ StoredOrdered'
  BY <1>1 DEF OrderInv, OneAtWork, StoredOrdered
<1> QED
  BY <1>1, <1>6, <1>7, <1>8, <1>10, <1>11 DEF OrderInv

\* A request that loses its head, to the log or for good, keeps the order of
\* what is left.
LEMMA ServedKeepsRequests ==
  ASSUME EShape, OrderInv, NEW w \in Handlers, request[w] # <<>>, Served(w),
         UNCHANGED <<flusher, queue, abandoned>>,
         Stored' = Stored \/ Stored' = Stored \cup {Head(request[w])}
  PROVE  /\ OneAtWork' /\ RequestsOrdered' /\ Line' = Line
         /\ Precedes(Stored, {Head(request[w])}, abandoned)
         /\ Precedes({Head(request[w])}, Elems(Line), abandoned)
<1> DEFINE h == Head(request[w])  t == request'[w]  g == abandoned
<1>1. /\ request' \in [Handlers -> Seq(Chunks)] /\ h \in Chunks /\ t \in Seq(Chunks)
      /\ <<h>> \in Seq(Chunks) /\ request[w] = <<h>> \o t
      /\ Elems(request[w]) = {h} \cup Elems(t)
      /\ \A v \in Handlers \ {w} : request'[v] = request[v]
      /\ g \in BOOLEAN
  <2>1. /\ request' \in [Handlers -> Seq(Chunks)] /\ h \in Chunks /\ t \in Seq(Chunks)
        /\ request[w] = <<h>> \o t
        /\ Elems(request[w]) = {h} \cup Elems(t)
        /\ \A v \in Handlers \ {w} : request'[v] = request[v]
    BY ServedEffect
  <2>2. <<h>> \in Seq(Chunks) /\ g \in BOOLEAN
    BY <2>1 DEF EShape, ApiTyped
  <2> QED
    BY <2>1, <2>2
<1>2. Line' = Line
  BY DEF Line
<1>3. /\ Ordered(request[w], g) /\ Precedes(Stored, Elems(request[w]), g)
      /\ Precedes(Elems(request[w]), Elems(Line), g)
      /\ \A v \in Handlers \ {w} : /\ Precedes(Elems(request[w]), Elems(request[v]), TRUE)
                                   /\ Precedes(Elems(request[v]), Elems(request[w]), TRUE)
  BY DEF OrderInv, RequestsOrdered
<1>4. \A v \in Handlers \ {w} : /\ Ordered(request[v], g) /\ Precedes(Stored, Elems(request[v]), g)
                                /\ Precedes(Elems(request[v]), Elems(Line), g)
  BY DEF OrderInv, RequestsOrdered
<1>5. \A v \in Handlers \ {w} : ~g => request[v] = <<>>
  BY DEF OrderInv, OneAtWork
<1> HIDE DEF g, h, t
<1>6. Ordered(t, g) /\ Precedes({h}, Elems(t), g)
  <2> DEFINE o == <<h>>
  <2>1. o \in Seq(Chunks) /\ request[w] = o \o t /\ Elems(o) = {h}
    BY <1>1, ElemsOne
  <2> HIDE DEF o
  <2>2. Ordered(o \o t, g)
    BY <1>3, <2>1
  <2>3. o \in Seq(Chunks) /\ t \in Seq(Chunks) /\ g \in BOOLEAN
    BY <1>1, <2>1
  <2>4. Ordered(t, g) /\ Precedes(Elems(o), Elems(t), g)
    BY <2>2, <2>3, OrderedConcat
  <2> QED
    BY <2>1, <2>4
<1>7. \A v \in Handlers \ {w} : Precedes({h}, Elems(request[v]), g)
  <2> SUFFICES ASSUME NEW v \in Handlers \ {w} PROVE Precedes({h}, Elems(request[v]), g)
    OBVIOUS
  <2>1. CASE g
    <3>1. Precedes({h}, Elems(request[v]), TRUE)
      BY <1>1, <1>3 DEF Precedes
    <3> QED
      BY <2>1, <3>1 DEF Precedes, Apart
  <2>2. CASE ~g
    BY <1>5, <2>2, ElemsOne DEF Precedes
  <2> QED
    BY <2>1, <2>2
<1>8. ASSUME NEW T, Precedes(Stored, T, g), Precedes({h}, T, g) PROVE Precedes(Stored', T, g)
  BY <1>8 DEF Precedes, h
<1>9. RequestsOrdered'
  <2> SUFFICES ASSUME NEW v \in Handlers
               PROVE  /\ Ordered(request'[v], g)
                      /\ Precedes(Stored', Elems(request'[v]), g)
                      /\ Precedes(Elems(request'[v]), Elems(Line), g)
                      /\ \A x \in Handlers \ {v} : Precedes(Elems(request'[v]), Elems(request'[x]), TRUE)
    BY <1>2 DEF RequestsOrdered, g
  <2>1. CASE v = w
    <3>1. /\ Precedes(Stored, Elems(t), g) /\ Precedes(Elems(t), Elems(Line), g)
          /\ \A x \in Handlers \ {w} : Precedes(Elems(t), Elems(request[x]), TRUE)
      BY <1>1, <1>3 DEF Precedes
    <3>2. Precedes(Stored', Elems(t), g)
      BY <1>6, <1>8, <3>1
    <3>3. \A x \in Handlers \ {w} : Precedes(Elems(t), Elems(request'[x]), TRUE)
      BY <1>1, <3>1
    <3> QED
      BY <1>6, <2>1, <3>1, <3>2, <3>3 DEF t
  <2>2. CASE v # w
    <3>1. request'[v] = request[v]
      BY <1>1, <2>2
    <3>2. Precedes(Stored', Elems(request[v]), g)
      BY <1>4, <1>7, <1>8, <2>2
    <3>3. ASSUME NEW x \in Handlers \ {v}
          PROVE  Precedes(Elems(request[v]), Elems(request'[x]), TRUE)
      <4>1. CASE x = w
        <5>1. Precedes(Elems(request[v]), Elems(request[w]), TRUE)
          BY <1>3, <2>2
        <5>2. Elems(request'[x]) \subseteq Elems(request[w])
          BY <1>1, <4>1 DEF t
        <5> QED
          BY <5>1, <5>2 DEF Precedes
      <4>2. CASE x # w
        <5>1. request'[x] = request[x]
          BY <1>1, <4>2
        <5> QED
          BY <5>1 DEF OrderInv, RequestsOrdered
      <4> QED
        BY <4>1, <4>2
    <3> QED
      BY <1>4, <2>2, <3>1, <3>2, <3>3
  <2> QED
    BY <2>1, <2>2
<1>10. OneAtWork'
  <2>1. \A v \in Handlers : request'[v] # <<>> => request[v] # <<>>
    BY <1>1
  <2> QED
    BY <2>1 DEF OrderInv, OneAtWork
<1>11. Precedes(Stored, {h}, g) /\ Precedes({h}, Elems(Line), g)
  BY <1>1, <1>3 DEF Precedes
<1> QED
  BY <1>2, <1>9, <1>10, <1>11 DEF h, g

\* The row that is committed is the last, and its chunk was the next.
LEMMA CommitKeepsOrder ==
  ASSUME IInv, EShape, OrderInv, NEW w \in Handlers, PublishCommits(w)
  PROVE  OrderInv'
<1> DEFINE h == Head(request[w])  g == abandoned
<1>1. /\ UNCHANGED <<flusher, queue, abandoned>> /\ Served(w)
  BY DEF PublishCommits, HandlerOnly, worker
<1>2. /\ request[w] # <<>>
      /\ \A n \in DOMAIN stored : n < mySeq[w] /\ n \in Nat
      /\ DOMAIN stored' = DOMAIN stored \cup {mySeq[w]} /\ mySeq[w] \in Nat
      /\ \A n \in DOMAIN stored : stored'[n] = stored[n]
      /\ stored'[mySeq[w]] = h
      /\ Stored' = Stored \cup {h}
  BY CommitEffect
<1>3. /\ OneAtWork' /\ RequestsOrdered' /\ Line' = Line
      /\ Precedes(Stored, {h}, g) /\ Precedes({h}, Elems(Line), g)
  BY <1>1, <1>2, ServedKeepsRequests
<1> HIDE DEF h, g
<1>4. StoredOrdered'
  <2> SUFFICES ASSUME NEW m \in DOMAIN stored', NEW n \in DOMAIN stored', m < n
               PROVE  Apart(stored'[m], stored'[n], g)
    BY <1>1 DEF StoredOrdered, g
  <2>1. m \in DOMAIN stored
    <3>1. m # mySeq[w]
      <4>1. CASE n = mySeq[w]
        BY <1>2, <4>1
      <4>2. CASE n # mySeq[w]
        <5>1. n \in DOMAIN stored
          BY <1>2, <4>2
        <5>2. n < mySeq[w] /\ n \in Nat
          BY <1>2, <5>1
        <5> QED
          BY <1>2, <5>2
      <4> QED
        BY <4>1, <4>2
    <3> QED
      BY <1>2, <3>1
  <2>2. CASE n \in DOMAIN stored
    BY <1>2, <2>1, <2>2 DEF OrderInv, StoredOrdered, g
  <2>3. CASE n = mySeq[w]
    <3>1. stored[m] \in Stored
      BY <2>1 DEF Stored
    <3> QED
      BY <1>2, <1>3, <2>1, <2>3, <3>1 DEF Precedes
  <2> QED
    BY <1>2, <2>2, <2>3
<1>5. Precedes(Stored', Elems(Line), g)
  BY <1>2, <1>3 DEF OrderInv, Precedes, g
<1> QED
  BY <1>1, <1>3, <1>4, <1>5 DEF OrderInv, g

\* A chunk that is lost leaves the others in order.
LEMMA FailKeepsOrder ==
  ASSUME IInv, EShape, OrderInv, NEW w \in Handlers, PublishFails(w)
  PROVE  OrderInv'
<1>1. /\ request[w] # <<>> /\ UNCHANGED <<worker, stored, abandoned>> /\ Served(w)
  BY FailKeepsShape
<1>2. UNCHANGED <<flusher, queue>> /\ Stored' = Stored
  BY <1>1 DEF worker, Stored
<1>3. OneAtWork' /\ RequestsOrdered' /\ Line' = Line
  BY <1>1, <1>2, ServedKeepsRequests
<1>4. StoredOrdered'
  BY <1>1 DEF OrderInv, StoredOrdered
<1> QED
  BY <1>1, <1>2, <1>3, <1>4 DEF OrderInv

\* Steps that move no chunk keep the order.
LEMMA StillKeepsOrder ==
  ASSUME OrderInv, UNCHANGED <<request, stored, abandoned, flusher, queue>>
  PROVE  OrderInv'
<1>1. Line' = Line /\ Stored' = Stored
  BY DEF Line, Stored
<1> QED
  BY <1>1 DEF OrderInv, OneAtWork, StoredOrdered, RequestsOrdered

-----------------------------------------------------------------------------
(* What was queued before close()                                          *)

\* What the handler that the flusher waits for has still to publish.
Awaited == IF flusher.pc = "posted" THEN Elems(request[flusher.handler]) ELSE {}

\* Stored, lost with a word about it, or on the way.
Accounted == Stored \cup failed \cup Elems(Line) \cup Awaited

AllAccounted == ~hurried => timely \subseteq Accounted

AwaitedInBatch == Awaited \subseteq Elems(flusher.batch)

\* Once the last pass has its last batch, only late chunks are in the queue.
LastPass ==
  flusher.final /\ flusher.over = <<>> /\ flusher.pc \in {"post", "posted", "done"} =>
    Elems(queue) \cap timely = {}

TimelyInv ==
  /\ AllAccounted /\ AwaitedInBatch /\ LastPass
  /\ closer \in {"open", "joining"} => ~hurried

\* A pass of the flusher, up to the batch it collects.
LEMMA CollectKeepsTimely ==
  ASSUME EShape, TimelyInv, Wake \/ Take \/ Drained
  PROVE  TimelyInv'
<1>1. UNCHANGED <<closer, timely, hurried, stored, failed>> /\ flusher.pc \in {"loop", "taking"}
  BY DEF Wake, Take, Drained, FlusherOnly
<1>2. Line' = Line /\ flusher'.pc # "posted"
  BY WakeEffect, TakeEffect, DrainedEffect
<1>3. LastPass'
  <2>1. CASE Wake \/ Take
    <3>1. flusher'.pc = "taking" \/ flusher'.over # <<>>
      BY <2>1, WakeEffect, TakeEffect
    <3> QED
      BY <3>1 DEF LastPass
  <2>2. CASE Drained
    <3>1. queue' = <<>>
      BY <2>2, DrainedEffect
    <3>2. Elems(queue') = {}
      BY <3>1 DEF Elems
    <3> QED
      BY <3>2 DEF LastPass
  <2> QED
    BY <2>1, <2>2
<1>4. Stored' = Stored /\ Awaited' = {} /\ Awaited = {}
  BY <1>1, <1>2 DEF Stored, Awaited
<1>5. Accounted' = Accounted
  BY <1>1, <1>2, <1>4 DEF Accounted
<1> QED
  BY <1>1, <1>3, <1>4, <1>5 DEF TimelyInv, AllAccounted, AwaitedInBatch

\* The batch is with a handler instead of in the line.
LEMMA PostKeepsTimely ==
  ASSUME EShape, TimelyInv, NEW w \in Handlers, Post(w)
  PROVE  TimelyInv'
<1>1. /\ UNCHANGED <<closer, timely, hurried, stored, failed, queue>>
      /\ request'[w] = flusher.batch
  BY DEF Post, FlusherOnly, EShape, ApiTyped
<1>2. /\ flusher'.pc = "posted" /\ flusher'.handler = w /\ flusher'.over = flusher.over
      /\ flusher'.batch = flusher.batch /\ flusher'.final = flusher.final
      /\ flusher.pc = "post" /\ flusher.batch \in Seq(Chunks)
      /\ Line' \in Seq(Chunks) /\ Line = flusher.batch \o Line'
  BY PostEffect
<1>3. Elems(Line) = Elems(flusher.batch) \cup Elems(Line')
  BY <1>2, ElemsConcat
<1>4. Stored' = Stored /\ Awaited' = Elems(flusher.batch) /\ Awaited = {}
  BY <1>1, <1>2 DEF Stored, Awaited
<1>5. Accounted' = Accounted
  BY <1>1, <1>3, <1>4 DEF Accounted
<1>6. LastPass'
  BY <1>1, <1>2 DEF TimelyInv, LastPass
<1> QED
  BY <1>1, <1>2, <1>4, <1>5, <1>6 DEF TimelyInv, AllAccounted, AwaitedInBatch

\* A batch ends: published, or given up and said to be lost; or with nobody
\* told, which happens only after close() was in a hurry.
LEMMA EndKeepsTimely ==
  ASSUME EShape, TimelyInv, PostNowhere \/ PostFails \/ Answered
  PROVE  TimelyInv'
<1>1. /\ FlusherOnly /\ UNCHANGED <<closer, timely, hurried, stored, queue, request>>
      /\ AfterBatch /\ flusher.pc \in {"post", "posted"}
      /\ failed \subseteq failed'
  BY DEF PostNowhere, PostFails, Answered, FlusherOnly
<1>2. /\ Line' \in Seq(Chunks)
      /\ flusher.pc = "posted" => Line = Line'
      /\ flusher.pc = "post" => Line = flusher.batch \o Line'
      /\ flusher'.pc \in {"taking", "done", "loop"}
      /\ flusher'.pc = "done" => flusher.over = <<>> /\ flusher.final
  BY <1>1, EndOfBatchEffect
<1>3. Stored' = Stored /\ Awaited' = {}
  BY <1>1, <1>2 DEF Stored, Awaited
<1>4. flusher.batch \in Seq(Chunks)
  BY LineTyped DEF EShape
<1>5. Elems(Line) \subseteq Elems(Line') \cup Elems(flusher.batch)
  BY <1>1, <1>2, <1>4, ElemsConcat
<1>6. AllAccounted'
  <2>1. CASE PostNowhere
    <3>1. hurried
      BY <2>1 DEF PostNowhere, EShape, FlusherShape
    <3> QED
      BY <1>1, <3>1 DEF AllAccounted
  <2>2. CASE PostFails
    <3>1. InBatch = Elems(flusher.batch)
      BY <1>4 DEF InBatch, Elems
    <3>2. Elems(flusher.batch) \subseteq failed'
      BY <2>2, <3>1 DEF PostFails
    <3>3. Accounted \subseteq Accounted'
      BY <1>1, <1>3, <1>5, <3>2 DEF Accounted, TimelyInv, AwaitedInBatch
    <3> QED
      BY <1>1, <3>3 DEF TimelyInv, AllAccounted
  <2>3. CASE Answered
    <3>1. flusher.pc = "posted" /\ request[flusher.handler] = <<>>
      BY <2>3 DEF Answered
    <3>2. Awaited = {}
      BY <3>1 DEF Awaited, Elems
    <3>3. Accounted \subseteq Accounted'
      BY <1>1, <1>2, <1>3, <3>1, <3>2 DEF Accounted
    <3> QED
      BY <1>1, <3>3 DEF TimelyInv, AllAccounted
  <2> QED
    BY <2>1, <2>2, <2>3
<1>7. LastPass'
  BY <1>1, <1>2 DEF TimelyInv, LastPass
<1> QED
  BY <1>1, <1>3, <1>6, <1>7 DEF TimelyInv, AwaitedInBatch

\* A chunk that is put is accounted for, and late if close() was called.
LEMMA PutKeepsTimely ==
  ASSUME EShape, TimelyInv, NEW p \in Producers, Put(p)
  PROVE  TimelyInv'
<1>1. /\ UNCHANGED <<closer, flusher, hurried, request, stored, failed>>
      /\ Line \in Seq(Chunks) /\ queue \in Seq(Chunks)
  BY LineTyped DEF Put, EShape
<1>2. PICK c \in Chunks : /\ putting[p] = <<c>> /\ c.from = p /\ c.n = sent[p]
                          /\ Line' = Line \o <<c>> /\ <<c>> \in Seq(Chunks)
                          /\ queue' = queue \o <<c>>
                          /\ timely' = IF closer = "open" THEN timely \cup {c} ELSE timely
  BY PutEffect
<1>3. Elems(Line') = Elems(Line) \cup {c} /\ Elems(queue') = Elems(queue) \cup {c}
  <2>1. Elems(Line') = Elems(Line) \cup Elems(<<c>>)
    BY <1>1, <1>2, ElemsConcat
  <2>2. Elems(queue') = Elems(queue) \cup Elems(<<c>>)
    BY <1>1, <1>2, ElemsConcat
  <2> QED
    BY <2>1, <2>2, ElemsOne
<1>4. Stored' = Stored /\ Awaited' = Awaited
  BY <1>1 DEF Stored, Awaited
<1>5. AllAccounted'
  BY <1>1, <1>2, <1>3, <1>4 DEF TimelyInv, AllAccounted, Accounted
<1>6. c \notin timely
  <2>1. c.n \in Nat /\ putting[c.from] # <<>>
    <3>1. <<c>> # <<>>
      OBVIOUS
    <3> QED
      BY <1>2, <3>1 DEF Chunks
  <2>2. ~Known(c)
    <3>1. ~(c.n < sent[c.from])
      BY <1>2, <2>1
    <3> QED
      BY <2>1, <3>1 DEF Known
  <2> QED
    BY <2>2 DEF EShape, AllKnown
<1>7. LastPass'
  <2>1. flusher.final => timely' = timely
    BY <1>2 DEF EShape, FlusherShape
  <2> QED
    BY <1>1, <1>3, <1>6, <2>1 DEF TimelyInv, LastPass
<1> QED
  BY <1>1, <1>4, <1>5, <1>7 DEF TimelyInv, AwaitedInBatch

\* The head of a request goes to the log, or its loss does.
LEMMA ServedKeepsTimely ==
  ASSUME EShape, TimelyInv, NEW w \in Handlers, request[w] # <<>>, Served(w), UNCHANGED worker,
         Stored \subseteq Stored', failed \subseteq failed',
         Head(request[w]) \in Stored' \cup failed'
  PROVE  TimelyInv'
<1>1. UNCHANGED <<flusher, queue, closer, timely, hurried>> /\ Line' = Line
  BY DEF worker, Line
<1>2. /\ Elems(request[w]) = {Head(request[w])} \cup Elems(request'[w])
      /\ \A v \in Handlers \ {w} : request'[v] = request[v]
  BY ServedEffect
<1>3. Awaited' \subseteq Awaited /\ Awaited \subseteq Awaited' \cup {Head(request[w])}
  BY <1>1, <1>2 DEF Awaited, EShape, FlusherShape
<1>4. Accounted \subseteq Accounted'
  BY <1>1, <1>3 DEF Accounted
<1> QED
  BY <1>1, <1>3, <1>4 DEF TimelyInv, AllAccounted, AwaitedInBatch, LastPass

\* close() moves on: it is in a hurry only if the flusher is still at work.
LEMMA CloserKeepsTimely ==
  ASSUME TimelyInv, Stop \/ Joined \/ Closed
  PROVE  TimelyInv'
<1>1. UNCHANGED <<queue, flusher, timely, request, stored, failed>>
  BY DEF Stop, Joined, Closed, CloserOnly
<1>2. Accounted' = Accounted /\ Awaited' = Awaited
  BY <1>1 DEF Accounted, Awaited, Stored, Line
<1>3. hurried => hurried'
  BY DEF TimelyInv, Stop, Joined, Closed
<1>4. closer' \in {"open", "joining"} => ~hurried'
  BY DEF TimelyInv, Stop, Joined, Closed
<1> QED
  BY <1>1, <1>2, <1>3, <1>4 DEF TimelyInv, AllAccounted, AwaitedInBatch, LastPass

\* Steps that move no chunk.
LEMMA StillKeepsTimely ==
  ASSUME TimelyInv, UNCHANGED <<queue, flusher, closer, timely, hurried, request, stored, failed>>
  PROVE  TimelyInv'
<1>1. Accounted' = Accounted /\ Awaited' = Awaited
  BY DEF Accounted, Awaited, Stored, Line
<1> QED
  BY <1>1 DEF TimelyInv, AllAccounted, AwaitedInBatch, LastPass
-----------------------------------------------------------------------------
(* The invariant, and what follows from it                                 *)

EInv == EShape /\ OrderInv /\ TimelyInv

\* The worker starts with nothing queued, and the endpoint with no request.
LEMMA InitEstablishesEmitter == EmitterInit => EInv
<1> SUFFICES ASSUME EmitterInit PROVE EInv
  OBVIOUS
<1> USE EmitterAssumption
<1>1. /\ sent = [p \in Producers |-> 0] /\ putting = [p \in Producers |-> <<>>]
      /\ queue = <<>> /\ closer = "open"
      /\ flusher = [pc |-> "loop", batch |-> <<>>, over |-> <<>>, final |-> FALSE, handler |-> None]
      /\ request = [w \in Handlers |-> <<>>] /\ stored = [n \in {} |-> <<>>]
      /\ timely = {} /\ failed = {} /\ hurried = FALSE /\ abandoned = FALSE /\ trouble = 0
      /\ \A w \in Handlers : tx[w] = "idle"
      /\ <<>> \in Seq(Chunks)
  BY DEF EmitterInit, Init
<1>2. DOMAIN stored = {} /\ Stored = {}
  BY <1>1 DEF Stored
<1>3. Line = <<>> /\ Elems(<<>>) = {}
  BY <1>1 DEF Line, Elems
<1>4. WorkerTyped
  BY <1>1 DEF WorkerTyped, FlusherRecords, PCs
<1>5. ApiTyped
  <2>1. request \in [Handlers -> Seq(Chunks)]
    BY <1>1
  <2>2. trouble \in 0 .. MaxTrouble
    BY <1>1
  <2> QED
    BY <1>1, <1>2, <2>1, <2>2 DEF ApiTyped
<1>6. PutterShape /\ FlusherShape /\ HandlersServe
  BY <1>1 DEF PutterShape, FlusherShape, HandlersServe
<1>7. AllKnown
  BY <1>1, <1>2, <1>3 DEF AllKnown
<1>8. Ordered(<<>>, abandoned)
  BY DEF Ordered
<1>9. OrderInv
  BY <1>1, <1>2, <1>3, <1>8 DEF OrderInv, OneAtWork, StoredOrdered, RequestsOrdered, Precedes
<1>10. TimelyInv
  BY <1>1, <1>2, <1>3 DEF TimelyInv, AllAccounted, AwaitedInBatch, Awaited, LastPass
<1> QED
  BY <1>4, <1>5, <1>6, <1>7, <1>9, <1>10 DEF EInv, EShape

\* A pass of the flusher, up to the batch it collects.
LEMMA CollectKeepsEInv ==
  ASSUME EInv, Wake \/ Take \/ Drained
  PROVE  EInv'
<1>1. /\ FlusherOnly /\ UNCHANGED <<request, failed, abandoned, trouble, stored>>
      /\ EShape /\ OrderInv /\ TimelyInv /\ flusher.pc \in {"loop", "taking"}
  BY DEF Wake, Take, Drained, FlusherOnly, EInv
<1>2. /\ failed' \subseteq Chunks /\ abandoned' \in BOOLEAN /\ queue \in Seq(Chunks)
      /\ Line \in Seq(Chunks) /\ trouble' \in 0 .. MaxTrouble
  BY <1>1, LineTyped DEF EShape, ApiTyped
<1>3. /\ flusher' \in FlusherRecords /\ FlusherShape' /\ Line' = Line /\ queue' \in Seq(Chunks)
  BY <1>1, <1>2, WakeEffect, TakeEffect, DrainedEffect
<1>4. EShape'
  BY <1>1, <1>2, <1>3, FlusherKeepsShape
<1>5. OneAtWork'
  BY <1>1 DEF OrderInv, OneAtWork
<1>6. OrderInv'
  BY <1>1, <1>2, <1>3, <1>5, ShorterLineKeepsOrder
<1>7. TimelyInv'
  BY <1>1, CollectKeepsTimely
<1> QED
  BY <1>4, <1>6, <1>7 DEF EInv

\* The end of a batch.
LEMMA EndKeepsEInv ==
  ASSUME EInv, PostNowhere \/ PostFails \/ Answered
  PROVE  EInv'
<1>1. /\ FlusherOnly /\ UNCHANGED <<queue, request, stored>>
      /\ AfterBatch /\ flusher.pc \in {"post", "posted"}
      /\ EShape /\ OrderInv /\ TimelyInv
  BY DEF PostNowhere, PostFails, Answered, FlusherOnly, EInv
<1>2. /\ flusher.batch \in Seq(Chunks) /\ Line \in Seq(Chunks) /\ queue \in Seq(Chunks)
      /\ failed \subseteq Chunks /\ abandoned \in BOOLEAN /\ trouble \in 0 .. MaxTrouble
  BY <1>1, LineTyped DEF EShape, ApiTyped
<1>3. /\ failed' \subseteq Chunks /\ abandoned' \in BOOLEAN /\ trouble' \in 0 .. MaxTrouble
      /\ abandoned => abandoned'
  <2>1. CASE PostFails
    <3>1. InBatch \subseteq Chunks
      BY <1>2 DEF InBatch
    <3>2. trouble' \in 0 .. MaxTrouble
      BY <1>2, <2>1, EmitterAssumption DEF PostFails, TroubleHappens
    <3>3. failed' = failed \cup InBatch
      BY <2>1 DEF PostFails
    <3>4. abandoned' \in BOOLEAN /\ (abandoned => abandoned')
      BY <1>2, <2>1 DEF PostFails
    <3> QED
      BY <1>2, <3>1, <3>2, <3>3, <3>4
  <2>2. CASE PostNowhere \/ Answered
    BY <1>2, <2>2 DEF PostNowhere, Answered
  <2> QED
    BY <2>1, <2>2
<1>4. /\ flusher' \in FlusherRecords /\ FlusherShape' /\ Line' \in Seq(Chunks)
      /\ Line = Line' \/ Line = flusher.batch \o Line'
  BY <1>1, EndOfBatchEffect
<1>5. Elems(Line') \subseteq Elems(Line)
  <2>1. Elems(flusher.batch \o Line') = Elems(flusher.batch) \cup Elems(Line')
    BY <1>2, <1>4, ElemsConcat
  <2>2. CASE Line = Line'
    BY <2>2
  <2>3. CASE Line = flusher.batch \o Line'
    BY <2>1, <2>3
  <2> QED
    BY <1>4, <2>2, <2>3
<1>6. EShape'
  BY <1>1, <1>2, <1>3, <1>4, <1>5, FlusherKeepsShape
<1>7. OneAtWork'
  <2>1. ~abandoned' => \A w \in Handlers : request[w] = <<>>
    <3>1. CASE PostFails
      BY <1>1, <1>3, <3>1 DEF PostFails, OrderInv, OneAtWork
    <3>2. CASE PostNowhere
      BY <3>2 DEF EInv, PostNowhere, OrderInv, OneAtWork
    <3>3. CASE Answered
      BY <3>3 DEF EInv, Answered, OrderInv, OneAtWork
    <3> QED
      BY <3>1, <3>2, <3>3
  <2> QED
    BY <1>1, <2>1 DEF OneAtWork
<1>8. OrderInv'
  BY <1>1, <1>2, <1>3, <1>4, <1>7, ShorterLineKeepsOrder
<1>9. TimelyInv'
  BY <1>1, EndKeepsTimely
<1> QED
  BY <1>6, <1>8, <1>9 DEF EInv

\* Every step of the emitter and of the endpoint.
LEMMA EmitterStepPreserves == IInv /\ EInv /\ [EmitterNext]_<<vars, emitter>> => EInv'
<1> SUFFICES ASSUME IInv, EInv, [EmitterNext]_<<vars, emitter>> PROVE EInv'
  OBVIOUS
<1>0. EShape /\ OrderInv /\ TimelyInv
  BY DEF EInv
<1>1. ASSUME NEW p \in Producers, Emit(p) PROVE EInv'
  <2>1. UNCHANGED <<queue, flusher, closer, timely, hurried, request, stored, failed, abandoned>>
    BY <1>1 DEF Emit
  <2> QED
    BY <1>0, <1>1, <2>1, EmitKeepsShape, StillKeepsOrder, StillKeepsTimely DEF EInv
<1>2. ASSUME NEW p \in Producers, Put(p) PROVE EInv'
  BY <1>0, <1>2, PutKeepsShape, PutKeepsOrder, PutKeepsTimely DEF EInv
<1>3. CASE Wake \/ Take \/ Drained
  BY <1>3, CollectKeepsEInv
<1>4. CASE PostNowhere \/ PostFails \/ Answered
  BY <1>4, EndKeepsEInv
<1>5. ASSUME NEW w \in Handlers, Post(w) PROVE EInv'
  BY <1>0, <1>5, PostKeepsShape, PostKeepsOrder, PostKeepsTimely DEF EInv
<1>6. ASSUME NEW w \in Handlers, PublishCommits(w) PROVE EInv'
  <2>1. /\ UNCHANGED <<worker, failed>> /\ Served(w) /\ request[w] # <<>>
        /\ Stored' = Stored \cup {Head(request[w])}
    BY <1>0, <1>6, CommitEffect DEF PublishCommits, HandlerOnly
  <2>2. TimelyInv'
    BY <1>0, <2>1, ServedKeepsTimely
  <2> QED
    BY <1>0, <1>6, <2>2, CommitKeepsShape, CommitKeepsOrder DEF EInv
<1>7. ASSUME NEW w \in Handlers, PublishFails(w) PROVE EInv'
  <2>1. /\ EShape' /\ request[w] # <<>> /\ UNCHANGED <<worker, stored>>
        /\ failed' = failed \cup {Head(request[w])} /\ Served(w)
    BY <1>0, <1>7, FailKeepsShape
  <2>2. Stored' = Stored
    BY <2>1 DEF Stored
  <2>3. TimelyInv'
    BY <1>0, <2>1, <2>2, ServedKeepsTimely
  <2> QED
    BY <1>0, <1>7, <2>1, <2>3, FailKeepsOrder DEF EInv
<1>8. CASE Stop \/ Joined \/ Closed
  <2>1. UNCHANGED <<request, stored, abandoned, flusher, queue>>
    BY <1>8 DEF Stop, Joined, Closed, CloserOnly
  <2> QED
    BY <1>0, <1>8, <2>1, CloserKeepsShape, StillKeepsOrder, CloserKeepsTimely DEF EInv
<1>9. CASE \/ \E w \in Handlers : Publish(w)
           \/ \E w \in Writers \ Handlers : Other(w)
           \/ \E r \in Readers : Poll(r) /\ UNCHANGED emitter
  <2>1. EShape' /\ UNCHANGED <<worker, request, stored, failed, abandoned>>
    BY <1>0, <1>9, OthersKeepShape
  <2>2. UNCHANGED <<queue, flusher, closer, timely, hurried>>
    BY <2>1 DEF worker
  <2> QED
    BY <1>0, <2>1, <2>2, StillKeepsOrder, StillKeepsTimely DEF EInv
<1>10. CASE UNCHANGED <<vars, emitter>>
  <2>1. /\ UNCHANGED <<worker, request, stored, failed, abandoned, trouble, vars>>
        /\ UNCHANGED <<queue, flusher, closer, timely, hurried>>
    BY <1>10 DEF emitter, worker
  <2>2. /\ failed' \subseteq Chunks /\ trouble' \in 0 .. MaxTrouble
        /\ DOMAIN rows \subseteq DOMAIN rows'
        /\ \A w \in Handlers : tx'[w] # "idle" => request[w] # <<>>
    BY <1>0, <2>1 DEF EShape, ApiTyped, HandlersServe, vars
  <2>3. EShape'
    BY <1>0, <2>1, <2>2, LogKeepsShape
  <2> QED
    BY <1>0, <2>1, <2>3, StillKeepsOrder, StillKeepsTimely DEF EInv
<1> QED
  BY <1>1, <1>2, <1>3, <1>4, <1>5, <1>6, <1>7, <1>8, <1>9, <1>10 DEF EmitterNext

\* EInv is inductive beside the invariant of the log.
THEOREM EmitterInvariant == EmitterSpec => []EInv
  BY InitEstablishesEmitter, EmitterStepPreserves, LogHolds, PTL DEF EmitterSpec

\* The types of the worker's, the endpoint's and the log's state.
THEOREM EmitterTypeCorrect == EmitterSpec => []EmitterTypeOK
<1>1. IInv /\ EInv => EmitterTypeOK
  BY EmitterTypeParts DEF IInv, EInv, EShape
<1> QED
  BY <1>1, LogHolds, EmitterInvariant, PTL

\* A replay shows each chunk once, and, as long as no batch was given up while
\* its handler was at work, the output of each thread in the order it was
\* written, whatever else writes to the session.
THEOREM OutputStaysInOrder == EmitterSpec => []ChunksInOrder
<1>1. EInv => ChunksInOrder
  BY DEF EInv, OrderInv, StoredOrdered, Apart, ChunksInOrder
<1> QED
  BY <1>1, EmitterInvariant, PTL

\* When the flusher has ended before close() lost patience, every chunk queued
\* before the stop is in the log, or in a batch that was given up, or the
\* endpoint failed to publish it.
THEOREM LastPassLeavesNothing == EmitterSpec => []LastPassIsComplete
<1> SUFFICES ASSUME EInv PROVE LastPassIsComplete
  BY EmitterInvariant, PTL
<1> SUFFICES ASSUME flusher.pc = "done", ~hurried PROVE timely \subseteq Stored \cup failed
  BY DEF LastPassIsComplete
<1>1. flusher.batch = <<>> /\ flusher.over = <<>> /\ flusher.final /\ queue \in Seq(Chunks)
  BY LineTyped DEF EInv, EShape, FlusherShape
<1>2. Line = queue
  <2>1. Line = <<>> \o <<>> \o queue
    BY <1>1 DEF Line
  <2> QED
    BY <1>1, <2>1
<1>3. Elems(queue) \cap timely = {} /\ Awaited = {} /\ timely \subseteq Accounted
  BY <1>1 DEF EInv, TimelyInv, LastPass, Awaited, AllAccounted
<1> QED
  BY <1>2, <1>3 DEF Accounted
-----------------------------------------------------------------------------
(* Back-pressure                                                           *)

\* The droppable chunks of a queue, by their places.
Droppable(q) == {k \in DOMAIN q : q[k].kind \in _DROP_PRIORITY}

DropProducers == {p \in Producers : Kinds[p] \cap _DROP_PRIORITY # {}}

\* The threads that are past the test with a droppable chunk.
PastTest == {p \in Producers : putting[p] # <<>> /\ putting[p][1].kind \in _DROP_PRIORITY}

PressureInv ==
  /\ \A p \in Producers : putting[p] # <<>> => putting[p][1].kind \in Kinds[p]
  /\ Cardinality(Droppable(queue)) + Cardinality(PastTest)
       <= _QUEUE_HIGH_WATER + Cardinality(DropProducers)

\* The sets that are counted are finite, and bounded by the queue's length and
\* by the threads that emit droppable chunks.
LEMMA CountsAreFinite ==
  ASSUME NEW q \in Seq(Chunks)
  PROVE  /\ IsFiniteSet(Droppable(q)) /\ Cardinality(Droppable(q)) \in Nat
         /\ Cardinality(Droppable(q)) <= Len(q)
         /\ IsFiniteSet(PastTest) /\ Cardinality(PastTest) \in Nat
         /\ Cardinality(DropProducers) \in Nat
         /\ PastTest \subseteq DropProducers => Cardinality(PastTest) <= Cardinality(DropProducers)
<1>1. /\ Len(q) \in Nat /\ Droppable(q) \subseteq 1 .. Len(q)
  BY DEF Droppable
<1>2. IsFiniteSet(1 .. Len(q)) /\ Cardinality(1 .. Len(q)) = Len(q)
  <2> DEFINE n == Len(q)
  <2>1. n \in Nat /\ n \in Int /\ 1 \in Int
    BY <1>1
  <2> HIDE DEF n
  <2>2. /\ IsFiniteSet(1 .. n)
        /\ Cardinality(1 .. n) = IF 1 > n THEN 0 ELSE n - 1 + 1
    BY <2>1, FS_Interval
  <2>3. (IF 1 > n THEN 0 ELSE n - 1 + 1) = n
    BY <2>1
  <2> QED
    BY <2>2, <2>3 DEF n
<1>3. IsFiniteSet(Droppable(q)) /\ Cardinality(Droppable(q)) <= Len(q)
  BY <1>1, <1>2, FS_Subset
<1>4. /\ IsFiniteSet(PastTest) /\ IsFiniteSet(DropProducers)
  BY EmitterAssumption, FS_Subset DEF PastTest, DropProducers
<1>5. PastTest \subseteq DropProducers => Cardinality(PastTest) <= Cardinality(DropProducers)
  BY <1>4, FS_Subset
<1> QED
  BY <1>3, <1>4, <1>5, FS_CardinalityType

\* A queue that loses its head has no more droppable chunks.
LEMMA TailHasNoMore ==
  ASSUME NEW q \in Seq(Chunks), q # <<>>
  PROVE  Cardinality(Droppable(Tail(q))) <= Cardinality(Droppable(q))
<1> DEFINE f == [k \in Droppable(Tail(q)) |-> k + 1]
<1>1. /\ Len(q) \in Nat /\ Len(q) > 0 /\ Len(Tail(q)) = Len(q) - 1
      /\ \A k \in 1 .. Len(q) - 1 : Tail(q)[k] = q[k + 1]
      /\ DOMAIN Tail(q) = 1 .. Len(q) - 1 /\ DOMAIN q = 1 .. Len(q)
  OBVIOUS
<1>2. \A k \in Droppable(Tail(q)) : k \in Nat /\ k + 1 \in Droppable(q)
  BY <1>1 DEF Droppable
<1>3. f \in [Droppable(Tail(q)) -> Droppable(q)]
  BY <1>2
<1>4. \A a, b \in Droppable(Tail(q)) : f[a] = f[b] => a = b
  BY <1>2
<1> HIDE DEF f
<1>5. f \in Injection(Droppable(Tail(q)), Droppable(q))
  BY <1>3, <1>4 DEF Injection, IsInjective
<1>6. IsFiniteSet(Droppable(q))
  BY CountsAreFinite
<1> QED
  BY <1>5, <1>6, FS_Injection

\* A chunk is queued only while the queue is at its mark or below, or if its
\* kind is never dropped.
LEMMA EmitKeepsPressure ==
  ASSUME EShape, PressureInv, NEW p \in Producers, Emit(p)
  PROVE  PressureInv'
<1>1. /\ UNCHANGED queue /\ putting[p] = <<>> /\ queue \in Seq(Chunks)
      /\ putting \in [Producers -> Seq(Chunks)]
  BY DEF Emit, EShape, WorkerTyped
<1>2. PICK kind \in Kinds[p] :
        putting' = IF Dropped(kind) THEN putting
                   ELSE [putting EXCEPT ![p] = <<[from |-> p, n |-> sent'[p], kind |-> kind]>>]
  BY DEF Emit
<1>3. CASE Dropped(kind)
  BY <1>1, <1>2, <1>3 DEF PressureInv, PastTest
<1>4. CASE ~Dropped(kind)
  <2>1. /\ \A r \in Producers \ {p} : putting'[r] = putting[r]
        /\ putting'[p] # <<>> /\ putting'[p][1].kind = kind
    BY <1>1, <1>2, <1>4
  <2>2. \A r \in Producers : putting'[r] # <<>> => putting'[r][1].kind \in Kinds[r]
    BY <2>1 DEF PressureInv
  <2>3. CASE kind \notin _DROP_PRIORITY
    <3>1. PastTest' = PastTest
      BY <1>1, <2>1, <2>3 DEF PastTest
    <3> QED
      BY <1>1, <2>2, <3>1 DEF PressureInv
  <2>4. CASE kind \in _DROP_PRIORITY
    <3>1. ~(Len(queue) > _QUEUE_HIGH_WATER)
      BY <1>4, <2>4 DEF Dropped
    <3>2. PastTest' \subseteq DropProducers
      BY <2>2 DEF PastTest, DropProducers
    <3>3. IsFiniteSet(DropProducers)
      BY EmitterAssumption, FS_Subset DEF DropProducers
    <3>4. /\ Cardinality(PastTest') \in Nat
          /\ Cardinality(PastTest') <= Cardinality(DropProducers)
      BY <3>2, <3>3, FS_Subset, FS_CardinalityType
    <3>5. /\ Cardinality(Droppable(queue)) \in Nat /\ Cardinality(Droppable(queue)) <= Len(queue)
          /\ Cardinality(DropProducers) \in Nat /\ Len(queue) \in Nat
          /\ _QUEUE_HIGH_WATER \in Nat
      BY <1>1, CountsAreFinite, EmitterAssumption
    <3>6. Cardinality(Droppable(queue)) + Cardinality(PastTest')
            <= _QUEUE_HIGH_WATER + Cardinality(DropProducers)
      BY <3>1, <3>4, <3>5
    <3> QED
      BY <1>1, <2>2, <3>6 DEF PressureInv
  <2> QED
    BY <2>3, <2>4
<1> QED
  BY <1>3, <1>4

\* Whoever puts a droppable chunk was counted among the threads past the test.
LEMMA PutKeepsPressure ==
  ASSUME EShape, PressureInv, NEW p \in Producers, Put(p)
  PROVE  PressureInv'
<1>1. /\ putting[p] # <<>> /\ putting \in [Producers -> Seq(Chunks)]
      /\ putting' = [putting EXCEPT ![p] = <<>>] /\ queue \in Seq(Chunks)
  BY DEF Put, EShape, WorkerTyped
<1>2. PICK c \in Chunks : putting[p] = <<c>> /\ queue' = queue \o <<c>>
  BY PutEffect
<1>3. putting'[p] = <<>> /\ \A r \in Producers \ {p} : putting'[r] = putting[r]
  BY <1>1
<1>4. \A r \in Producers : putting'[r] # <<>> => putting'[r][1].kind \in Kinds[r]
  BY <1>3 DEF PressureInv
<1>5. /\ Len(queue) \in Nat /\ DOMAIN queue = 1 .. Len(queue)
      /\ DOMAIN queue' = 1 .. Len(queue) + 1 /\ queue'[Len(queue) + 1] = c
      /\ \A k \in 1 .. Len(queue) : queue'[k] = queue[k]
  <2>1. <<c>> \in Seq(Chunks) /\ Len(<<c>>) = 1 /\ <<c>>[1] = c
    OBVIOUS
  <2> QED
    BY <1>1, <1>2, <2>1
<1>6. /\ IsFiniteSet(Droppable(queue)) /\ Cardinality(Droppable(queue)) \in Nat
      /\ IsFiniteSet(PastTest) /\ Cardinality(PastTest) \in Nat
  BY <1>1, CountsAreFinite
<1>7. c = putting[p][1]
  BY <1>2
<1>8. CASE c.kind \in _DROP_PRIORITY
  <2>1. Droppable(queue') = Droppable(queue) \cup {Len(queue) + 1}
    BY <1>5, <1>8 DEF Droppable
  <2>2. Len(queue) + 1 \notin Droppable(queue)
    BY <1>5 DEF Droppable
  <2>3. Cardinality(Droppable(queue')) = Cardinality(Droppable(queue)) + 1
    BY <1>6, <2>1, <2>2, FS_AddElement
  <2>4. PastTest' = PastTest \ {p} /\ p \in PastTest
    BY <1>1, <1>3, <1>7, <1>8 DEF PastTest
  <2>5. Cardinality(PastTest') = Cardinality(PastTest) - 1
    BY <1>6, <2>4, FS_RemoveElement
  <2>6. Cardinality(Droppable(queue')) + Cardinality(PastTest')
          = Cardinality(Droppable(queue)) + Cardinality(PastTest)
    BY <1>6, <2>3, <2>5
  <2> QED
    BY <1>4, <2>6 DEF PressureInv, DropProducers
<1>9. CASE c.kind \notin _DROP_PRIORITY
  <2>1. Droppable(queue') = Droppable(queue)
    BY <1>5, <1>9 DEF Droppable
  <2>2. PastTest' = PastTest
    BY <1>1, <1>3, <1>7, <1>9 DEF PastTest
  <2> QED
    BY <1>4, <2>1, <2>2 DEF PressureInv, DropProducers
<1> QED
  BY <1>8, <1>9

\* The queue never holds more droppable chunks than its high-water mark and one
\* for each thread that emits them: the test and the put are not one step.
THEOREM BackPressure == EmitterSpec => []BackPressureHolds
<1>1. EmitterInit => PressureInv
  <2> SUFFICES ASSUME EmitterInit PROVE PressureInv
    OBVIOUS
  <2>1. queue = <<>> /\ \A p \in Producers : putting[p] = <<>>
    BY DEF EmitterInit
  <2>2. Droppable(queue) = {} /\ PastTest = {}
    BY <2>1 DEF Droppable, PastTest
  <2>3. Cardinality({}) = 0 /\ Cardinality(DropProducers) \in Nat /\ _QUEUE_HIGH_WATER \in Nat
    <3>1. <<>> \in Seq(Chunks)
      OBVIOUS
    <3> QED
      BY <3>1, FS_EmptySet, CountsAreFinite, EmitterAssumption
  <2>4. 0 + 0 <= _QUEUE_HIGH_WATER + Cardinality(DropProducers)
    BY <2>3
  <2> QED
    BY <2>1, <2>2, <2>3, <2>4 DEF PressureInv
<1>2. EInv /\ PressureInv /\ [EmitterNext]_<<vars, emitter>> => PressureInv'
  <2> SUFFICES ASSUME EShape, PressureInv, [EmitterNext]_<<vars, emitter>> PROVE PressureInv'
    BY DEF EInv
  <2>1. ASSUME NEW p \in Producers, Emit(p) \/ Put(p) PROVE PressureInv'
    BY <2>1, EmitKeepsPressure, PutKeepsPressure
  <2>2. CASE Take
    <3>1. queue # <<>> /\ queue' = Tail(queue) /\ UNCHANGED putting /\ queue \in Seq(Chunks)
      BY <2>2 DEF Take, FlusherOnly, EShape, WorkerTyped
    <3>2. Cardinality(Droppable(queue')) <= Cardinality(Droppable(queue)) /\ queue' \in Seq(Chunks)
      BY <3>1, TailHasNoMore
    <3>3. /\ Cardinality(Droppable(queue)) \in Nat /\ Cardinality(Droppable(queue')) \in Nat
          /\ Cardinality(PastTest) \in Nat /\ Cardinality(DropProducers) \in Nat
          /\ _QUEUE_HIGH_WATER \in Nat
      BY <3>1, <3>2, CountsAreFinite, EmitterAssumption
    <3>4. Cardinality(Droppable(queue')) + Cardinality(PastTest)
            <= _QUEUE_HIGH_WATER + Cardinality(DropProducers)
      BY <3>2, <3>3 DEF PressureInv
    <3> QED
      BY <3>1, <3>4 DEF PressureInv, PastTest
  <2>3. CASE UNCHANGED <<queue, putting>>
    BY <2>3 DEF PressureInv, PastTest
  <2>4. CASE Wake \/ Drained \/ PostNowhere \/ PostFails \/ Answered \/ Stop \/ Joined \/ Closed
    BY <2>3, <2>4 DEF Wake, Drained, PostNowhere, PostFails, Answered, FlusherOnly,
                      Stop, Joined, Closed, CloserOnly
  <2>5. ASSUME NEW w \in Handlers, Post(w) \/ Publish(w) \/ PublishCommits(w) \/ PublishFails(w)
        PROVE  PressureInv'
    BY <2>3, <2>5 DEF Post, FlusherOnly, Publish, PublishCommits, PublishFails, HandlerOnly, worker
  <2>6. ASSUME NEW w \in Writers \ Handlers, Other(w) PROVE PressureInv'
    BY <2>3, <2>6 DEF Other, worker
  <2>7. ASSUME NEW r \in Readers, UNCHANGED emitter PROVE PressureInv'
    BY <2>3, <2>7 DEF emitter, worker
  <2>8. CASE UNCHANGED <<vars, emitter>>
    BY <2>3, <2>8 DEF emitter, worker
  <2> QED
    BY <2>1, <2>2, <2>4, <2>5, <2>6, <2>7, <2>8 DEF EmitterNext
<1>3. EInv /\ PressureInv => BackPressureHolds
  <2> SUFFICES ASSUME EShape, PressureInv PROVE BackPressureHolds
    BY DEF EInv
  <2>1. /\ Cardinality(Droppable(queue)) \in Nat /\ Cardinality(PastTest) \in Nat
        /\ Cardinality(DropProducers) \in Nat /\ _QUEUE_HIGH_WATER \in Nat
    BY CountsAreFinite, EmitterAssumption DEF EShape, WorkerTyped
  <2>2. Cardinality(Droppable(queue)) <= _QUEUE_HIGH_WATER + Cardinality(DropProducers)
    BY <2>1 DEF PressureInv
  <2> QED
    BY <2>2 DEF BackPressureHolds, Droppable, DropProducers
<1> QED
  BY <1>1, <1>2, <1>3, EmitterInvariant, PTL DEF EmitterSpec
=============================================================================
