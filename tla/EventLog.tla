------------------------------ MODULE EventLog ------------------------------
(***************************************************************************)
(* How chat_job_events and session_events number their rows.  A writer     *)
(* takes pg_advisory_xact_lock(hashtext(key)), reads COALESCE(MAX(seq), 0) *)
(* + 1, inserts and commits; Postgres frees the lock when the transaction  *)
(* ends, after its rows became readable.  The writers are transactions of  *)
(* different threads and replicas for one key (one job, or one session);   *)
(* a reader polls with the highest number it has seen.                     *)
(***************************************************************************)
EXTENDS Naturals

CONSTANTS
  Writers,    \* database sessions that append for this key
  Readers,    \* pollers of the log
  MaxEvents,  \* bound on the rows, for model checking
  None        \* nobody holds the lock

ASSUME MaxEventsAssumption == MaxEvents \in Nat
ASSUME NoneAssumption == None \notin Writers

VARIABLES
  rows,     \* the committed rows: a function from seq to its writer
  holder,   \* who holds the advisory lock
  tx,       \* where each writer's transaction is
  mySeq,    \* the number it read, then inserted
  cursor,   \* the highest seq each reader has seen
  got       \* the set of seqs each reader was given

vars == <<rows, holder, tx, mySeq, cursor, got>>

\* "conflict": the INSERT violated the (key, seq) uniqueness constraint.
TxStates == {"idle", "locked", "numbered", "inserted", "conflict"}

TypeOK ==
  /\ DOMAIN rows \subseteq Nat \ {0}
  /\ \A n \in DOMAIN rows : rows[n] \in Writers
  /\ holder \in Writers \cup {None}
  /\ tx \in [Writers -> TxStates]
  /\ mySeq \in [Writers -> Nat]
  /\ cursor \in [Readers -> Nat]
  /\ got \in [Readers -> SUBSET (Nat \ {0})]

Init ==
  /\ rows = [n \in {} |-> None]
  /\ holder = None
  /\ tx = [w \in Writers |-> "idle"]
  /\ mySeq = [w \in Writers |-> 0]
  /\ cursor = [r \in Readers |-> 0]
  /\ got = [r \in Readers |-> {}]

\* SELECT COALESCE(MAX(seq), 0), over committed rows.
MaxCommitted ==
  CHOOSE m \in DOMAIN rows \cup {0} : \A n \in DOMAIN rows : n <= m

-----------------------------------------------------------------------------

\* Mutant of AcquireLock: a caller forgets pg_advisory_xact_lock.
AcquireLock_Forgotten(w) ==
  /\ tx[w] = "idle"
  /\ MaxCommitted < MaxEvents
  /\ holder' = w
  /\ tx' = [tx EXCEPT ![w] = "locked"]
  /\ UNCHANGED <<rows, mySeq, cursor, got>>

AcquireLock(w) ==
  /\ tx[w] = "idle" /\ holder = None
  /\ MaxCommitted < MaxEvents
  /\ holder' = w
  /\ tx' = [tx EXCEPT ![w] = "locked"]
  /\ UNCHANGED <<rows, mySeq, cursor, got>>

AllocateSeq(w) ==
  /\ tx[w] = "locked"
  /\ mySeq' = [mySeq EXCEPT ![w] = MaxCommitted + 1]
  /\ tx' = [tx EXCEPT ![w] = "numbered"]
  /\ UNCHANGED <<rows, holder, cursor, got>>

\* Postgres makes an INSERT wait for a concurrent uncommitted row with the
\* same key, then fail if that row was committed.
InsertRow(w) ==
  /\ tx[w] = "numbered"
  /\ \A v \in Writers : ~(tx[v] = "inserted" /\ mySeq[v] = mySeq[w])
  /\ tx' = [tx EXCEPT ![w] = IF mySeq[w] \in DOMAIN rows THEN "conflict" ELSE "inserted"]
  /\ UNCHANGED <<rows, holder, mySeq, cursor, got>>

Release(w) ==
  /\ tx' = [tx EXCEPT ![w] = "idle"]
  /\ holder' = IF holder = w THEN None ELSE holder

\* Mutant of Commit: a ring that keeps the newest two rows.
Commit_Ring(w) ==
  /\ tx[w] = "inserted"
  /\ rows' = [n \in {k \in DOMAIN rows : k + 1 >= mySeq[w]} \cup {mySeq[w]} |->
                IF n = mySeq[w] THEN w ELSE rows[n]]
  /\ Release(w)
  /\ UNCHANGED <<mySeq, cursor, got>>

Commit(w) ==
  /\ tx[w] = "inserted"
  /\ rows' = [n \in DOMAIN rows \cup {mySeq[w]} |->
                IF n = mySeq[w] THEN w ELSE rows[n]]
  /\ Release(w)
  /\ UNCHANGED <<mySeq, cursor, got>>

\* An error, a lost connection or a dead process, anywhere before COMMIT.
Rollback(w) ==
  /\ tx[w] # "idle"
  /\ Release(w)
  /\ UNCHANGED <<rows, mySeq, cursor, got>>

Newer(r) == {n \in DOMAIN rows : n > cursor[r]}

\* Mutant of PageUpTo: LIMIT without ORDER BY.
PageUpTo_Unordered(r, hi) == {hi}

\* SELECT ... WHERE seq > cursor ORDER BY seq LIMIT ...: the rows up to the
\* one, hi, at which the limit cuts.
PageUpTo(r, hi) == {n \in Newer(r) : n <= hi}

Poll(r) ==
  /\ \E hi \in Newer(r) :
       /\ got' = [got EXCEPT ![r] = @ \cup PageUpTo(r, hi)]
       /\ cursor' = [cursor EXCEPT ![r] = hi]
  /\ UNCHANGED <<rows, holder, tx, mySeq>>

Next ==
  \/ \E w \in Writers :
       AcquireLock(w) \/ AllocateSeq(w) \/ InsertRow(w) \/ Commit(w) \/ Rollback(w)
  \/ \E r \in Readers : Poll(r)

Spec == Init /\ [][Next]_vars

-----------------------------------------------------------------------------
(* What must hold                                                          *)

\* The lock does its work: no append ever dies on the uniqueness constraint
\* ("the (job_id, seq) PK is the safety net if a future caller forgets the
\* lock").
NoConflict == \A w \in Writers : tx[w] # "conflict"

\* The numbers readable at any moment are 1 .. n: rollbacks leave no gap.
Gapless == DOMAIN rows = 1 .. MaxCommitted

\* A reader that only ever asks for seq > cursor misses nothing, because no
\* row becomes readable below a row that already is.
ReaderMissesNothing ==
  \A r \in Readers : got[r] = {n \in DOMAIN rows : n <= cursor[r]}

\* rows is a sequence, and commits append to it.
Log == INSTANCE AppendOnlyLog WITH entries <- rows
LogSpec == Log!Spec
=============================================================================
