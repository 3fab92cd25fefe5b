--------------------------- MODULE StreamEmitter ---------------------------
(***************************************************************************)
(* The code worker's SessionEventEmitter and the endpoint it posts to.     *)
(* The threads that read a CLI's output queue chunks; a flusher thread     *)
(* posts them in batches, giving up on a batch whose answer does not come  *)
(* in time; a handler of the API publishes the chunks of a batch one by    *)
(* one into the session's numbered log, beside the log's other writers;    *)
(* and close() stops the flusher, waits for it, and closes the connection. *)
(***************************************************************************)
EXTENDS EventLog, Sequences, FiniteSets

CONSTANTS
  Producers,          \* threads that call emit_chunk
  Kinds,              \* Kinds[p]: the kinds of chunk that p emits
  Handlers,           \* the writers of the log that are handlers of the endpoint
  _QUEUE_HIGH_WATER,
  _MAX_BATCH_CHUNKS,
  MaxChunks,          \* bound: MaxChunks[p] chunks of producer p
  MaxTrouble          \* bound: batches given up and transactions rolled back

ASSUME EmitterAssumption ==
  /\ Handlers \subseteq Writers /\ IsFiniteSet(Producers)
  /\ _QUEUE_HIGH_WATER \in Nat /\ _MAX_BATCH_CHUNKS \in Nat \ {0} /\ MaxChunks \in [Producers -> Nat]
  /\ MaxTrouble \in Nat

VARIABLES
  sent,       \* sent[p]: calls of emit_chunk by p
  putting,    \* putting[p]: what p is about to put, past the back-pressure test
  queue,      \* _q
  closer,     \* the thread that calls close(): _stop is set from "joining" on
  flusher,    \* the background thread: its place, batch, and the chunk taken too many
  request,    \* request[w]: the chunks that handler w has still to publish
  stored,     \* the chunk in each row of the log that a handler wrote
  timely,     \* history: chunks queued before _stop was set
  failed,     \* history: chunks of batches given up (counted in http_errors), and
              \* chunks that the endpoint could not publish
  hurried,    \* history: close() did not wait for the flusher's end
  trouble,    \* batches given up and transactions rolled back so far
  abandoned   \* history: a batch was given up while its handler was still at work

worker == <<sent, putting, queue, closer, flusher, timely, hurried>>
emitter == <<worker, request, stored, failed, abandoned, trouble>>

_DROP_PRIORITY == {"reasoning", "stdout", "text"}

EmitterInit ==
  /\ Init
  /\ sent = [p \in Producers |-> 0] /\ putting = [p \in Producers |-> <<>>]
  /\ queue = <<>>
  /\ closer = "open"
  /\ flusher = [pc |-> "loop", batch |-> <<>>, over |-> <<>>, final |-> FALSE, handler |-> None]
  /\ request = [w \in Handlers |-> <<>>]
  /\ stored = [n \in {} |-> <<>>]
  /\ timely = {} /\ failed = {} /\ hurried = FALSE /\ abandoned = FALSE
  /\ trouble = 0

TroubleHappens == trouble < MaxTrouble /\ trouble' = trouble + 1

-----------------------------------------------------------------------------
(* The producers                                                           *)

\* Mutant of Dropped: only what nobody wants to read.
Dropped_Reasoning(kind) == Len(queue) > _QUEUE_HIGH_WATER /\ kind = "reasoning"

Dropped(kind) == Len(queue) > _QUEUE_HIGH_WATER /\ kind \in _DROP_PRIORITY

\* emit_chunk tests the depth of the queue, and puts the chunk later.
Emit(p) ==
  /\ sent[p] < MaxChunks[p] /\ putting[p] = <<>>
  /\ sent' = [sent EXCEPT ![p] = @ + 1]
  /\ \E kind \in Kinds[p] :
       putting' = IF Dropped(kind) THEN putting
                  ELSE [putting EXCEPT ![p] = <<[from |-> p, n |-> sent'[p], kind |-> kind]>>]
  /\ UNCHANGED <<vars, queue, closer, flusher, timely, hurried, request, stored, failed, abandoned, trouble>>

Put(p) ==
  /\ putting[p] # <<>>
  /\ queue' = queue \o putting[p]
  /\ putting' = [putting EXCEPT ![p] = <<>>]
  /\ timely' = IF closer = "open" THEN timely \cup {putting[p][1]} ELSE timely
  /\ UNCHANGED <<vars, sent, closer, flusher, hurried, request, stored, failed, abandoned, trouble>>

-----------------------------------------------------------------------------
(* The flusher: _run, _flush_once and _post_batch                          *)

FlusherOnly == UNCHANGED <<vars, sent, putting, closer, timely, hurried, stored>>

\* Mutant of Wake: no last pass after the stop.
Wake_NoLastPass ==
  /\ flusher.pc = "loop"
  /\ flusher' = [flusher EXCEPT !.pc = IF closer = "open" THEN "taking" ELSE "done"]
  /\ FlusherOnly /\ UNCHANGED <<queue, request, failed, abandoned, trouble>>

\* Another pass, the last one if the stop has been seen.
Wake ==
  /\ flusher.pc = "loop"
  /\ flusher' = [flusher EXCEPT !.pc = "taking", !.final = closer # "open"]
  /\ FlusherOnly /\ UNCHANGED <<queue, request, failed, abandoned, trouble>>

\* A chunk joins the batch, or finds it full: of chunks, or of bytes.
Take ==
  /\ flusher.pc = "taking" /\ queue # <<>>
  /\ queue' = Tail(queue)
  /\ \/ /\ Len(flusher.batch) < _MAX_BATCH_CHUNKS
        /\ flusher' = [flusher EXCEPT !.batch = Append(@, Head(queue))]
     \/ /\ flusher.batch # <<>>
        /\ flusher' = [flusher EXCEPT !.pc = "post", !.over = <<Head(queue)>>]
  /\ FlusherOnly /\ UNCHANGED <<request, failed, abandoned, trouble>>

\* The pass is over, with the chunk that did not fit as the next batch.
AfterBatch ==
  flusher' = [flusher EXCEPT !.batch = flusher.over, !.over = <<>>, !.handler = None,
                !.pc = IF flusher.over # <<>> THEN "taking"
                       ELSE IF flusher.final THEN "done" ELSE "loop"]

Drained ==
  /\ flusher.pc = "taking" /\ queue = <<>>
  /\ IF flusher.batch = <<>> THEN AfterBatch ELSE flusher' = [flusher EXCEPT !.pc = "post"]
  /\ FlusherOnly /\ UNCHANGED <<queue, request, failed, abandoned, trouble>>

\* A request reaches the endpoint.
Post(w) ==
  /\ flusher.pc = "post" /\ closer \in {"open", "joining"}
  /\ request[w] = <<>>
  /\ request' = [request EXCEPT ![w] = flusher.batch]
  /\ flusher' = [flusher EXCEPT !.pc = "posted", !.handler = w]
  /\ FlusherOnly /\ UNCHANGED <<queue, failed, abandoned, trouble>>

\* The connection is gone: nobody is told of the batch.
PostNowhere ==
  /\ flusher.pc = "post" /\ closer = "closed"
  /\ AfterBatch
  /\ FlusherOnly /\ UNCHANGED <<queue, request, failed, abandoned, trouble>>

InBatch == {flusher.batch[k] : k \in DOMAIN flusher.batch}

\* Mutant of PostFails: the batch is queued again.
PostFails_Requeues ==
  /\ flusher.pc \in {"post", "posted"}
  /\ flusher.pc = "post" => closer # "closed"
  /\ TroubleHappens /\ AfterBatch
  /\ queue' = queue \o flusher.batch
  /\ failed' = failed \cup InBatch
  /\ abandoned' = (abandoned \/ (flusher.pc = "posted" /\ request[flusher.handler] # <<>>))
  /\ FlusherOnly /\ UNCHANGED request

\* An error, or no answer in time: the batch is given up and counted, its
\* handler goes on.
PostFails ==
  /\ flusher.pc \in {"post", "posted"}
  /\ flusher.pc = "post" => closer # "closed"
  /\ TroubleHappens /\ AfterBatch
  /\ failed' = failed \cup InBatch
  /\ abandoned' = (abandoned \/ (flusher.pc = "posted" /\ request[flusher.handler] # <<>>))
  /\ FlusherOnly /\ UNCHANGED <<queue, request>>

Answered ==
  /\ flusher.pc = "posted" /\ request[flusher.handler] = <<>>
  /\ AfterBatch
  /\ FlusherOnly /\ UNCHANGED <<queue, request, failed, abandoned, trouble>>

-----------------------------------------------------------------------------
(* close()                                                                 *)

CloserOnly == UNCHANGED <<vars, sent, putting, queue, flusher, timely, request, stored, failed, abandoned, trouble>>

Stop ==
  /\ closer = "open" /\ closer' = "joining"
  /\ CloserOnly /\ UNCHANGED hurried

\* The flusher has ended, or the time to wait for it is over.
Joined ==
  /\ closer = "joining" /\ closer' = "closing"
  /\ hurried' = (flusher.pc # "done")
  /\ CloserOnly

Closed ==
  /\ closer = "closing" /\ closer' = "closed"
  /\ CloserOnly /\ UNCHANGED hurried

-----------------------------------------------------------------------------
(* The endpoint, and the other writers and readers of the log              *)

HandlerOnly == UNCHANGED <<worker, abandoned>>

Served(w) == request' = [request EXCEPT ![w] = Tail(@)]

Publish(w) ==
  /\ request[w] # <<>>
  /\ AcquireLock(w) \/ AllocateSeq(w) \/ InsertRow(w)
  /\ HandlerOnly /\ UNCHANGED <<request, stored, failed, trouble>>

PublishCommits(w) ==
  /\ Commit(w)
  /\ stored' = [n \in DOMAIN stored \cup {mySeq[w]} |->
                  IF n = mySeq[w] THEN Head(request[w]) ELSE stored[n]]
  /\ Served(w)
  /\ HandlerOnly /\ UNCHANGED <<failed, trouble>>

\* An exception costs the chunk; the handler goes on with the next.
PublishFails(w) ==
  /\ TroubleHappens /\ Rollback(w)
  /\ failed' = failed \cup {Head(request[w])}
  /\ Served(w)
  /\ HandlerOnly /\ UNCHANGED stored

Other(w) ==
  /\ \/ (AcquireLock(w) \/ AllocateSeq(w) \/ InsertRow(w) \/ Commit(w)) /\ UNCHANGED trouble
     \/ Rollback(w) /\ TroubleHappens
  /\ UNCHANGED <<worker, request, stored, failed, abandoned>>

EmitterNext ==
  \/ \E p \in Producers : Emit(p) \/ Put(p)
  \/ Wake \/ Take \/ Drained \/ PostNowhere \/ PostFails \/ Answered
  \/ \E w \in Handlers : Post(w) \/ Publish(w) \/ PublishCommits(w) \/ PublishFails(w)
  \/ Stop \/ Joined \/ Closed
  \/ \E w \in Writers \ Handlers : Other(w)
  \/ \E r \in Readers : Poll(r) /\ UNCHANGED emitter

EmitterSpec == EmitterInit /\ [][EmitterNext]_<<vars, emitter>>

-----------------------------------------------------------------------------
(* What must hold                                                          *)

Chunks == [from : Producers, n : Nat, kind : UNION {Kinds[p] : p \in Producers}]

EmitterTypeOK ==
  /\ TypeOK
  /\ sent \in [Producers -> Nat]
  /\ putting \in [Producers -> Seq(Chunks)] /\ queue \in Seq(Chunks)
  /\ closer \in {"open", "joining", "closing", "closed"}
  /\ flusher \in [pc : {"loop", "taking", "post", "posted", "done"}, batch : Seq(Chunks),
                  over : Seq(Chunks), final : BOOLEAN, handler : Handlers \cup {None}]
  /\ request \in [Handlers -> Seq(Chunks)]
  /\ DOMAIN stored \subseteq DOMAIN rows /\ \A n \in DOMAIN stored : stored[n] \in Chunks
  /\ timely \subseteq Chunks /\ failed \subseteq Chunks
  /\ hurried \in BOOLEAN /\ abandoned \in BOOLEAN /\ trouble \in 0 .. MaxTrouble

Stored == {stored[n] : n \in DOMAIN stored}

\* A replay shows each chunk once, and the output of a thread in the order it was
\* written, as long as no batch was given up while the endpoint was publishing it.
ChunksInOrder ==
  \A m, n \in DOMAIN stored : m < n =>
    /\ stored[m] # stored[n]
    /\ ~abandoned /\ stored[m].from = stored[n].from => stored[m].n < stored[n].n

\* The last pass leaves nothing behind: what was queued before close() is in the
\* log, unless close() could not wait for it, its batch was given up, or the
\* endpoint failed to publish it.  That somebody reads of the loss is not
\* claimed: the emitter counts a batch it gives up, but warns of the first two
\* and every fiftieth only.
LastPassIsComplete ==
  flusher.pc = "done" /\ ~hurried => timely \subseteq Stored \cup failed

\* The queue holds no more droppable chunks than its high-water mark and one for
\* each thread that emits them, however long the API does not answer.
BackPressureHolds ==
  Cardinality({k \in DOMAIN queue : queue[k].kind \in _DROP_PRIORITY})
    <= _QUEUE_HIGH_WATER + Cardinality({p \in Producers : Kinds[p] \cap _DROP_PRIORITY # {}})
=============================================================================
