-------------------------- MODULE MCStreamEmitter --------------------------
(***************************************************************************)
(* TLC instance of StreamEmitter: the two readers of a CLI's output, two   *)
(* handlers of the endpoint, one other writer and one reader of the log.   *)
(***************************************************************************)
EXTENDS StreamEmitter, TLC

CONSTANTS out, err, w1, w2, w3, r1

MCProducers == {out, err}
MCKinds == [p \in MCProducers |-> IF p = out THEN {"text"} ELSE {"stderr"}]
MCMaxChunks == [p \in MCProducers |-> IF p = out THEN 2 ELSE 1]
MCHandlers == {w1, w2}
MCWriters == {w1, w2, w3}
MCReaders == {r1}

HandlerSymmetry == Permutations(Handlers)
=============================================================================
