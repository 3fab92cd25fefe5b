--------------------------- MODULE AppendOnlyLog ---------------------------
(***************************************************************************)
(* What a numbered event log promises its readers: events are appended one *)
(* at a time, the n-th event has number n, and nothing already readable    *)
(* changes or is preceded by something new.                                *)
(***************************************************************************)
EXTENDS Sequences

CONSTANT Writers

VARIABLE entries    \* entries[n]: who wrote the event readable under number n

Init == entries = <<>>

Next == \E w \in Writers : entries' = Append(entries, w)

Spec == Init /\ [][Next]_entries
=============================================================================
