----------------------------- MODULE SinkStream -----------------------------
(***************************************************************************)
(* What the replication client promises its sink (spec.md sections 4.5,   *)
(* 4.8 and 7): the callback receives the binlog events that pass the      *)
(* database filter and the event-kind subscription and lie between the    *)
(* start position and the configured maximum, each one once, in binlog    *)
(* order.  Nothing is skipped and nothing is delivered out of order.      *)
(***************************************************************************)
EXTENDS Naturals, Sequences

VARIABLES
    stream,   \* the events the sink is owed, fixed when the dump starts
    out       \* the events handed to the sink callback so far

Init == out = <<>>

\* The sink receives the next event it is owed.
Deliver ==
    /\ Len(out) < Len(stream)
    /\ out' = Append(out, stream[Len(out) + 1])
    /\ UNCHANGED stream

Spec == Init /\ [][Deliver]_<<stream, out>>

Complete == out = stream
=============================================================================
