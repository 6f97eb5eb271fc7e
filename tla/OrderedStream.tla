---------------------------- MODULE OrderedStream ----------------------------
(***************************************************************************)
(* What a stream promises to its reader: the items 1, 2, 3, ... that the   *)
(* producer has emitted are consumed in that order, each exactly once, and *)
(* while the stream is not closed every emitted item is consumed in the    *)
(* end.  The receiving half of the SSM data channel implements it.         *)
(***************************************************************************)
EXTENDS Naturals, Sequences

VARIABLES
    produced,  \* how many items the producer has emitted
    consumed,  \* the items handed to the reader, in order
    closed     \* the stream was closed; what is left may be lost

streamVars == <<produced, consumed, closed>>

Init ==
    /\ produced = 0
    /\ consumed = <<>>
    /\ closed = FALSE

Produce ==
    /\ produced' = produced + 1
    /\ UNCHANGED <<consumed, closed>>

Consume ==
    /\ Len(consumed) < produced
    /\ consumed' = Append(consumed, Len(consumed) + 1)
    /\ UNCHANGED <<produced, closed>>

Close ==
    /\ closed' = TRUE
    /\ UNCHANGED <<produced, consumed>>

Next == Produce \/ Consume \/ Close

Safety == Init /\ [][Next]_streamVars

Spec == Safety /\ WF_streamVars(~closed /\ Consume)

=============================================================================
