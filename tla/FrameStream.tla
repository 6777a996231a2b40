---------------------------- MODULE FrameStream -----------------------------
(***************************************************************************)
(* What each ring of the server promises: a bounded FIFO of consecutive    *)
(* frames.  Whatever the producer appends is delivered once, in order,     *)
(* with no frame missing, and at most Cap frames wait.                     *)
(***************************************************************************)
EXTENDS Integers, Sequences

CONSTANTS Cap, Closed

VARIABLES queue, next, out

streamVars == <<queue, next, out>>

(* A stream may start open, at frame 0. *)
Init ==
    /\ queue = <<>>
    /\ next \in {Closed, 0}
    /\ out = Closed

Open ==
    /\ next = Closed
    /\ next' \in Int
    /\ next' # Closed
    /\ UNCHANGED <<queue, out>>

Put ==
    /\ next # Closed
    /\ Len(queue) < Cap
    /\ queue' = Append(queue, next)
    /\ next' = next + 1
    /\ UNCHANGED out

Deliver ==
    /\ queue # <<>>
    /\ out' = Head(queue)
    /\ queue' = Tail(queue)
    /\ UNCHANGED next

Next == Open \/ Put \/ Deliver

Spec == Init /\ [][Next]_streamVars
=============================================================================
