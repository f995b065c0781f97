----------------------------- MODULE FifoChannel -----------------------------
(***************************************************************************)
(* What the scanner's work queue promises, whatever its bookkeeping: the   *)
(* items accepted before the channel is closed come out once each, in the  *)
(* order they went in.  FinishableQueue implements this.                   *)
(***************************************************************************)
EXTENDS Naturals, Sequences

CONSTANT Items

VARIABLES
    accepted,    \* every item accepted so far, oldest first
    delivered,   \* every item handed to a consumer so far, oldest first
    closed       \* no further item is accepted

vars == <<accepted, delivered, closed>>

Init ==
    /\ accepted = <<>>
    /\ delivered = <<>>
    /\ closed = FALSE

\* A producer puts an item in.
Accept(x) ==
    /\ ~closed
    /\ accepted' = Append(accepted, x)
    /\ UNCHANGED <<delivered, closed>>

\* A consumer takes the oldest item nobody has taken.
Deliver ==
    /\ Len(delivered) < Len(accepted)
    /\ delivered' = Append(delivered, accepted[Len(delivered) + 1])
    /\ UNCHANGED <<accepted, closed>>

\* An item goes straight to a consumer that was waiting for it: nothing else
\* may be in transit, or the item would overtake it.
HandOver(x) ==
    /\ ~closed
    /\ delivered = accepted
    /\ accepted' = Append(accepted, x)
    /\ delivered' = Append(delivered, x)
    /\ UNCHANGED closed

Close ==
    /\ ~closed
    /\ closed' = TRUE
    /\ UNCHANGED <<accepted, delivered>>

Next ==
    \/ \E x \in Items : Accept(x) \/ HandOver(x)
    \/ Deliver
    \/ Close

Spec == Init /\ [][Next]_vars

=============================================================================
